SPECIFICATION DaemonSpec
CONSTANTS
  Coord = {"manager"}
  Row <- Rows2
  AckClass = {}
  Hub = {"stop"}
  Draft = {"d"}
  NoDraft = "none"
  BulkMax = 2
  Settle = 1
  Stuck = 1
  Threshold = 2
  Cooldown = 1
  MaxPeer = 2
  MaxChurn = 1
  MaxCrash = 1
  Sup = {"s1", "s2"}
  Cli = {"c1", "c2"}
  Stopper = {"c1"}
  NoSup = "nobody"
  MaxFail = 1
  Op = {"o1", "o2"}
  NoOp = "no op"
  MaxFault = 1
  Target = {"t1", "t2"}
  Goal <- OneGoal
  Slices = {"t2"}
  Handler = {"h1"}
  NoCopy = NoCopy
  Budget = 1
  MaxAsk = 1
  MaxDeath = 1
  Panes <- TwoPanes
  ScanBatch = 1
  ConnectThreshold = 2
  MaxChange = 2
INVARIANTS DaemonTypeOK StopSticks RunsArePaidFor TriagedOnce OneScript
PROPERTIES InboxKeepsMailbox WaitingMailSettles CalmLaneDrains KeepsServing OpsAreTaken DueIsBroughtUp SettledTargetStays LimitsPass
CHECK_DEADLOCK FALSE
