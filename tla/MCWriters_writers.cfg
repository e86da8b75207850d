SPECIFICATION WritersSpec
CONSTANTS
  Mail <- Mails
  Seat = {"w1", "mgr"}
  Watched = {"w1"}
  Text = {"op"}
  From <- Froms
  To <- Tos
  Lane <- Lane2
  AskOf <- AskOf2
  Parked = {}
  Asks = {"ask", "report", "op"}
  NoAsk = "none"
  MaxCrash = 1
  MaxTyped = 1
  Proc = {"daemon", "cli", "other"}
  Pane = {"a", "b"}
  Target <- TargetOf
  Forced = {"daemon", "other"}
  Twice = {"a"}
  Stiff = {}
  Locked = {"b"}
  Draft = {"d"}
  Nothing = "unset"
  MaxRun = 2
  MaxType = 2
  MaxKill = 1
  Agent = {"x", "y"}
  Msg = {"m1", "m2", "m3"}
  Author <- AuthorOf
  Sync = {"m3"}
  NoMsg = "no line"
  MaxRead = 1
  MaxEra = 2
  TimerId <- Ids
  TimerKind <- KindOf
  TimerKey <- KeyOf
  TimerRoleless = {"lone"}
  TimerBudget = 2
  TimerLag = 3
INVARIANTS WritersTypeOK OneOpenPerAsk AskRecorded MatchIsTheLoop CrossNeedsOverlap LocksComeBack PingsKeepCooldown
PROPERTIES FiledOnEvidence PaneReplyAnswers SweepIsMeasured DueIsAttended LoneInjectIsClean OnlyReadingClears
CHECK_DEADLOCK FALSE
