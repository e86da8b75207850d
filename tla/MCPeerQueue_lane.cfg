SPECIFICATION LiveSpec
CONSTANTS
  Row <- Rows4
  Seat = {"w1"}
  Pane = {"%1", "%2"}
  NoPane = "none"
  Home <- FirstPane
  To <- MixTo
  Kind <- MixKind
  Class <- MixClass
  BulkMax = 2
  MaxCrash = 1
  MaxChurn = 1
  MaxDeath = 1
INVARIANTS TypeOK OnePastePerCrash ParkedIsListed DeliveredWasPasted
PROPERTIES EmptySeatGetsItsMail KeepsMailbox SettledStays DropsOnlyNoise  OldestFirst
