SPECIFICATION LiveSpec
CONSTANTS
  Row <- Rows1
  Seat = {"w1"}
  Pane = {"%1", "%2"}
  NoPane = "none"
  Home <- FirstPane
  To <- OnlyTo
  Kind <- OnlyKind
  Class <- OnlyClass
  BulkMax = 1
  MaxCrash = 0
  MaxChurn = 1
  MaxDeath = 1
PROPERTIES MovedSeatGetsItsMail
