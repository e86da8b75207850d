SPECIFICATION Spec
CONSTANTS
  Row <- Rows3
  Seat = {"w1"}
  Pane = {"%1", "%2"}
  NoPane = "none"
  Home <- FirstPane
  To <- BusyTo
  Kind <- BusyKind
  Class <- BusyClass
  BulkMax = 2
  MaxCrash = 0
  MaxChurn = 0
  MaxDeath = 0
PROPERTIES OnlyOverridesInterrupt
