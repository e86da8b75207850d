SPECIFICATION Spec
CONSTANTS
  Coord = {"manager"}
  Row = {}
  AckClass = {}
  Hub = {}
  Draft = {"d"}
  NoDraft = "none"
  BulkMax = 2
  Settle = 1
  Stuck = 1
  Threshold = 2
  Cooldown = 2
  MaxPeer = 2
  MaxChurn = 0
  MaxCrash = 0
PROPERTIES OverloadEnds
