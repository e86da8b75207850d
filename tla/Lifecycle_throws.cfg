SPECIFICATION LifeSpec
CONSTANTS
  Sup = {s1}
  Cli = {c1}
  Stopper = {}
  NoSup = nobody
  MaxFail = 1
PROPERTIES SupervisorStays
CHECK_DEADLOCK FALSE
