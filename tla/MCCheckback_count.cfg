SPECIFICATION Spec
CONSTANTS
  sup = sup
  nudge = nudge
  lone = lone
  chk = chk
  twin = twin
  crd = crd
  sta = sta
  lim = lim
  Id = {crd, chk}
  Kind <- KindOf
  Key <- KeyOf
  Roleless <- LoneNudges
  Budget = 2
  MaxFires = 2
  Lag = 1
  MaxArm = 1
  MaxEdit = 0
  MaxCrash = 0
PROPERTY FiresWereHeard
