SPECIFICATION FewSpec
CONSTANTS
  sup = sup
  nudge = nudge
  lone = lone
  chk = chk
  twin = twin
  crd = crd
  sta = sta
  lim = lim
  Id = {sup, lim, crd, nudge, lone, chk}
  Kind <- KindOf
  Key <- KeyOf
  Roleless <- LoneNudges
  Budget = 2
  MaxFires = 2
  Lag = 1
  MaxArm = 1
  MaxEdit = 1
  MaxCrash = 1
INVARIANT TypeOK
INVARIANT TriesArePaidFor
PROPERTY CancelSticks
PROPERTY ClobberNeedsTwoWriters
