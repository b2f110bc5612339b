SPECIFICATION Spec
CONSTANTS
  a = a
  b = b
  k1 = k1
  None = None
  Names = {a, b}
  AuthIDs = {1, 2}
  Kinds = {weekly}
  Keys = {k1}
  RawConfigs <- MCConfigs
  Requests <- MCRequests
  Reported = {1}
  Callers = {c1, c2}
  Percents = {50, 98, 101}
  Offsets = {0, 2, 3}
  MaxReset = 2
  Cooldown = 1
  PollGap = 2
  Rotation = 2
  MaxTime = 3
  MaxConfigs = 2
SYMMETRY MCSymmetry
INVARIANT TypeOK
INVARIANT PickAvoidsAnnounced
 
INVARIANT PollsSpaced
