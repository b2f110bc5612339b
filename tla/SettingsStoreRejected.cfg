SPECIFICATION Spec
CONSTANTS
  s0 = s0
  s1 = s1
  s2 = s2
  None = None
  Settings <- MCSettings
  NoSettings = s0
  Faults = {"refused", "late"}
  Ordered = TRUE
SYMMETRY MCSymmetry
INVARIANT RejectedStaysRejected
