SPECIFICATION Spec
CONSTANTS
  None = None
  Accounts = {a1}
  Dirs = {d1, d2}
  Reconfigurers = {c1, c2}
  Updaters = {p1}
  Usage = {u1}
  Throttled = {u1}
  Refreshers = {}
  Unblockers = {b1}
  Stoppers = {s1, s2}
  MaxPolls = 1
  Faults = {"refused", "close", "applied"}
SYMMETRY MCSymmetry
INVARIANT QuietAfterShutdown
INVARIANT FinalStateOnDisk
