SPECIFICATION Spec
CONSTANTS
  None = None
  Accounts = {a1, a2}
  Dirs = {d1}
  Reconfigurers = {c1, c2}
  Updaters = {}
  Usage = {u1, u2}
  Throttled = {u2}
  Refreshers = {}
  Unblockers = {b1}
  Stoppers = {}
  MaxPolls = 1
  Faults = {"refused", "unsynced", "fetch"}
SYMMETRY MCSymmetry
INVARIANT DiskKeepsAcked
INVARIANT LiveKeepsAcked
INVARIANT LossIsFlagged
PROPERTY LedgerMonotone
