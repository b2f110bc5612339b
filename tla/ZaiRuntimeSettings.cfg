SPECIFICATION Spec
CONSTANTS
  None = None
  Accounts = {a1, a2}
  Dirs = {d1, d2}
  Reconfigurers = {c1, c2}
  Updaters = {p1, p2}
  Usage = {}
  Throttled = {}
  Refreshers = {}
  Unblockers = {}
  Stoppers = {}
  MaxPolls = 1
  Faults = {"rejected", "open"}
SYMMETRY MCSymmetry
INVARIANT TypeOK
INVARIANT PublishedSettings
INVARIANT PollersMatchSnapshot
INVARIANT LiveHandleOpen
INVARIANT NoHandleLeak
PROPERTY DisabledNotPolled
