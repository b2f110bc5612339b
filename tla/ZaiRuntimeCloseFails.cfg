SPECIFICATION Spec
CONSTANTS
  None = None
  Accounts = {a1}
  Dirs = {d1, d2}
  Reconfigurers = {c1, c2}
  Updaters = {}
  Usage = {}
  Throttled = {}
  Refreshers = {}
  Unblockers = {}
  Stoppers = {}
  MaxPolls = 0
  Faults = {"close"}

INVARIANT FailedReconfigureNotLive
