SPECIFICATION FairSpec
CONSTANTS
  None = None
  Accounts = {a1}
  Dirs = {d1}
  Reconfigurers = {c1,c2}
  Updaters = {}
  Usage = {}
  Throttled = {}
  Refreshers = {f1,f2}
  Unblockers = {}
  Stoppers = {s1}
  MaxPolls = 1
  Faults = {"client"}
INVARIANT RefreshesCoalesce
PROPERTY ShutdownReturns
PROPERTY SupersededPollersEnd
PROPERTY RefreshReturns
