\* Two overlapping reconfigures, a thread of picks and usage records, and a shutdown.
CONSTANTS
    Zai = zai
    OpenCodeGo = ocg
    Other = other
    None = none
    Invalid = invalid
    x = x
    y = y
    Ids = {x, y}
    Plugins = {q}
    Hosts <- MCHosts
    Parts <- MCParts
    DirFaults = TRUE
    Requests <- MCRequests
    Reconfigurers = {r1, r2}
    Callers = {c1}
    Stoppers = {s1}
SPECIFICATION FairSpec
INVARIANT TypeOK
INVARIANT NeverSilentFallback
INVARIANT NeverBlendsDomains
INVARIANT DrainedBeforeClose
INVARIANT UsageReachesOwner
INVARIANT PartialFailureReported
PROPERTY ShutdownCloses
