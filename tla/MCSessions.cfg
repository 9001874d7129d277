\* Two callers of one key, in memory and on Redis.
CONSTANTS
    None = None
    Missing = Missing
    c1 = c1
    c2 = c2
    Clients = {c1, c2}
    Prefixes <- MCPrefixes
    Requests <- MCRequests
    Hosts <- MCHosts
    Second = 2
    MaxTime = 3
SPECIFICATION Spec
CHECK_DEADLOCK FALSE
SYMMETRY Interchangeable
INVARIANTS DeltaFromOnePublish HitRefusedOnlyWhenLost TtlFollowsIdleTime
PROPERTIES KeepsContract
