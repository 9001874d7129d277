\* Two administrators overtake one sync task, with a reload or a crash.
CONSTANTS
    a1 = a1
    a2 = a2
    FirstFiles <- MCFiles
    Services = {"svc", "new"}
    Forms <- MCForms
    Models = {"m2"}
    Priorities = {0}
    Keys = {}
    Admins = {a1, a2}
    Savers = {}
    MaxOps = 2
    MaxCrashes = 1
    OtherPools <- MCOtherPools
SPECIFICATION SyncSpec
CHECK_DEADLOCK FALSE
INVARIANTS EngineInStep
PROPERTIES EngineCatchesUp HostPoolsKept
