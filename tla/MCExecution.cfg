\* Two requests, one endpoint capped at a single slot, one without a driver.
CONSTANTS
    r1 = r1
    r2 = r2
    a = a
    b = b
    c = c
    Requests = {r1, r2}
    Endpoints = {a, b, c}
    Jobs <- AllJobs
    Driverless = {c}
    UpstreamErrors = {"status_429", "status_400"}
    HardLimit <- CapOnB
    MinConcurrency = 1
    MaxConcurrency = 2
    Nobody = Nobody
    NoError = NoError
SPECIFICATION FairSpec
CHECK_DEADLOCK FALSE
INVARIANTS HooksTellTheStory LastAttemptDecides FallbackTriesAll SlotFollowsCandidate
PROPERTIES RequestsEnd GatesRespected StreamsFollowLifecycle
