\* Three requests; one sleeper, one place in the queue more than fits.
CONSTANTS
    r1 = r1
    r2 = r2
    r3 = r3
    NoLimit = NoLimit
    Requests = {r1, r2, r3}
    ApiKeys <- MCKeys
    Burst = 1
    ShapingTicks = 1
    MaxSleepers = 0
    MaxQueue = 1
    MaxTime = 3
SPECIFICATION FairSpec
CHECK_DEADLOCK FALSE
INVARIANTS TypeOK RateShaped CountersExplained
PROPERTIES LimitsKept AcquireEnds
