\* Three attempts compete for two slots, under a static cap of 1 or none.
CONSTANTS
    t1 = t1
    t2 = t2
    t3 = t3
    NoHardLimit = NoHardLimit
    Threads = {t1, t2, t3}
    InitialConcurrency = 2
    MaxConcurrency = 2
    MinConcurrency = 1
    CooldownMs = 1
    HardLimits = {1}
    MaxTime = 1
SPECIFICATION Spec
SYMMETRY Attempts
INVARIANTS TypeOK SlotsAccounted
PROPERTIES HardCapRespected GateSpec
