\* Two attempts raise and halve a limit of 1..4 over two cooldowns.
CONSTANTS
    t1 = t1
    t2 = t2
    NoHardLimit = NoHardLimit
    Threads = {t1, t2}
    InitialConcurrency = 2
    MaxConcurrency = 4
    MinConcurrency = 1
    CooldownMs = 1
    HardLimits = {1}
    MaxTime = 2
SPECIFICATION Spec
SYMMETRY Attempts
INVARIANTS LimitsWithinConfig
PROPERTIES LimitMovesByOneRule
