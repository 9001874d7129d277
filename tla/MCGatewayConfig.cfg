\* Two administrators and two overlapping saves, with a crash; no sync task.
CONSTANTS
    a1 = a1
    a2 = a2
    s1 = s1
    s2 = s2
    FirstFiles <- MCFiles
    Services = {"svc"}
    Forms <- MCForms
    Models = {"m2"}
    Priorities = {0}
    Keys = {"k"}
    Admins = {a1, a2}
    Savers = {s1, s2}
    MaxOps = 2
    MaxCrashes = 1
SPECIFICATION StoreSpec
SYMMETRY Interchangeable
CHECK_DEADLOCK FALSE
INVARIANT CleanMeansSaved
PROPERTIES DanglingOnlyByRace QuotaNeverRefilled
