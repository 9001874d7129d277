\* Two requests select from a pool that a host resizes, reconfigures and
\* removes, and from one that shares an endpoint with it.
CONSTANTS
    r1 = r1
    r2 = r2
    Requests = {r1, r2}
    PoolIds = {"p", "q"}
    NoTimeout = NoTimeout
    Inherit = Inherit
    Global = Global
    DefaultTimeout = 5
    DefaultRetryPolicy <- EngineDefaultPolicy
    PoolDefs <- MCPoolDefs
    Plans <- MCPlans
    Feedbacks <- MCFeedbacks
    Offered = {"ScoreOrdered", Inherit}
    OfferedPolicies <- MCOfferedPolicies
    Nested <- NestedIds
    HistoryLength = 2
SPECIFICATION Spec
SYMMETRY Interchangeable
INVARIANTS RoundRobinFair BestCandidatesFirst
