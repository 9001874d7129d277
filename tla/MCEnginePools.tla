---------------------------- MODULE MCEnginePools ----------------------------
(* A pool that changes between two definitions, and one that shares an     *)
(* endpoint with it, rotates too and has an id that begins with its id, so *)
(* that removing the first takes the counter of the second; a plan inside  *)
(* a pool and one across pools; feedback with every kind of signal.        *)
EXTENDS EnginePools, TLC

E(id) == [id |-> id, enabled |-> TRUE]
Off(id) == [id |-> id, enabled |-> FALSE]

Policy(n) == [max_attempts |-> n, timeout |-> NoTimeout]

MCPoolDefs ==
    [p \in PoolIds |->
        IF p = "p"
        THEN {[endpoints |-> <<E(1), E(2)>>, strategy |-> "RoundRobin", policy |-> UnsetPolicy],
              [endpoints |-> <<E(3), Off(2), E(1)>>, strategy |-> "RoundRobin",
               policy |-> Policy(1)]}
        ELSE {[endpoints |-> <<E(2), E(3)>>, strategy |-> "RoundRobin", policy |-> Policy(1)]}]

NestedIds == {<<"p", "q">>}    \* q stands for an id such as "p:eu"

MCOfferedPolicies == {Policy(1), Inherit}

MCPlans ==
    {[pool |-> "p", candidates |-> <<2, 1>>, strategy |-> "Random", policy |-> Policy(0)],
     [pool |-> Global, candidates |-> <<3, 2>>, strategy |-> "Fallback", policy |-> Inherit]}

Signalled(score, excluded, cooling) == [score |-> score, excluded |-> excluded, cooling |-> cooling]

MCFeedbacks ==
    {<<>>, <<Signalled(1, FALSE, TRUE), Signalled(2, FALSE, FALSE), Signalled(3, TRUE, FALSE)>>}

EngineDefaultPolicy == [max_attempts |-> 2, timeout |-> NoTimeout]

Interchangeable == Permutations(Requests)
=============================================================================
