-------------------------- MODULE MCRuntimeLimiter --------------------------
(* Requests under one key, whose definition the host may have changed      *)
(* between two of them.                                                    *)
EXTENDS RuntimeLimiter, TLC

Shaped == [qps |-> TRUE, limit |-> 1]
Wide == [qps |-> FALSE, limit |-> 2]

MCKeys == {Shaped, Wide}

Interchangeable == Permutations(Requests)
=============================================================================
