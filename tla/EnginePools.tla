----------------------------- MODULE EnginePools -----------------------------
(***************************************************************************)
(* The engine's registry of pools, its round-robin counters and the        *)
(* selection of the endpoints a request will try                           *)
(* (unigateway-core/src/engine/mod.rs with routing.rs).                    *)
(*                                                                         *)
(* The registry is behind one RwLock and the counters behind one Mutex.  A *)
(* request takes its snapshot under the first and orders it under the      *)
(* second, with the registry unlocked in between: pools may be replaced or *)
(* removed there.  remove_pool holds both locks at its end, so it is one   *)
(* step to everyone else.                                                  *)
(***************************************************************************)
EXTENDS Routing

CONSTANTS Requests, PoolIds,
          PoolDefs,      \* the definitions a host may upsert, of each pool
          Plans,         \* the explicit plans a host may execute
          Feedbacks,     \* what the feedback provider may answer; {} is none
          Offered,       \* the strategies a host may switch a pool to
          OfferedPolicies, \* and the retry policies; Inherit leaves them alone
          Nested,        \* <<p, q>> when the id of q starts with that of p and ":"
          HistoryLength  \* bound: rotations remembered per key, for the properties

(* A score of 0 stands for none, which the code takes for minus infinity.  *)
Signal == [score : Nat, excluded : BOOLEAN, cooling : BOOLEAN]

ASSUME HostGives ==
    /\ \A p \in PoolIds : PoolDefs[p] \subseteq ProviderPool
    /\ \A plan \in Plans : /\ plan.candidates \in Seq(Nat)
                           /\ plan.strategy \in Strategies \union {Inherit}
                           /\ plan.policy \in RetryPolicies \union {Inherit}
    /\ \A feedback \in Feedbacks : \A id \in DOMAIN feedback : feedback[id] \in Signal
    /\ Offered \subseteq Strategies \union {Inherit}
    /\ OfferedPolicies \subseteq RetryPolicies \union {Inherit}
    /\ HistoryLength \in Nat \ {0}

VARIABLES pools,         \* the registered pools
          rr_counters,   \* round-robin position by selection key
          req,           \* each request: idle, snapshotted or ordered
          turns          \* history: what each key's recent rotations gave

vars == <<pools, rr_counters, req, turns>>

Idle == [at |-> "idle"]

Init == /\ pools = <<>>
        /\ rr_counters = <<>>
        /\ req = [r \in Requests |-> Idle]
        /\ turns = <<>>

Without(f, S) == Restrict(f, DOMAIN f \ S)
With(f, k, v) == [x \in DOMAIN f \union {k} |-> IF x = k THEN v ELSE f[x]]

UpsertPool(p, def) ==
    /\ pools' = With(pools, p, def)
    /\ UNCHANGED <<rr_counters, req, turns>>

(* remove_pool keeps every counter whose key does not start with           *)
(* "pool:<id>:".  The pool's own key is "pool:<id>", without the colon: it *)
(* keeps its counter, and a pool whose id begins with "<id>:" loses its    *)
(* own, registered as it is.  The history marks where that happened.       *)
RemovePool(p) ==
    LET dropped == {<<"pool", q>> : q \in {q \in PoolIds : <<p, q>> \in Nested}}
    IN  /\ pools' = Without(pools, {p})
        /\ rr_counters' = Without(rr_counters, dropped)
        /\ turns' = [k \in DOMAIN turns |->
                        IF k \in dropped THEN [turns[k] EXCEPT ![Len(turns[k])].cut = TRUE]
                                         ELSE turns[k]]
        /\ UNCHANGED req

(* Both arguments are optional: Inherit leaves the pool's own in place.    *)
UpdatePoolConfig(p, strategy, policy) ==
    /\ p \in DOMAIN pools
    /\ pools' = [pools EXCEPT ![p].strategy = IF strategy = Inherit THEN @ ELSE strategy,
                              ![p].policy = IF policy = Inherit THEN @ ELSE policy]
    /\ UNCHANGED <<rr_counters, req, turns>>

(* execution_snapshot.  An error ends the request before it was announced. *)
TakeSnapshot(r, result, feedback) ==
    /\ req[r].at = "idle"
    /\ req' = [req EXCEPT ![r] =
                 IF result.ok
                 THEN [at |-> "snapshot", snapshot |-> result.snapshot, feedback |-> feedback]
                 ELSE Idle]
    /\ UNCHANGED <<pools, rr_counters, turns>>

SnapshotPool(r) ==
    \E p \in PoolIds, feedback \in Feedbacks :
        TakeSnapshot(r, PoolSnapshot(pools, p, feedback), feedback)

SnapshotPlan(r) ==
    \E plan \in Plans : TakeSnapshot(r, PlanSnapshot(pools, plan), <<>>)

(* What a rotation adds to the history of its key.                         *)
Remember(seen, turn) ==
    LET all == Append(seen, turn)
    IN  SubSeq(all, Max({1, Len(all) - HistoryLength + 1}), Len(all))

(* attempt_endpoints: order the snapshot; RoundRobin advances its counter. *)
OrderEndpoints(r) ==
    /\ req[r].at = "snapshot"
    /\ LET s == req[r].snapshot
           n == Len(s.endpoints)
           rotates == s.strategy = "RoundRobin"
           idx == IF s.key \in DOMAIN rr_counters THEN rr_counters[s.key] ELSE 0
           seen == IF s.key \in DOMAIN turns THEN turns[s.key] ELSE <<>>
       IN  \E order \in FullOrders(s, idx) :
             /\ req' = [req EXCEPT ![r] =
                          [at |-> "ordered", snapshot |-> s, feedback |-> req[r].feedback,
                           order |-> Truncate(order, s.policy.max_attempts)]]
             /\ IF rotates
                THEN /\ rr_counters' = With(rr_counters, s.key, AdvanceIndex(idx, n))
                     /\ turns' = With(turns, s.key,
                                   Remember(seen, [of |-> s.endpoints, first |-> order[1],
                                                   cut |-> FALSE]))
                ELSE UNCHANGED <<rr_counters, turns>>
    /\ UNCHANGED pools

Done(r) ==
    /\ req[r].at = "ordered"
    /\ req' = [req EXCEPT ![r] = Idle]
    /\ UNCHANGED <<pools, rr_counters, turns>>

Next ==
    \/ \E p \in PoolIds : \E def \in PoolDefs[p] : UpsertPool(p, def)
    \/ \E p \in PoolIds : RemovePool(p)
    \/ \E p \in PoolIds, strategy \in Offered, policy \in OfferedPolicies :
           UpdatePoolConfig(p, strategy, policy)
    \/ \E r \in Requests : SnapshotPool(r) \/ SnapshotPlan(r) \/ OrderEndpoints(r) \/ Done(r)

Spec == Init /\ [][Next]_vars
-----------------------------------------------------------------------------
Ordered == {r \in Requests : req[r].at = "ordered"}

(* Round robin starves nobody: whatever pools were replaced, resized,      *)
(* reconfigured or removed in between and whoever else selects, n          *)
(* successive selections of the same n endpoints, all different, under one *)
(* key start once at each.  The removal of another pool whose id begins    *)
(* this one's, with a colon, does take the counter away (remove_pool) and  *)
(* starts the rotation anew: the property is about the turns between two   *)
(* such cuts.                                                              *)
RoundRobinFair ==
    \A k \in DOMAIN turns :
        LET t == turns[k]
            n == Len(t[Len(t)].of)
            window == (Len(t) - n + 1) .. Len(t)
        IN  (/\ n <= Len(t) /\ IsInjective(t[Len(t)].of)
             /\ \A i \in window : t[i].of = t[Len(t)].of
             /\ \A i \in window \ {Len(t)} : ~ t[i].cut)
               => \A i, j \in window : t[i].first = t[j].first => i = j

(* Reordering loses and duplicates no candidate: the request tries as many *)
(* distinct endpoints as its attempt budget allows, and at least one.      *)
BudgetUsed(r) ==
    LET s == req[r].snapshot
    IN  /\ Len(req[r].order) = Min({Len(s.endpoints), Max({1, s.policy.max_attempts})})
        /\ ToSet(req[r].order) \subseteq ToSet(s.endpoints)
        /\ IsInjective(s.endpoints) => IsInjective(req[r].order)

(* Feedback decides who is tried and in which order: under the strategies  *)
(* that keep the order, no suppressed endpoint is tried before, or at the  *)
(* expense of, one that is not, and scores never rise along the attempts;  *)
(* and the whole attempt budget is used, on distinct endpoints.            *)
BestCandidatesFirst ==
    \A r \in Ordered :
        LET f == req[r].feedback
            o == req[r].order
            dropped == ToSet(req[r].snapshot.endpoints) \ ToSet(o)
            Worse(a, b) == \/ Suppressed(a, f) /\ ~ Suppressed(b, f)
                           \/ /\ Suppressed(a, f) = Suppressed(b, f)
                              /\ ScoreOf(a, f) < ScoreOf(b, f)
        IN  /\ BudgetUsed(r)
            /\ (DOMAIN f # {} /\ req[r].snapshot.strategy \in {"Fallback", "ScoreOrdered"})
                  => \A i \in DOMAIN o :
                       \A b \in dropped \union {o[j] : j \in i + 1 .. Len(o)} : ~ Worse(o[i], b)

=============================================================================
