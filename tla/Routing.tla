------------------------------- MODULE Routing -------------------------------
(***************************************************************************)
(* How the engine turns a target into the ordered endpoints a request may  *)
(* try (unigateway-core/src/routing.rs).  Pure operators; the registry     *)
(* they read and the counters they advance are the state of EnginePools.   *)
(*                                                                         *)
(* An endpoint is [id, enabled]; ids are numbers, ordered as the code      *)
(* orders the strings.  A pool is [endpoints, strategy, policy], a policy  *)
(* [max_attempts, timeout], a plan [pool, candidates, strategy, policy]    *)
(* whose last two are Inherit when the plan overrides nothing.  Feedback   *)
(* maps endpoint ids to [score, excluded, cooling], where cooling stands   *)
(* for a cooldown deadline still in the future.                            *)
(***************************************************************************)
EXTENDS Lists

CONSTANTS NoTimeout,             \* per_attempt_timeout is None
          Inherit,               \* the plan leaves a setting to its pool
          Global,                \* the plan names no pool
          DefaultRetryPolicy,    \* the engine's default_retry_policy
          DefaultTimeout         \* the engine's default_timeout

Strategies == {"Fallback", "Random", "RoundRobin", "ScoreOrdered"}

(* What a host may register: any list of endpoints, the same id twice too. *)
Endpoint == [id : Nat, enabled : BOOLEAN]
RetryPolicies == [max_attempts : Nat, timeout : Nat \union {NoTimeout}]
ProviderPool == [endpoints : Seq(Endpoint), strategy : Strategies, policy : RetryPolicies]

ASSUME EngineDefaults == /\ DefaultRetryPolicy \in RetryPolicies
                         /\ DefaultTimeout \in Nat \union {NoTimeout}

UnsetPolicy == [max_attempts |-> 1, timeout |-> NoTimeout]   \* RetryPolicy::default()

(* Outcomes of the lookups: an error, or a snapshot.                       *)
Fail(error) == [ok |-> FALSE, error |-> error]
Found(snapshot) == [ok |-> TRUE, snapshot |-> snapshot]

EnabledEndpoints(endpoints) == Pick(endpoints, {i \in DOMAIN endpoints : endpoints[i].enabled})

EffectiveRetryPolicy(policy) ==
    LET base == IF policy = UnsetPolicy THEN DefaultRetryPolicy ELSE policy
    IN  IF base.timeout = NoTimeout THEN [base EXCEPT !.timeout = DefaultTimeout] ELSE base
-----------------------------------------------------------------------------
(* Routing feedback: suppressed endpoints go last, each group sorted by    *)
(* score, best first, ties by id.  A pool without signals keeps its order. *)

Suppressed(e, feedback) ==
    e.id \in DOMAIN feedback /\ (feedback[e.id].excluded \/ feedback[e.id].cooling)

ScoreOf(e, feedback) == IF e.id \in DOMAIN feedback THEN feedback[e.id].score ELSE 0

BeforeBySignal(feedback, a, b) ==
    \/ ScoreOf(a, feedback) > ScoreOf(b, feedback)
    \/ ScoreOf(a, feedback) = ScoreOf(b, feedback) /\ a.id < b.id

(* Of what the comparison does not tell apart, the sort keeps the order.   *)
SortedBy(endpoints, Before(_, _)) ==
    LET positions == DOMAIN endpoints
    IN  Arranged(endpoints, positions,
                 {e \in positions \X positions :
                    \/ Before(endpoints[e[1]], endpoints[e[2]])
                    \/ ~ Before(endpoints[e[2]], endpoints[e[1]]) /\ e[1] <= e[2]})

Preferred(feedback, a, b) ==
    \/ ~ Suppressed(a, feedback) /\ Suppressed(b, feedback)
    \/ /\ Suppressed(a, feedback) <=> Suppressed(b, feedback)
       /\ BeforeBySignal(feedback, a, b)

\* Mutant: the suppressed endpoints are put first.
FeedbackSuppressedFirst(endpoints, feedback) ==
    LET Before(a, b) == \/ Suppressed(a, feedback) /\ ~ Suppressed(b, feedback)
                        \/ /\ Suppressed(a, feedback) <=> Suppressed(b, feedback)
                           /\ BeforeBySignal(feedback, a, b)
    IN  IF DOMAIN feedback = {} THEN endpoints ELSE SortedBy(endpoints, Before)

ApplyRoutingFeedback(endpoints, feedback) ==
    IF DOMAIN feedback = {} THEN endpoints
    ELSE SortedBy(endpoints, LAMBDA a, b : Preferred(feedback, a, b))
-----------------------------------------------------------------------------
(* Snapshots.                                                              *)

PoolSnapshot(pools, p, feedback) ==
    IF p \notin DOMAIN pools THEN Fail("PoolNotFound")
    ELSE LET endpoints == ApplyRoutingFeedback(EnabledEndpoints(pools[p].endpoints), feedback)
         IN  IF endpoints = <<>> THEN Fail("NoAvailableEndpoint")
             ELSE Found([endpoints |-> endpoints, strategy |-> pools[p].strategy,
                         policy |-> EffectiveRetryPolicy(pools[p].policy),
                         key |-> <<"pool", p>>])

(* The enabled endpoints that carry the id: within the plan's pool the     *)
(* first one is taken, across all pools it has to be the only one.         *)
Carriers(pools, P, id) ==
    LET At(c) == pools[c[1]].endpoints[c[2]]
    IN  {c \in UNION {{p} \X DOMAIN pools[p].endpoints : p \in P} : At(c).enabled /\ At(c).id = id}

PlanSnapshot(pools, plan) ==
    LET scope == IF plan.pool = Global THEN DOMAIN pools ELSE {plan.pool} \cap DOMAIN pools
        Of(id) == Carriers(pools, scope, id)
        missing == {i \in DOMAIN plan.candidates : Of(plan.candidates[i]) = {}}
        ambiguous == {i \in DOMAIN plan.candidates :
                        plan.pool = Global /\ Cardinality(Of(plan.candidates[i])) > 1}
        bad == missing \union ambiguous
        inherited == IF plan.pool = Global
                     THEN [strategy |-> "RoundRobin", policy |-> UnsetPolicy]
                     ELSE pools[plan.pool]
        strategy == IF plan.strategy = Inherit THEN inherited.strategy ELSE plan.strategy
        policy == IF plan.policy = Inherit THEN inherited.policy ELSE plan.policy
    IN  CASE plan.pool # Global /\ plan.pool \notin DOMAIN pools -> Fail("PoolNotFound")
          [] OTHER ->
               IF bad # {} THEN Fail(IF Min(bad) \in missing THEN "EndpointNotFound" ELSE "Ambiguous")
               ELSE IF plan.candidates = <<>> THEN Fail("NoAvailableEndpoint")
               ELSE Found([endpoints |-> [i \in DOMAIN plan.candidates |->
                                             [id |-> plan.candidates[i], enabled |-> TRUE]],
                           strategy |-> strategy,
                           policy |-> EffectiveRetryPolicy(policy),
                           key |-> <<"plan", plan.pool, plan.candidates>>])
-----------------------------------------------------------------------------
(* The order a request tries them in.                                      *)

RotateLeft(s, k) == SubSeq(s, k + 1, Len(s)) \o SubSeq(s, 1, k)

StartIndex(idx, n) == idx % n

\* Mutant: the counter does not advance past the end.
AdvanceStuck(idx, n) == IF idx + 1 < n THEN idx + 1 ELSE idx

AdvanceIndex(idx, n) == (idx + 1) % n

(* Every order ordered_endpoints may give for the counter value idx,       *)
(* before it is cut to max_attempts.                                       *)
FullOrders(snapshot, idx) ==
    LET es == snapshot.endpoints
    IN  CASE snapshot.strategy \in {"Fallback", "ScoreOrdered"} -> {es}
          [] snapshot.strategy = "Random" -> {[i \in DOMAIN es |-> es[f[i]]] :
                                                 f \in Bijection(DOMAIN es, DOMAIN es)}
          [] snapshot.strategy = "RoundRobin" -> {RotateLeft(es, StartIndex(idx, Len(es)))}

Truncate(order, max_attempts) ==
    SubSeq(order, 1, Min({Len(order), Max({max_attempts, 1})}))
=============================================================================
