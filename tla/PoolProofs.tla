------------------------------- MODULE PoolProofs -------------------------------
(***************************************************************************)
(* Round robin and the order of the candidates, for every set of pools,    *)
(* plans, feedback and requests: the invariant of EnginePools and its two  *)
(* properties.                                                             *)
(***************************************************************************)
EXTENDS EnginePools, FiniteSetTheorems, SequenceTheorems, TLAPS

-----------------------------------------------------------------------------
(* The invariant.  A snapshot has endpoints, ordered by its feedback.      *)
Worse(a, b, f) == \/ Suppressed(a, f) /\ ~ Suppressed(b, f)
                  \/ /\ Suppressed(a, f) = Suppressed(b, f)
                     /\ ScoreOf(a, f) < ScoreOf(b, f)

Sorted(es, f) == \A i, j \in DOMAIN es : i < j => ~ Worse(es[i], es[j], f)

Snapshots(s, f) ==
    /\ s.endpoints \in Seq(Endpoint) /\ s.endpoints # <<>>
    /\ s.strategy \in Strategies /\ s.policy.max_attempts \in Nat
    /\ DOMAIN f # {} => Sorted(s.endpoints, f)

(* The attempts o of the snapshot s, whose candidates the feedback f ordered. *)
Attempts(s, f, o) ==
    /\ Len(o) = Min({Len(s.endpoints), Max({1, s.policy.max_attempts})})
    /\ ToSet(o) \subseteq ToSet(s.endpoints)
    /\ IsInjective(s.endpoints) => IsInjective(o)
    /\ (DOMAIN f # {} /\ s.strategy \in {"Fallback", "ScoreOrdered"})
          => \A i \in DOMAIN o :
               \A b \in (ToSet(s.endpoints) \ ToSet(o)) \union {o[j] : j \in i + 1 .. Len(o)} :
                  ~ Worse(o[i], b, f)

Candidates ==
    /\ DOMAIN req = Requests
    /\ \A r \in Requests :
         /\ req[r].at \in {"idle", "snapshot", "ordered"}
         /\ req[r].at = "snapshot" => Snapshots(req[r].snapshot, req[r].feedback)
         /\ req[r].at = "ordered" => Attempts(req[r].snapshot, req[r].feedback, req[r].order)

(* The rotations of a key: pos says where in its list each one began.  As  *)
(* long as the list stays and the counter is not taken away, each begins   *)
(* one behind the one before, and the counter is one behind the last.      *)
Rotations == [of : Seq(Endpoint), first : Endpoint, cut : BOOLEAN]
Succ(p, n) == IF p + 1 = n THEN 0 ELSE p + 1

Unchanging(t, i, j) ==
    /\ \A m \in i .. j : t[m].of = t[j].of
    /\ \A m \in i .. j - 1 : ~ t[m].cut

Turning(t, c, pos) ==
    /\ \A i \in 1 .. Len(t) : pos[i] < Len(t[i].of) /\ t[i].first = t[i].of[pos[i] + 1]
    /\ ~ t[Len(t)].cut => c = Succ(pos[Len(t)], Len(t[Len(t)].of))
    /\ \A i, j \in 1 .. Len(t) :
         (i < j /\ j - i < Len(t[j].of) /\ Unchanging(t, i, j))
            => pos[j] = pos[i] + (j - i) \/ pos[j] = pos[i] + (j - i) - Len(t[j].of)

Counter(k) == IF k \in DOMAIN rr_counters THEN rr_counters[k] ELSE 0

KeyCounted(k) ==
    /\ turns[k] \in Seq(Rotations) /\ turns[k] # <<>>
    /\ \E pos \in [1 .. Len(turns[k]) -> Nat] : Turning(turns[k], Counter(k), pos)

Counted == /\ \A k \in DOMAIN rr_counters : rr_counters[k] \in Nat
           /\ \A k \in DOMAIN turns : KeyCounted(k)

Registered == DOMAIN pools \subseteq PoolIds /\ \A p \in DOMAIN pools : pools[p] \in ProviderPool

PInv == Registered /\ Candidates /\ Counted
-----------------------------------------------------------------------------
(* Lists arranged by a relation.                                           *)

Total(before, S) ==
    /\ \A i \in S : <<i, i>> \in before
    /\ \A i, j \in S : <<i, j>> \in before \/ <<j, i>> \in before
    /\ \A i, j \in S : <<i, j>> \in before /\ <<j, i>> \in before => i = j
    /\ \A i, j, k \in S : <<i, j>> \in before /\ <<j, k>> \in before => <<i, k>> \in before

(* Arrange lists the elements of a finite set once each, in order.         *)
LEMMA ArrangeAll ==
    ASSUME NEW S, IsFiniteSet(S), NEW before, Total(before, S)
    PROVE  LET order == Arrange(S, before)
           IN  /\ order \in Seq(S)
               /\ Len(order) = Cardinality(S)
               /\ \A i \in S : \E n \in DOMAIN order : order[n] = i
               /\ \A m, n \in DOMAIN order : /\ order[m] = order[n] => m = n
                                             /\ m <= n => <<order[m], order[n]>> \in before
<1> DEFINE Upto(i) == {j \in S : <<j, i>> \in before}
           rank == [i \in S |-> Cardinality(Upto(i))]
           N == Cardinality(S)
<1> USE DEF Total
<1>1. N \in Nat
  BY FS_CardinalityType
<1>2. \A i \in S : /\ IsFiniteSet(Upto(i)) /\ Cardinality(Upto(i)) \in 1 .. N
  <2> SUFFICES ASSUME NEW i \in S
               PROVE  IsFiniteSet(Upto(i)) /\ Cardinality(Upto(i)) \in 1 .. N
    OBVIOUS
  <2>1. Upto(i) \in SUBSET S /\ i \in Upto(i)
    OBVIOUS
  <2> HIDE DEF Upto
  <2>2. IsFiniteSet(Upto(i)) /\ Cardinality(Upto(i)) <= N
    BY <2>1, FS_Subset
  <2>3. Cardinality(Upto(i)) \in Nat /\ Cardinality(Upto(i)) # 0
    BY <2>1, <2>2, FS_CardinalityType, FS_EmptySet
  <2>. QED BY <1>1, <2>2, <2>3
<1>3. \A i, j \in S : <<i, j>> \in before /\ rank[i] = rank[j] => i = j
  <2> SUFFICES ASSUME NEW i \in S, NEW j \in S, <<i, j>> \in before, rank[i] = rank[j]
               PROVE  i = j
    OBVIOUS
  <2>1. Upto(i) \in SUBSET Upto(j) /\ j \in Upto(j)
    OBVIOUS
  <2>2. Cardinality(Upto(i)) = Cardinality(Upto(j)) /\ IsFiniteSet(Upto(j))
    BY <1>2
  <2>3. j \in Upto(i)
    <3> HIDE DEF Upto
    <3>. QED BY <2>1, <2>2, FS_Subset
  <2>. QED BY <2>3
<1>4. rank \in Injection(S, 1 .. N)
  <2>1. rank \in [S -> 1 .. N]
    BY <1>2
  <2>2. \A i, j \in S : rank[i] = rank[j] => i = j
    BY <1>3
  <2> HIDE DEF rank
  <2>. QED BY <2>1, <2>2 DEF Injection, IsInjective
<1>5. rank \in Surjection(S, 1 .. N)
  <2>1. IsFiniteSet(1 .. N) /\ Cardinality(1 .. N) = N
    BY <1>1, FS_Interval
  <2> HIDE DEF rank
  <2>. QED BY <1>4, <2>1, FS_Injection
<1>6. \A n \in 1 .. N : \E i \in S : rank[i] = n
  BY <1>5 DEF Surjection
<1> DEFINE order == Arrange(S, before)
           Nth(n) == CHOOSE i \in S : Cardinality(Upto(i)) = n
<1>7. order = [n \in 1 .. N |-> Nth(n)]
  BY DEF Arrange
<1>8. ASSUME NEW n \in 1 .. N
      PROVE  Nth(n) \in S /\ rank[Nth(n)] = n
  <2>1. \E i \in S : Cardinality(Upto(i)) = n
    BY <1>6
  <2>2. Nth(n) \in S /\ Cardinality(Upto(Nth(n))) = n
    <3> HIDE DEF Upto
    <3>. QED BY <2>1
  <2>. QED BY <2>2
<1> HIDE DEF order, Nth, rank
<1>9. \A n \in 1 .. N : order[n] \in S /\ rank[order[n]] = n
  BY <1>7, <1>8
<1>10. order \in Seq(S) /\ Len(order) = N /\ DOMAIN order = 1 .. N
  <2>1. order \in [1 .. N -> S]
    BY <1>7, <1>8
  <2>. QED BY <1>1, <2>1
<1>11. \A i \in S : \E n \in DOMAIN order : order[n] = i
  <2> SUFFICES ASSUME NEW i \in S
               PROVE  order[rank[i]] = i /\ rank[i] \in 1 .. N
    BY <1>10
  <2>1. rank[i] \in 1 .. N
    BY <1>2 DEF rank
  <2>2. order[rank[i]] \in S /\ rank[order[rank[i]]] = rank[i]
    BY <1>9, <2>1
  <2>3. \A j, k \in S : rank[j] = rank[k] => j = k
    BY <1>4 DEF Injection, IsInjective
  <2>. QED BY <2>1, <2>2, <2>3
<1>12. ASSUME NEW m \in 1 .. N, NEW n \in 1 .. N
       PROVE  /\ order[m] = order[n] => m = n
              /\ m <= n => <<order[m], order[n]>> \in before
  <2>1. order[m] \in S /\ order[n] \in S /\ rank[order[m]] = m /\ rank[order[n]] = n
    BY <1>9
  <2>2. ASSUME m <= n, <<order[n], order[m]>> \in before
        PROVE  m = n
    <3>1. Upto(order[n]) \in SUBSET Upto(order[m])
      BY <2>1, <2>2
    <3>2. IsFiniteSet(Upto(order[m])) /\ Cardinality(Upto(order[m])) = m /\ Cardinality(Upto(order[n])) = n
      BY <1>2, <2>1 DEF rank
    <3>3. n <= m
      <4> HIDE DEF Upto
      <4>. QED BY <3>1, <3>2, FS_Subset
    <3>. QED BY <2>2, <3>3
  <2>. QED BY <2>1, <2>2
<1>. QED BY <1>10, <1>11, <1>12 DEF order

(* A list arranged at some of its positions holds what was there, in order. *)
LEMMA ArrangedIs ==
    ASSUME NEW T, NEW list \in Seq(T), NEW S, S \subseteq DOMAIN list, NEW before, Total(before, S)
    PROVE  LET out == Arranged(list, S, before)
           IN  /\ out \in Seq(T)
               /\ \E at \in [DOMAIN out -> S] :
                    /\ \A n \in DOMAIN out : out[n] = list[at[n]]
                    /\ \A m, n \in DOMAIN out : m <= n => <<at[m], at[n]>> \in before
<1> DEFINE order == Arrange(S, before)
           out == Arranged(list, S, before)
<1>1. S \subseteq 1 .. Len(list) /\ Len(list) \in Nat
  OBVIOUS
<1>2. IsFiniteSet(S)
  BY <1>1, FS_Interval, FS_Subset
<1>3. /\ order \in Seq(S)
      /\ \A m, n \in DOMAIN order : m <= n => <<order[m], order[n]>> \in before
  BY <1>2, ArrangeAll
<1>4. out = [n \in DOMAIN order |-> list[order[n]]]
  BY DEF Arranged
<1> HIDE DEF order, out
<1>5. DOMAIN order = 1 .. Len(order) /\ Len(order) \in Nat /\ order \in [DOMAIN order -> S]
  BY <1>3
<1>6. out \in [1 .. Len(order) -> T]
  BY <1>1, <1>4, <1>5
<1>7. out \in Seq(T) /\ DOMAIN out = DOMAIN order
  BY <1>4, <1>5, <1>6
<1>8. order \in [DOMAIN out -> S] /\ \A n \in DOMAIN out : out[n] = list[order[n]]
  BY <1>4, <1>5, <1>7
<1>. QED BY <1>3, <1>7, <1>8 DEF out

(* The enabled endpoints are endpoints.                                    *)
LEMMA EnabledIs ==
    ASSUME NEW es \in Seq(Endpoint)
    PROVE  EnabledEndpoints(es) \in Seq(Endpoint)
<1> DEFINE S == {i \in DOMAIN es : es[i].enabled}
           before == {e \in S \X S : e[1] <= e[2]}
<1>1. S \subseteq DOMAIN es /\ S \subseteq Int
  OBVIOUS
<1>2. \A i, j \in S : <<i, j>> \in before <=> i <= j
  OBVIOUS
<1>3. EnabledEndpoints(es) = Arranged(es, S, before)
  BY DEF EnabledEndpoints, Pick
<1> HIDE DEF S, before
<1>4. Total(before, S)
  <2>1. \A i, j, k \in S : /\ i <= i /\ (i <= j \/ j <= i)
                           /\ (i <= j /\ j <= i => i = j) /\ (i <= j /\ j <= k => i <= k)
    BY <1>1
  <2>. QED BY <1>2, <2>1 DEF Total
<1>5. Arranged(es, S, before) \in Seq(Endpoint)
  BY <1>1, <1>4, ArrangedIs, Zenon
<1>. QED BY <1>3, <1>5

(* The order of feedback and position is total.                            *)
Behind(late, score, id, i, j) ==
    \/ late[i] < late[j]
    \/ late[i] = late[j] /\ score[i] > score[j]
    \/ late[i] = late[j] /\ score[i] = score[j] /\ id[i] < id[j]
    \/ late[i] = late[j] /\ score[i] = score[j] /\ id[i] = id[j] /\ i <= j

LEMMA Lexicographic ==
    ASSUME NEW S \in SUBSET Nat, NEW late \in [S -> {0, 1}], NEW score \in [S -> Nat],
           NEW id \in [S -> Nat], NEW before,
           \A i, j \in S : <<i, j>> \in before <=> Behind(late, score, id, i, j)
    PROVE  Total(before, S)
<1> DEFINE B(i, j) == Behind(late, score, id, i, j)
<1>1. \A i \in S : i \in Nat /\ late[i] \in {0, 1} /\ score[i] \in Nat /\ id[i] \in Nat
  OBVIOUS
<1>2. ASSUME NEW i \in S, NEW j \in S
      PROVE  (B(i, j) \/ B(j, i)) /\ (B(i, j) /\ B(j, i) => i = j) /\ B(i, i)
  BY <1>1 DEF Behind
<1>3. ASSUME NEW i \in S, NEW j \in S, NEW k \in S, B(i, j), B(j, k)
      PROVE  B(i, k)
  <2>1. /\ i \in Nat /\ late[i] \in {0, 1} /\ score[i] \in Nat /\ id[i] \in Nat
        /\ j \in Nat /\ late[j] \in {0, 1} /\ score[j] \in Nat /\ id[j] \in Nat
        /\ k \in Nat /\ late[k] \in {0, 1} /\ score[k] \in Nat /\ id[k] \in Nat
    BY <1>1
  <2>. QED BY <1>3, <2>1 DEF Behind
<1>. QED BY <1>2, <1>3 DEF Total

Signals(f) == \A id \in DOMAIN f : f[id] \in Signal

(* Feedback sorts the endpoints it is applied to.                          *)
LEMMA FeedbackSorts ==
    ASSUME NEW es \in Seq(Endpoint), NEW f, Signals(f)
    PROVE  /\ ApplyRoutingFeedback(es, f) \in Seq(Endpoint)
           /\ DOMAIN f # {} => Sorted(ApplyRoutingFeedback(es, f), f)
<1>1. CASE DOMAIN f = {}
  BY <1>1 DEF ApplyRoutingFeedback
<1>2. CASE DOMAIN f # {}
  <2> DEFINE S == DOMAIN es
             late == [i \in S |-> IF Suppressed(es[i], f) THEN 1 ELSE 0]
             score == [i \in S |-> ScoreOf(es[i], f)]
             id == [i \in S |-> es[i].id]
             Lower(i, j) == \/ Preferred(f, es[i], es[j])
                            \/ ~ Preferred(f, es[j], es[i]) /\ i <= j
             before == {e \in S \X S : Lower(e[1], e[2])}
             out == Arranged(es, S, before)
  <2>1. ApplyRoutingFeedback(es, f) = out
    BY <1>2 DEF ApplyRoutingFeedback, SortedBy
  <2>2. S \in SUBSET Nat /\ late \in [S -> {0, 1}]
    OBVIOUS
  <2>3. \A i \in S : es[i] \in Endpoint /\ ScoreOf(es[i], f) \in Nat
    BY DEF Signals, Signal, ScoreOf
  <2>4. score \in [S -> Nat] /\ id \in [S -> Nat]
    BY <2>3 DEF Endpoint
  <2>5. \A i, j \in S : <<i, j>> \in before <=> Lower(i, j)
    <3> HIDE DEF Lower
    <3>. QED OBVIOUS
  <2>6. ASSUME NEW i \in S, NEW j \in S
        PROVE  Lower(i, j) <=> Behind(late, score, id, i, j)
    <3>1. /\ ScoreOf(es[i], f) \in Nat /\ es[i].id \in Nat /\ i \in Nat
          /\ ScoreOf(es[j], f) \in Nat /\ es[j].id \in Nat /\ j \in Nat
      BY <2>3 DEF Endpoint
    <3>2. /\ late[i] = (IF Suppressed(es[i], f) THEN 1 ELSE 0)
          /\ late[j] = (IF Suppressed(es[j], f) THEN 1 ELSE 0)
          /\ score[i] = ScoreOf(es[i], f) /\ score[j] = ScoreOf(es[j], f)
          /\ id[i] = es[i].id /\ id[j] = es[j].id
      OBVIOUS
    <3> HIDE DEF late, score, id
    <3>. QED BY <3>1, <3>2 DEF Preferred, BeforeBySignal, Behind
  <2>7. Total(before, S)
    <3> HIDE DEF S, late, score, id, Lower, before
    <3>1. \A i, j \in S : <<i, j>> \in before <=> Behind(late, score, id, i, j)
      BY <2>5, <2>6
    <3>. QED BY <2>2, <2>4, <3>1, Lexicographic
  <2>8. PICK at \in [DOMAIN out -> S] :
          /\ out \in Seq(Endpoint)
          /\ \A n \in DOMAIN out : out[n] = es[at[n]]
          /\ \A m, n \in DOMAIN out : m <= n => <<at[m], at[n]>> \in before
    <3> HIDE DEF before
    <3>. QED BY <2>7, ArrangedIs
  <2> HIDE DEF out
  <2>9. ASSUME NEW m \in DOMAIN out, NEW n \in DOMAIN out, m < n
         PROVE  ~ Worse(out[m], out[n], f)
    <3> DEFINE i == at[m]
               j == at[n]
    <3>1. i \in S /\ j \in S /\ out[m] = es[i] /\ out[n] = es[j]
      BY <2>8
    <3>2. <<i, j>> \in before
      <4> HIDE DEF before
      <4>1. m \in Nat /\ n \in Nat
        BY <2>8
      <4>2. m <= n
        BY <2>9, <4>1
      <4>. QED BY <2>8, <4>2
    <3> HIDE DEF i, j
    <3>3. Preferred(f, es[i], es[j]) \/ ~ Preferred(f, es[j], es[i])
      BY <2>5, <3>1, <3>2
    <3>4. ScoreOf(es[i], f) \in Nat /\ ScoreOf(es[j], f) \in Nat
      BY <2>3, <3>1
    <3>5. Worse(es[i], es[j], f) => Preferred(f, es[j], es[i]) /\ ~ Preferred(f, es[i], es[j])
      <4> HIDE DEF S
      <4>. QED BY <3>4 DEF Worse, Preferred, BeforeBySignal
    <3>. QED BY <3>1, <3>3, <3>5
  <2>. QED BY <2>1, <2>8, <2>9 DEF Sorted
<1>. QED BY <1>1, <1>2
-----------------------------------------------------------------------------
(* Snapshots.                                                              *)

LEMMA PolicyIs ==
    ASSUME NEW policy \in RetryPolicies
    PROVE  EffectiveRetryPolicy(policy).max_attempts \in Nat
BY EngineDefaults DEF EffectiveRetryPolicy, RetryPolicies

LEMMA PoolSnapshotIs ==
    ASSUME NEW p, NEW f \in Feedbacks, Registered, PoolSnapshot(pools, p, f).ok
    PROVE  Snapshots(PoolSnapshot(pools, p, f).snapshot, f)
<1> DEFINE es == ApplyRoutingFeedback(EnabledEndpoints(pools[p].endpoints), f)
           s == PoolSnapshot(pools, p, f).snapshot
<1>1. p \in DOMAIN pools /\ es # <<>>
  BY DEF PoolSnapshot, Fail
<1>2. pools[p] \in ProviderPool
  BY <1>1 DEF Registered
<1>3. EnabledEndpoints(pools[p].endpoints) \in Seq(Endpoint)
  BY <1>2, EnabledIs DEF ProviderPool
<1>4. Signals(f)
  BY HostGives DEF Signals
<1>5. es \in Seq(Endpoint) /\ (DOMAIN f # {} => Sorted(es, f))
  BY <1>3, <1>4, FeedbackSorts
<1> HIDE DEF es
<1>6. /\ s.endpoints = es /\ s.strategy = pools[p].strategy
      /\ s.policy = EffectiveRetryPolicy(pools[p].policy)
  BY <1>1 DEF PoolSnapshot, Found, es
<1>7. s.strategy \in Strategies /\ s.policy.max_attempts \in Nat
  BY <1>2, <1>6, PolicyIs DEF ProviderPool
<1>. QED BY <1>1, <1>5, <1>6, <1>7 DEF Snapshots

LEMMA PlanSnapshotIs ==
    ASSUME NEW plan \in Plans, Registered, PlanSnapshot(pools, plan).ok
    PROVE  Snapshots(PlanSnapshot(pools, plan).snapshot, <<>>)
<1> DEFINE result == PlanSnapshot(pools, plan)
           inherited == IF plan.pool = Global
                        THEN [strategy |-> "RoundRobin", policy |-> UnsetPolicy]
                        ELSE pools[plan.pool]
           strategy == IF plan.strategy = Inherit THEN inherited.strategy ELSE plan.strategy
           policy == IF plan.policy = Inherit THEN inherited.policy ELSE plan.policy
           es == [i \in DOMAIN plan.candidates |-> [id |-> plan.candidates[i], enabled |-> TRUE]]
<1>1. plan.pool = Global \/ plan.pool \in DOMAIN pools
  BY DEF PlanSnapshot, Fail
<1>2. inherited.strategy \in Strategies /\ inherited.policy \in RetryPolicies
  BY <1>1 DEF Registered, ProviderPool, Strategies, RetryPolicies, UnsetPolicy
<1>3. strategy \in Strategies /\ policy \in RetryPolicies
  BY <1>2, HostGives
<1> HIDE DEF inherited, strategy, policy, es
<1>4. /\ plan.candidates # <<>> /\ result.snapshot.endpoints = es
      /\ result.snapshot.strategy = strategy
      /\ result.snapshot.policy = EffectiveRetryPolicy(policy)
  BY <1>1 DEF PlanSnapshot, Fail, Found, inherited, strategy, policy, es
<1>5. es \in Seq(Endpoint) /\ es # <<>>
  <2>1. plan.candidates \in Seq(Nat)
    BY HostGives
  <2>2. /\ DOMAIN plan.candidates = 1 .. Len(plan.candidates) /\ Len(plan.candidates) \in Nat \ {0}
        /\ \A i \in DOMAIN plan.candidates : plan.candidates[i] \in Nat
    BY <1>4, <2>1
  <2>3. es \in [1 .. Len(plan.candidates) -> Endpoint]
    BY <2>2 DEF es, Endpoint
  <2>4. es \in Seq(Endpoint) /\ Len(es) # 0
    BY <2>2, <2>3
  <2>. QED BY <2>4
<1>6. DOMAIN <<>> = {}
  OBVIOUS
<1>. QED BY <1>3, <1>4, <1>5, <1>6, PolicyIs DEF Snapshots
-----------------------------------------------------------------------------
(* The order of the attempts.                                              *)

LEMMA LeastOfTwo ==
    ASSUME NEW a \in Int, NEW b \in Int
    PROVE  /\ Min({a, b}) = IF a <= b THEN a ELSE b
           /\ Max({a, b}) = IF a >= b THEN a ELSE b
<1>1. (\E x \in {a, b} : \A y \in {a, b} : x <= y) /\ (\E x \in {a, b} : \A y \in {a, b} : x >= y)
  OBVIOUS
<1>2. /\ Min({a, b}) \in {a, b} /\ \A y \in {a, b} : Min({a, b}) <= y
      /\ Max({a, b}) \in {a, b} /\ \A y \in {a, b} : Max({a, b}) >= y
  BY <1>1, Zenon DEF Min, Max
<1>. QED BY <1>2

(* Of every endpoint as many as of the list, in another order.             *)
Shuffled(full, es) ==
    /\ full \in Seq(Endpoint) /\ Len(full) = Len(es)
    /\ \E f \in [DOMAIN es -> DOMAIN es] : IsInjective(f) /\ \A i \in DOMAIN es : full[i] = es[f[i]]

LEMMA Rotated ==
    ASSUME NEW es \in Seq(Endpoint), NEW k \in Nat, k < Len(es)
    PROVE  Shuffled(RotateLeft(es, k), es) /\ RotateLeft(es, k)[1] = es[k + 1]
<1> DEFINE n == Len(es)
           a == SubSeq(es, k + 1, n)
           b == SubSeq(es, 1, k)
           full == RotateLeft(es, k)
           f == [i \in 1 .. n |-> IF i <= n - k THEN i + k ELSE i - (n - k)]
<1>1. n \in Nat /\ DOMAIN es = 1 .. n /\ k < n
  OBVIOUS
<1>2. /\ a \in Seq(Endpoint) /\ Len(a) = n - k /\ \A i \in 1 .. n - k : a[i] = es[i + k]
      /\ b \in Seq(Endpoint) /\ Len(b) = k /\ \A i \in 1 .. k : b[i] = es[i]
  OBVIOUS
<1>3. full = a \o b
  BY DEF RotateLeft
<1> HIDE DEF a, b, n, full
<1>4. full \in Seq(Endpoint) /\ Len(full) = n /\ \A i \in 1 .. n : full[i] = es[f[i]]
  <2>1. full \in Seq(Endpoint) /\ Len(full) = n
    <3>1. Len(a) + Len(b) = n
      BY <1>1, <1>2
    <3>. QED BY <1>2, <1>3, <3>1, ConcatProperties
  <2>2. \A i \in 1 .. n : full[i] = IF i <= n - k THEN a[i] ELSE b[i - (n - k)]
    BY <1>1, <1>2, <1>3
  <2>3. ASSUME NEW i \in 1 .. n
        PROVE  full[i] = es[f[i]]
    <3>1. CASE i <= n - k
      <4>1. i \in 1 .. n - k
        BY <1>1, <3>1
      <4>. QED BY <1>2, <2>2, <3>1, <4>1
    <3>2. CASE ~ (i <= n - k)
      <4>1. i - (n - k) \in 1 .. k
        BY <1>1, <3>2
      <4>. QED BY <1>2, <2>2, <3>2, <4>1
    <3>. QED BY <3>1, <3>2
  <2>. QED BY <2>1, <2>3
<1>5. f \in [1 .. n -> 1 .. n] /\ IsInjective(f)
  BY <1>1 DEF IsInjective
<1>6. full[1] = es[k + 1]
  BY <1>1, <1>4
<1> HIDE DEF f
<1>. QED BY <1>1, <1>4, <1>5, <1>6 DEF Shuffled, n, full

LEMMA OrdersShuffle ==
    ASSUME NEW s, NEW fb, Snapshots(s, fb), NEW idx \in Nat, NEW order \in FullOrders(s, idx)
    PROVE  /\ Shuffled(order, s.endpoints)
           /\ s.strategy \in {"Fallback", "ScoreOrdered"} => order = s.endpoints
           /\ s.strategy = "RoundRobin" =>
                /\ idx % Len(s.endpoints) \in 0 .. Len(s.endpoints) - 1
                /\ order[1] = s.endpoints[(idx % Len(s.endpoints)) + 1]
<1> DEFINE es == s.endpoints
<1>1. es \in Seq(Endpoint) /\ es # <<>> /\ s.strategy \in Strategies /\ DOMAIN es = 1 .. Len(es)
  BY DEF Snapshots
<1>2. Len(es) \in Nat /\ Len(es) > 0
  BY <1>1
<1> HIDE DEF es
<1>3. CASE s.strategy \in {"Fallback", "ScoreOrdered"}
  <2>1. order = es
    BY <1>3 DEF FullOrders, es
  <2> DEFINE f == [i \in DOMAIN es |-> i]
  <2>2. f \in [DOMAIN es -> DOMAIN es] /\ IsInjective(f) /\ \A i \in DOMAIN es : es[i] = es[f[i]]
    BY DEF IsInjective
  <2>3. Shuffled(es, es)
    BY <1>1, <2>2 DEF Shuffled
  <2>. QED BY <1>3, <2>1, <2>3 DEF es
<1>4. CASE s.strategy = "Random"
  <2>1. PICK f \in Bijection(DOMAIN es, DOMAIN es) : order = [i \in DOMAIN es |-> es[f[i]]]
    BY <1>4 DEF FullOrders, es
  <2>2. f \in [DOMAIN es -> DOMAIN es] /\ IsInjective(f)
    BY <2>1 DEF Bijection, Injection
  <2>3. order \in [1 .. Len(es) -> Endpoint]
    BY <1>1, <2>1, <2>2
  <2>4. order \in Seq(Endpoint) /\ Len(order) = Len(es)
    BY <1>2, <2>3
  <2>. QED BY <1>4, <2>1, <2>2, <2>4 DEF Shuffled, es
<1>5. CASE s.strategy = "RoundRobin"
  <2> DEFINE k == idx % Len(es)
  <2>1. order = RotateLeft(es, k)
    BY <1>5 DEF FullOrders, StartIndex, es
  <2>2. k \in 0 .. Len(es) - 1
    BY <1>2
  <2> HIDE DEF k
  <2>3. k \in Nat /\ k < Len(es)
    BY <1>2, <2>2
  <2>4. Shuffled(order, es) /\ order[1] = es[k + 1]
    BY <1>1, <2>1, <2>3, Rotated
  <2>. QED BY <1>5, <2>2, <2>4 DEF k, es
<1>. QED BY <1>1, <1>3, <1>4, <1>5 DEF Strategies

LEMMA TruncateIs ==
    ASSUME NEW order \in Seq(Endpoint), order # <<>>, NEW m \in Nat
    PROVE  LET out == Truncate(order, m)
           IN  /\ out \in Seq(Endpoint) /\ Len(out) \in 1 .. Len(order)
               /\ Len(out) = Min({Len(order), Max({1, m})})
               /\ \A i \in 1 .. Len(out) : out[i] = order[i]
<1> DEFINE k == Min({Len(order), Max({m, 1})})
<1>1. Max({m, 1}) = (IF m >= 1 THEN m ELSE 1) /\ {m, 1} = {1, m}
  <2>1. m \in Int /\ 1 \in Int
    OBVIOUS
  <2>. QED BY <2>1, LeastOfTwo
<1>2. k = IF Len(order) <= Max({m, 1}) THEN Len(order) ELSE Max({m, 1})
  <2>1. Max({m, 1}) \in Int /\ Len(order) \in Int
    BY <1>1
  <2>. QED BY <2>1, LeastOfTwo
<1>3. k \in 1 .. Len(order)
  BY <1>1, <1>2
<1>4. Truncate(order, m) = SubSeq(order, 1, k)
  BY DEF Truncate
<1>5. k = Min({Len(order), Max({1, m})})
  BY <1>1
<1> HIDE DEF k
<1>6. \A i \in 1 .. k : order[i] \in Endpoint
  BY <1>3
<1>7. /\ SubSeq(order, 1, k) \in Seq(Endpoint) /\ Len(SubSeq(order, 1, k)) = k
      /\ \A i \in 1 .. k : SubSeq(order, 1, k)[i] = order[i]
  BY <1>3, <1>6, SubSeqProperties
<1>. QED BY <1>3, <1>4, <1>5, <1>7

LEMMA AttemptsAre ==
    ASSUME NEW s, NEW f, Snapshots(s, f), NEW idx \in Nat, NEW order \in FullOrders(s, idx)
    PROVE  Attempts(s, f, Truncate(order, s.policy.max_attempts))
<1> DEFINE es == s.endpoints
           o == Truncate(order, s.policy.max_attempts)
<1>1. /\ es \in Seq(Endpoint) /\ es # <<>> /\ s.policy.max_attempts \in Nat
      /\ DOMAIN f # {} => Sorted(es, f)
  BY DEF Snapshots
<1>2. Shuffled(order, es) /\ (s.strategy \in {"Fallback", "ScoreOrdered"} => order = es)
  BY OrdersShuffle
<1> HIDE DEF es
<1>3. DOMAIN es = 1 .. Len(es) /\ Len(es) \in Nat /\ Len(es) > 0
  BY <1>1
<1>4. order \in Seq(Endpoint) /\ order # <<>> /\ Len(order) = Len(es)
  BY <1>2, <1>3 DEF Shuffled
<1>5. /\ o \in Seq(Endpoint) /\ Len(o) \in 1 .. Len(es)
      /\ Len(o) = Min({Len(es), Max({1, s.policy.max_attempts})})
      /\ \A i \in 1 .. Len(o) : o[i] = order[i]
  BY <1>1, <1>4, TruncateIs
<1> HIDE DEF o
<1>6. PICK g \in [DOMAIN es -> DOMAIN es] :
         IsInjective(g) /\ \A i \in DOMAIN es : order[i] = es[g[i]]
  BY <1>2 DEF Shuffled
<1>7. DOMAIN o = 1 .. Len(o) /\ \A i \in DOMAIN o : i \in DOMAIN es /\ o[i] = es[g[i]]
  <2>1. DOMAIN o = 1 .. Len(o)
    BY <1>5
  <2>2. \A i \in 1 .. Len(o) : i \in DOMAIN es
    BY <1>3, <1>5
  <2>. QED BY <1>5, <1>6, <2>1, <2>2
<1>8. ToSet(o) \subseteq ToSet(es)
  BY <1>6, <1>7 DEF ToSet
<1>9. IsInjective(es) => IsInjective(o)
  BY <1>6, <1>7 DEF IsInjective
<1>10. ASSUME DOMAIN f # {}, s.strategy \in {"Fallback", "ScoreOrdered"},
              NEW i \in DOMAIN o,
              NEW b \in (ToSet(es) \ ToSet(o)) \union {o[j] : j \in i + 1 .. Len(o)}
       PROVE  ~ Worse(o[i], b, f)
  <2>1. order = es /\ Sorted(es, f)
    BY <1>1, <1>2, <1>10
  <2>2. PICK j \in DOMAIN es : i < j /\ b = es[j]
    <3>1. CASE b \in ToSet(es) \ ToSet(o)
      <4>1. PICK j \in DOMAIN es : b = es[j]
        BY <3>1 DEF ToSet
      <4>2. ~ (j \in 1 .. Len(o))
        <5> SUFFICES ASSUME j \in DOMAIN o
                     PROVE  b \in ToSet(o)
          BY <1>7, <3>1
        <5>. QED BY <1>5, <1>7, <2>1, <4>1 DEF ToSet
      <4>3. i < j
        BY <1>3, <1>5, <1>7, <4>2
      <4>. QED BY <4>1, <4>3
    <3>2. CASE b \in {o[j] : j \in i + 1 .. Len(o)}
      <4>1. PICK j \in i + 1 .. Len(o) : b = o[j]
        BY <3>2
      <4>2. i \in Nat /\ i >= 1 /\ j \in 1 .. Len(o) /\ i < j
        BY <1>5, <1>7
      <4>. QED BY <1>5, <1>7, <2>1, <4>1, <4>2
    <3>. QED BY <1>10, <3>1, <3>2
  <2>3. i \in DOMAIN es /\ o[i] = es[i]
    BY <1>5, <1>7, <2>1
  <2>. QED BY <2>1, <2>2, <2>3 DEF Sorted
<1>. QED BY <1>5, <1>8, <1>9, <1>10 DEF Attempts, o, es
-----------------------------------------------------------------------------
(* The rotations of a key.                                                 *)

(* A remainder is unique.                                                  *)
LEMMA Remainder ==
    ASSUME NEW n \in Nat, NEW q \in Int, NEW t \in Int,
           NEW a \in 0 .. n - 1, NEW b \in 0 .. n - 1, n * q + a = n * t + b
    PROVE  a = b
<1>1. ASSUME NEW x \in Int, NEW y \in Int, NEW c \in 0 .. n - 1, NEW d \in 0 .. n - 1,
             n * x + c = n * y + d, x < y
      PROVE  FALSE
  <2> DEFINE k == y - x - 1
  <2>1. k \in Nat /\ y = x + 1 + k
    BY <1>1
  <2> HIDE DEF k
  <2>2. n * k \in Nat
    BY <2>1
  <2>3. n * (x + 1 + k) = n * x + n + n * k
    BY <2>1
  <2>4. n * x \in Int
    OBVIOUS
  <2>. QED BY <1>1, <2>1, <2>2, <2>3, <2>4
<1>2. q = t
  BY <1>1
<1>3. n * q \in Int
  OBVIOUS
<1>. QED BY <1>2, <1>3

LEMMA Modulo ==
    ASSUME NEW idx \in Nat, NEW n \in Nat, n > 0
    PROVE  /\ idx % n \in 0 .. n - 1
           /\ (idx + 1) % n \in Nat
           /\ (idx + 1) % n = Succ(idx % n, n)
           /\ idx < n => idx % n = idx
<1> DEFINE q == idx \div n
           k == idx % n
           t == (idx + 1) \div n
           m == (idx + 1) % n
<1>1. q \in Int /\ k \in 0 .. n - 1 /\ idx = n * q + k
  OBVIOUS
<1>2. t \in Int /\ m \in 0 .. n - 1 /\ idx + 1 = n * t + m
  OBVIOUS
<1> HIDE DEF q, k, t, m
<1>3. n * q \in Int /\ n * (q + 1) = n * q + n /\ n * 0 = 0
  BY <1>1
<1>4. ASSUME k + 1 = n
      PROVE  m = 0
  <2>1. n * (q + 1) + 0 = n * t + m
    BY <1>1, <1>2, <1>3, <1>4
  <2>2. q + 1 \in Int /\ 0 \in 0 .. n - 1
    BY <1>1
  <2>3. 0 = m
    BY <1>2, <2>1, <2>2, Remainder, Zenon
  <2>. QED BY <2>3
<1>5. ASSUME k + 1 # n
      PROVE  m = k + 1
  <2>1. k + 1 \in 0 .. n - 1 /\ n * q + (k + 1) = n * t + m
    BY <1>1, <1>2, <1>3, <1>5
  <2>2. k + 1 = m
    BY <1>1, <1>2, <2>1, Remainder, Zenon
  <2>. QED BY <2>2
<1>6. ASSUME idx < n
      PROVE  k = idx
  <2>1. idx \in 0 .. n - 1 /\ 0 \in Int /\ n * 0 + idx = n * q + k
    BY <1>1, <1>3, <1>6
  <2>2. idx = k
    BY <1>1, <2>1, Remainder, Zenon
  <2>. QED BY <2>2
<1>7. m = Succ(k, n)
  BY <1>4, <1>5 DEF Succ
<1>. QED BY <1>1, <1>2, <1>6, <1>7 DEF k, m

(* One more rotation of a key whose counter is c.                          *)
LEMMA OneMoreTurn ==
    ASSUME NEW seen \in Seq(Rotations), NEW c \in Nat,
           NEW pos \in [1 .. Len(seen) -> Nat], seen # <<>> => Turning(seen, c, pos),
           NEW es \in Seq(Endpoint), es # <<>>
    PROVE  LET n == Len(es)
               turn == [of |-> es, first |-> es[(c % n) + 1], cut |-> FALSE]
               all == Append(seen, turn)
               pos2 == [i \in 1 .. Len(all) |-> IF i <= Len(seen) THEN pos[i] ELSE c % n]
           IN  all \in Seq(Rotations) /\ Turning(all, (c + 1) % n, pos2)
<1> DEFINE n == Len(es)
           k == c % n
           turn == [of |-> es, first |-> es[k + 1], cut |-> FALSE]
           all == Append(seen, turn)
           L == Len(seen)
           pos2 == [i \in 1 .. Len(all) |-> IF i <= L THEN pos[i] ELSE k]
<1>1. n \in Nat /\ n > 0 /\ L \in Nat /\ DOMAIN es = 1 .. n
  OBVIOUS
<1>2. k \in 0 .. n - 1 /\ (c + 1) % n = Succ(k, n) /\ (c < n => k = c)
  BY <1>1, Modulo
<1> HIDE DEF n, k
<1>3. turn \in Rotations /\ turn.of = es /\ turn.first = es[k + 1] /\ ~ turn.cut
  BY <1>1, <1>2 DEF Rotations
<1> HIDE DEF turn
<1>4. /\ all \in Seq(Rotations) /\ Len(all) = L + 1 /\ all[L + 1] = turn
      /\ \A i \in 1 .. L : all[i] = seen[i]
  <2>1. all \in Seq(Rotations) /\ Len(all) = L + 1
    BY <1>3
  <2>2. all[L + 1] = turn
    BY <1>1, <1>3
  <2>. QED BY <2>1, <2>2
<1> HIDE DEF all
<1>5. /\ pos2[L + 1] = k /\ \A i \in 1 .. L : pos2[i] = pos[i] /\ pos[i] \in Nat
  <2>1. \A i \in 1 .. L : pos[i] \in Nat
    OBVIOUS
  <2> HIDE DEF L
  <2>2. L + 1 \in 1 .. Len(all) /\ ~ (L + 1 <= L) /\ \A i \in 1 .. L : i \in 1 .. Len(all) /\ i <= L
    BY <1>1, <1>4
  <2>. QED BY <2>1, <2>2
<1> HIDE DEF pos2, L
<1>6. ASSUME NEW i \in 1 .. L
      PROVE  pos[i] < Len(seen[i].of) /\ seen[i].first = seen[i].of[pos[i] + 1]
  <2>1. seen # <<>>
    BY <1>1 DEF L
  <2>. QED BY <2>1 DEF Turning, L
<1>7. \A i \in 1 .. L + 1 : pos2[i] < Len(all[i].of) /\ all[i].first = all[i].of[pos2[i] + 1]
  <2> SUFFICES ASSUME NEW i \in 1 .. L + 1
               PROVE  pos2[i] < Len(all[i].of) /\ all[i].first = all[i].of[pos2[i] + 1]
    OBVIOUS
  <2>1. CASE i \in 1 .. L
    BY <1>4, <1>5, <1>6, <2>1
  <2>2. CASE i = L + 1
    BY <1>1, <1>2, <1>3, <1>4, <1>5, <2>2 DEF n
  <2>. QED BY <1>1, <2>1, <2>2
<1>8. ASSUME NEW i \in 1 .. L + 1, NEW j \in 1 .. L + 1,
             i < j, j - i < Len(all[j].of), Unchanging(all, i, j)
      PROVE  pos2[j] = pos2[i] + (j - i) \/ pos2[j] = pos2[i] + (j - i) - Len(all[j].of)
  <2>1. i \in 1 .. L
    BY <1>1, <1>8
  <2>2. seen # <<>> /\ L >= 1 /\ Turning(seen, c, pos)
    BY <1>1, <2>1 DEF L
  <2>3. CASE j \in 1 .. L
    <3>1. \A m \in i .. j : m \in 1 .. L /\ seen[m] = all[m]
      BY <1>1, <1>4, <2>1, <2>3
    <3>2. Unchanging(seen, i, j) /\ seen[j].of = all[j].of
      BY <1>8, <2>3, <3>1, <2>1 DEF Unchanging
    <3>. QED BY <1>5, <1>8, <2>1, <2>2, <2>3, <3>2 DEF Turning, L
  <2>4. CASE j = L + 1
    <3>1. \A m \in i .. L : m \in i .. j - 1 /\ m \in i .. j /\ m \in 1 .. L /\ seen[m] = all[m]
      BY <1>1, <1>4, <2>1, <2>4
    <3>2. \A m \in i .. L : seen[m].of = es /\ ~ seen[m].cut
      BY <1>3, <1>4, <1>8, <2>4, <3>1 DEF Unchanging
    <3>3. L \in i .. L /\ seen[L].of = es /\ Unchanging(seen, i, L)
      BY <1>1, <2>1, <3>2 DEF Unchanging
    <3>4. /\ ~ seen[L].cut => c = Succ(pos[L], Len(seen[L].of))
          /\ \A x, y \in 1 .. L :
               (x < y /\ y - x < Len(seen[y].of) /\ Unchanging(seen, x, y))
                  => pos[y] = pos[x] + (y - x) \/ pos[y] = pos[x] + (y - x) - Len(seen[y].of)
      BY <2>2 DEF Turning, L
    <3>5. pos[L] \in Nat /\ pos[i] \in Nat /\ pos[L] < n /\ pos[i] < n /\ L \in 1 .. L
      <4>1. L \in 1 .. L /\ seen[i].of = es /\ seen[L].of = es
        BY <1>1, <2>1, <2>2, <3>2, <3>3
      <4>. QED BY <1>5, <1>6, <2>1, <4>1 DEF n
    <3>6. k = Succ(pos[L], n)
      <4>1. c = Succ(pos[L], n)
        BY <3>2, <3>3, <3>4 DEF n
      <4>2. c < n
        BY <1>1, <3>5, <4>1 DEF Succ
      <4>. QED BY <1>2, <4>1, <4>2
    <3>7. L - i < n /\ j - i < n /\ all[j].of = es
      BY <1>1, <1>3, <1>4, <1>8, <2>1, <2>4 DEF n
    <3>8. i < L => pos[L] = pos[i] + (L - i) \/ pos[L] = pos[i] + (L - i) - n
      BY <2>1, <3>3, <3>4, <3>5, <3>7 DEF n
    <3>9. pos2[i] = pos[i] /\ pos2[j] = k
      BY <1>5, <2>1, <2>4
    <3>10. i \in Nat /\ L \in Nat /\ i <= L /\ n \in Nat /\ j = L + 1
      BY <1>1, <2>1, <2>4
    <3>11. i = L => pos[i] = pos[L]
      OBVIOUS
    <3>12. k = pos[i] + (j - i) \/ k = pos[i] + (j - i) - n
      <4>1. pos[L] = pos[i] + (L - i) \/ pos[L] = pos[i] + (L - i) - n
        BY <3>5, <3>8, <3>10, <3>11
      <4>2. L - i \in Nat /\ (L - i) + 1 = j - i /\ (L - i) + 1 < n
        BY <3>7, <3>10
      <4>3. \/ Succ(pos[L], n) = pos[i] + ((L - i) + 1)
            \/ Succ(pos[L], n) = pos[i] + ((L - i) + 1) - n
        <5> DEFINE p == pos[i]
                   q == pos[L]
                   d == L - i
        <5>1. /\ n \in Nat /\ p \in Nat /\ q \in Nat /\ d \in Nat /\ p < n /\ q < n /\ d + 1 < n
              /\ q = p + d \/ q = p + d - n
          BY <3>5, <3>10, <4>1, <4>2
        <5> HIDE DEF p, q, d
        <5>2. Succ(q, n) = p + (d + 1) \/ Succ(q, n) = p + (d + 1) - n
          BY <5>1 DEF Succ
        <5>. QED BY <5>2 DEF p, q, d
      <4>4. k = pos[i] + ((L - i) + 1) \/ k = pos[i] + ((L - i) + 1) - n
        BY <3>6, <4>3, Zenon
      <4>. QED BY <4>2, <4>4, Zenon
    <3>13. Len(all[j].of) = n
      BY <3>7 DEF n
    <3>. QED BY <3>9, <3>12, <3>13
  <2>5. j \in 1 .. L \/ j = L + 1
    BY <1>1
  <2>. QED BY <2>3, <2>4, <2>5
<1>9. (c + 1) % n = Succ(pos2[L + 1], Len(all[L + 1].of))
  BY <1>2, <1>3, <1>4, <1>5 DEF n
<1>10. Turning(all, (c + 1) % n, pos2)
  BY <1>4, <1>7, <1>8, <1>9 DEF Turning
<1>. QED BY <1>4, <1>10 DEF all, pos2, turn, L, k, n

(* The recent rotations of a key are rotations of it.                      *)
LEMMA RecentTurns ==
    ASSUME NEW all \in Seq(Rotations), NEW c, NEW pos \in [1 .. Len(all) -> Nat],
           NEW a \in 1 .. Len(all), Turning(all, c, pos)
    PROVE  LET t == SubSeq(all, a, Len(all))
               pos2 == [i \in 1 .. Len(t) |-> pos[i + a - 1]]
           IN  /\ t \in Seq(Rotations) /\ t # <<>>
               /\ pos2 \in [1 .. Len(t) -> Nat] /\ Turning(t, c, pos2)
<1> DEFINE N == Len(all)
           t == SubSeq(all, a, N)
           L == Len(t)
           pos2 == [i \in 1 .. L |-> pos[i + a - 1]]
<1>1. N \in Nat /\ a \in 1 .. N /\ \A i \in a .. N : all[i] \in Rotations
  OBVIOUS
<1>2. t \in Seq(Rotations) /\ L = N - a + 1 /\ \A i \in 1 .. N - a + 1 : t[i] = all[a + i - 1]
  BY <1>1, SubSeqProperties
<1> HIDE DEF t, L
<1>3. L \in Nat /\ L >= 1 /\ L = N - a + 1
  BY <1>1, <1>2
<1>4. \A i \in 1 .. L : i + a - 1 \in 1 .. N /\ t[i] = all[i + a - 1] /\ pos2[i] = pos[i + a - 1]
  BY <1>1, <1>2, <1>3
<1>5. pos2 \in [1 .. L -> Nat]
  BY <1>4 DEF N
<1> HIDE DEF pos2, N
<1>6. \A i \in 1 .. L : pos2[i] < Len(t[i].of) /\ t[i].first = t[i].of[pos2[i] + 1]
  <2>1. \A m \in 1 .. N : pos[m] < Len(all[m].of) /\ all[m].first = all[m].of[pos[m] + 1]
    BY DEF Turning, N
  <2>. QED BY <1>4, <2>1
<1>7. ~ t[L].cut => c = Succ(pos2[L], Len(t[L].of))
  <2>1. L \in 1 .. L /\ L + a - 1 = N
    BY <1>1, <1>3
  <2>. QED BY <1>4, <2>1 DEF Turning, N
<1>8. ASSUME NEW i \in 1 .. L, NEW j \in 1 .. L,
             i < j, j - i < Len(t[j].of), Unchanging(t, i, j)
      PROVE  pos2[j] = pos2[i] + (j - i) \/ pos2[j] = pos2[i] + (j - i) - Len(t[j].of)
  <2> DEFINE x == i + a - 1
             y == j + a - 1
  <2>1. x \in 1 .. N /\ y \in 1 .. N /\ x < y /\ y - x = j - i /\ t[j] = all[y]
    BY <1>1, <1>4, <1>8
  <2>2. Unchanging(all, x, y)
    <3> SUFFICES ASSUME NEW m \in x .. y
                 PROVE  all[m].of = all[y].of /\ (m \in x .. y - 1 => ~ all[m].cut)
      BY DEF Unchanging
    <3>1. /\ m - a + 1 \in i .. j /\ m - a + 1 \in 1 .. L /\ (m - a + 1) + a - 1 = m
          /\ m \in x .. y - 1 => m - a + 1 \in i .. j - 1
      BY <1>1, <1>3, <1>8
    <3>2. /\ t[m - a + 1].of = t[j].of /\ t[m - a + 1] = all[m]
          /\ m \in x .. y - 1 => ~ t[m - a + 1].cut
      <4>1. t[m - a + 1] = all[(m - a + 1) + a - 1]
        BY <1>4, <3>1
      <4>. QED BY <1>8, <3>1, <4>1 DEF Unchanging
    <3>. QED BY <2>1, <3>2
  <2>3. pos2[i] = pos[x] /\ pos2[j] = pos[y]
    BY <1>4
  <2> HIDE DEF x, y
  <2>. QED BY <1>8, <2>1, <2>2, <2>3 DEF Turning, N
<1>9. Turning(t, c, pos2)
  BY <1>6, <1>7, <1>8 DEF Turning, L
<1>10. t # <<>>
  BY <1>3 DEF L
<1>. QED BY <1>2, <1>5, <1>9, <1>10 DEF t, L, pos2, N
-----------------------------------------------------------------------------
(* The invariant is preserved.                                             *)

LEMMA RememberIs ==
    ASSUME NEW seen \in Seq(Rotations), NEW c \in Nat,
           NEW pos \in [1 .. Len(seen) -> Nat], seen # <<>> => Turning(seen, c, pos),
           NEW es \in Seq(Endpoint), es # <<>>
    PROVE  LET t == Remember(seen, [of |-> es, first |-> es[(c % Len(es)) + 1], cut |-> FALSE])
           IN  /\ t \in Seq(Rotations) /\ t # <<>> /\ (c + 1) % Len(es) \in Nat
               /\ \E pos2 \in [1 .. Len(t) -> Nat] : Turning(t, (c + 1) % Len(es), pos2)
<1> DEFINE n == Len(es)
           turn == [of |-> es, first |-> es[(c % n) + 1], cut |-> FALSE]
           all == Append(seen, turn)
           N == Len(all)
           a == Max({1, N - HistoryLength + 1})
           posA == [i \in 1 .. N |-> IF i <= Len(seen) THEN pos[i] ELSE c % n]
<1>1. all \in Seq(Rotations) /\ Turning(all, (c + 1) % n, posA)
  BY OneMoreTurn
<1>2. n \in Nat /\ n > 0
  OBVIOUS
<1>3. c % n \in Nat /\ (c + 1) % n \in Nat
  BY <1>2, Modulo
<1>4. N = Len(seen) + 1 /\ Len(seen) \in Nat
  OBVIOUS
<1> HIDE DEF n, turn, all, N
<1>5. posA \in [1 .. N -> Nat]
  BY <1>3, <1>4
<1>6. a \in 1 .. N
  <2>1. HistoryLength \in Nat /\ HistoryLength >= 1
    BY HostGives
  <2>2. 1 \in Int /\ N - HistoryLength + 1 \in Int
    BY <1>4, <2>1
  <2>3. a = IF 1 >= N - HistoryLength + 1 THEN 1 ELSE N - HistoryLength + 1
    BY <2>2, LeastOfTwo
  <2>. QED BY <1>4, <2>1, <2>3
<1> DEFINE t == SubSeq(all, a, Len(all))
           pos2 == [i \in 1 .. Len(t) |-> posA[i + a - 1]]
<1>7. Remember(seen, turn) = t
  BY DEF Remember, all, N
<1> HIDE DEF a, posA
<1>8. /\ t \in Seq(Rotations) /\ t # <<>>
      /\ pos2 \in [1 .. Len(t) -> Nat] /\ Turning(t, (c + 1) % n, pos2)
  <2>1. a \in 1 .. Len(all) /\ posA \in [1 .. Len(all) -> Nat]
    BY <1>5, <1>6 DEF N
  <2>. QED BY <1>1, <2>1, RecentTurns
<1> HIDE DEF t, pos2
<1>9. \E p \in [1 .. Len(t) -> Nat] : Turning(t, (c + 1) % n, p)
  BY <1>8
<1>. QED BY <1>3, <1>7, <1>8, <1>9 DEF turn, n

LEMMA InitOk == Init => PInv
<1> SUFFICES ASSUME Init
             PROVE  PInv
  OBVIOUS
<1>1. DOMAIN <<>> = {}
  OBVIOUS
<1>2. Registered /\ Counted
  BY <1>1 DEF Init, Registered, Counted
<1>3. Candidates
  BY DEF Init, Idle, Candidates
<1>. QED BY <1>2, <1>3 DEF PInv

LEMMA UpsertOk ==
    ASSUME PInv, NEW p \in PoolIds, NEW def \in PoolDefs[p], UpsertPool(p, def)
    PROVE  PInv'
<1>1. def \in ProviderPool
  BY HostGives
<1>2. Registered'
  BY <1>1 DEF PInv, Registered, UpsertPool, With
<1>3. Candidates'
  BY DEF PInv, Candidates, UpsertPool
<1>4. Counted'
  BY DEF PInv, Counted, KeyCounted, Counter, UpsertPool
<1>. QED BY <1>2, <1>3, <1>4 DEF PInv

(* Where the counter was taken away, nothing is said of the next rotation. *)
LEMMA CutIs ==
    ASSUME NEW t \in Seq(Rotations), t # <<>>, NEW c, NEW d,
           NEW pos \in [1 .. Len(t) -> Nat], Turning(t, c, pos)
    PROVE  LET u == [t EXCEPT ![Len(t)].cut = TRUE]
           IN  /\ u \in Seq(Rotations) /\ u # <<>>
               /\ pos \in [1 .. Len(u) -> Nat] /\ Turning(u, d, pos)
<1> DEFINE L == Len(t)
           u == [t EXCEPT ![L].cut = TRUE]
<1>1. L \in Nat /\ L >= 1 /\ DOMAIN t = 1 .. L /\ \A i \in 1 .. L : t[i] \in Rotations
  OBVIOUS
<1> HIDE DEF L
<1>2. /\ DOMAIN u = 1 .. L /\ u[L] = [t[L] EXCEPT !.cut = TRUE]
      /\ \A i \in 1 .. L - 1 : u[i] = t[i]
  <2>1. L \in DOMAIN t /\ \A i \in 1 .. L - 1 : i \in DOMAIN t /\ i # L
    BY <1>1
  <2>2. u = [i \in DOMAIN t |-> IF i = L THEN [t[L] EXCEPT !.cut = TRUE] ELSE t[i]]
    OBVIOUS
  <2> HIDE DEF u
  <2>. QED BY <1>1, <2>1, <2>2
<1>3. u[L] \in Rotations /\ u[L].of = t[L].of /\ u[L].first = t[L].first /\ u[L].cut
  <2>1. t[L] \in Rotations
    BY <1>1
  <2>2. u[L] = [t[L] EXCEPT !.cut = TRUE]
    BY <1>2
  <2> HIDE DEF u
  <2>. QED BY <2>1, <2>2 DEF Rotations
<1>4. \A i \in 1 .. L : u[i] \in Rotations /\ u[i].of = t[i].of /\ u[i].first = t[i].first
  BY <1>1, <1>2, <1>3
<1>5. u \in [1 .. L -> Rotations]
  BY <1>2, <1>4
<1> HIDE DEF u
<1>6. u \in Seq(Rotations) /\ Len(u) = L /\ u # <<>>
  BY <1>1, <1>5
<1>7. ASSUME NEW i \in 1 .. L, NEW j \in 1 .. L, i < j, Unchanging(u, i, j)
      PROVE  Unchanging(t, i, j)
  <2>1. \A m \in i .. j : m \in 1 .. L
    BY <1>1
  <2>2. \A m \in i .. j - 1 : m \in 1 .. L - 1
    BY <1>1
  <2>3. \A m \in i .. j : t[m].of = t[j].of
    BY <1>4, <1>7, <2>1 DEF Unchanging
  <2>4. \A m \in i .. j - 1 : ~ t[m].cut
    BY <1>2, <1>7, <2>2 DEF Unchanging
  <2>. QED BY <2>3, <2>4 DEF Unchanging
<1>8. /\ \A i \in 1 .. L : pos[i] < Len(t[i].of) /\ t[i].first = t[i].of[pos[i] + 1]
      /\ \A i, j \in 1 .. L :
           (i < j /\ j - i < Len(t[j].of) /\ Unchanging(t, i, j))
              => pos[j] = pos[i] + (j - i) \/ pos[j] = pos[i] + (j - i) - Len(t[j].of)
  BY DEF Turning, L
<1>9. \A i \in 1 .. L : pos[i] < Len(u[i].of) /\ u[i].first = u[i].of[pos[i] + 1]
  BY <1>4, <1>8
<1>10. ASSUME NEW i \in 1 .. L, NEW j \in 1 .. L,
             i < j, j - i < Len(u[j].of), Unchanging(u, i, j)
       PROVE  pos[j] = pos[i] + (j - i) \/ pos[j] = pos[i] + (j - i) - Len(u[j].of)
  BY <1>4, <1>7, <1>8, <1>10
<1>11. Turning(u, d, pos)
  BY <1>3, <1>6, <1>9, <1>10 DEF Turning
<1>12. pos \in [1 .. Len(u) -> Nat]
  BY <1>6 DEF L
<1>. QED BY <1>6, <1>11, <1>12 DEF u, L

LEMMA RemoveOk ==
    ASSUME PInv, NEW p \in PoolIds, RemovePool(p)
    PROVE  PInv'
<1> DEFINE dropped == {<<"pool", q>> : q \in {q \in PoolIds : <<p, q>> \in Nested}}
           Cut(t) == [t EXCEPT ![Len(t)].cut = TRUE]
<1>1. /\ pools' = Without(pools, {p}) /\ req' = req
      /\ rr_counters' = Without(rr_counters, dropped)
      /\ turns' = [k \in DOMAIN turns |-> IF k \in dropped THEN Cut(turns[k]) ELSE turns[k]]
  BY DEF RemovePool
<1> HIDE DEF dropped, Cut
<1>2. Registered'
  BY <1>1 DEF PInv, Registered, Without, Restrict
<1>3. Candidates'
  BY <1>1 DEF PInv, Candidates
<1>4. /\ DOMAIN rr_counters' = DOMAIN rr_counters \ dropped
      /\ \A k \in DOMAIN rr_counters' : rr_counters'[k] = rr_counters[k]
  BY <1>1 DEF Without, Restrict
<1>5. ASSUME NEW k \in DOMAIN turns'
      PROVE  KeyCounted(k)'
  <2>1. k \in DOMAIN turns /\ KeyCounted(k)
    BY <1>1 DEF PInv, Counted
  <2>2. CASE k \in dropped
    <3>1. turns'[k] = Cut(turns[k])
      BY <1>1, <2>1, <2>2
    <3>2. PICK pos \in [1 .. Len(turns[k]) -> Nat] : Turning(turns[k], Counter(k), pos)
      BY <2>1 DEF KeyCounted
    <3>3. /\ Cut(turns[k]) \in Seq(Rotations) /\ Cut(turns[k]) # <<>>
          /\ pos \in [1 .. Len(Cut(turns[k])) -> Nat] /\ Turning(Cut(turns[k]), Counter(k)', pos)
      BY <2>1, <3>2, CutIs DEF KeyCounted, Cut
    <3>. QED BY <3>1, <3>3 DEF KeyCounted
  <2>3. CASE k \notin dropped
    <3>1. turns'[k] = turns[k] /\ Counter(k)' = Counter(k)
      BY <1>1, <1>4, <2>1, <2>3 DEF Counter
    <3>. QED BY <2>1, <3>1 DEF KeyCounted
  <2>. QED BY <2>2, <2>3
<1>6. Counted'
  BY <1>4, <1>5 DEF PInv, Counted
<1>. QED BY <1>2, <1>3, <1>6 DEF PInv

LEMMA UpdateOk ==
    ASSUME PInv, NEW p \in PoolIds, NEW strategy \in Offered, NEW policy \in OfferedPolicies,
           UpdatePoolConfig(p, strategy, policy)
    PROVE  PInv'
<1> DEFINE kept == IF strategy = Inherit THEN pools[p].strategy ELSE strategy
           budget == IF policy = Inherit THEN pools[p].policy ELSE policy
<1>1. /\ p \in DOMAIN pools
      /\ pools' = [pools EXCEPT ![p].strategy = kept, ![p].policy = budget]
  BY DEF UpdatePoolConfig
<1>2. pools[p] \in ProviderPool
  BY <1>1 DEF PInv, Registered
<1>3. kept \in Strategies /\ budget \in RetryPolicies
  BY <1>2, HostGives DEF ProviderPool
<1> HIDE DEF kept, budget
<1>4. [pools[p] EXCEPT !.strategy = kept, !.policy = budget] \in ProviderPool
  BY <1>2, <1>3 DEF ProviderPool
<1>5. Registered'
  BY <1>1, <1>4 DEF PInv, Registered
<1>6. Candidates' /\ Counted'
  BY DEF PInv, Candidates, Counted, KeyCounted, Counter, UpdatePoolConfig
<1>. QED BY <1>5, <1>6 DEF PInv

LEMMA TakeOk ==
    ASSUME PInv, NEW r \in Requests, NEW result, NEW f, TakeSnapshot(r, result, f),
           result.ok => Snapshots(result.snapshot, f)
    PROVE  PInv'
<1>1. Registered' /\ Counted'
  BY DEF PInv, Registered, Counted, KeyCounted, Counter, TakeSnapshot
<1>2. Candidates'
  <2>1. DOMAIN req = Requests /\ DOMAIN req' = Requests /\ \A q \in Requests \ {r} : req'[q] = req[q]
    BY DEF PInv, Candidates, TakeSnapshot
  <2>2. req'[r] = IF result.ok
                  THEN [at |-> "snapshot", snapshot |-> result.snapshot, feedback |-> f]
                  ELSE Idle
    BY <2>1 DEF TakeSnapshot
  <2>3. /\ req'[r].at \in {"idle", "snapshot"}
        /\ req'[r].at = "snapshot" => Snapshots(req'[r].snapshot, req'[r].feedback)
    BY <2>2 DEF Idle
  <2>4. \A q \in Requests \ {r} :
          /\ req'[q].at \in {"idle", "snapshot", "ordered"}
          /\ req'[q].at = "snapshot" => Snapshots(req'[q].snapshot, req'[q].feedback)
          /\ req'[q].at = "ordered" => Attempts(req'[q].snapshot, req'[q].feedback, req'[q].order)
    BY <2>1 DEF PInv, Candidates
  <2>. QED BY <2>1, <2>3, <2>4 DEF Candidates
<1>. QED BY <1>1, <1>2 DEF PInv

LEMMA OrderOk ==
    ASSUME PInv, NEW r \in Requests, OrderEndpoints(r)
    PROVE  PInv'
<1> DEFINE s == req[r].snapshot
           f == req[r].feedback
           es == s.endpoints
           n == Len(es)
           idx == IF s.key \in DOMAIN rr_counters THEN rr_counters[s.key] ELSE 0
           seen == IF s.key \in DOMAIN turns THEN turns[s.key] ELSE <<>>
<1>1. req[r].at = "snapshot" /\ pools' = pools
  BY DEF OrderEndpoints
<1>2. PICK order \in FullOrders(s, idx) :
        /\ req' = [req EXCEPT ![r] = [at |-> "ordered", snapshot |-> s, feedback |-> f,
                                      order |-> Truncate(order, s.policy.max_attempts)]]
        /\ IF s.strategy = "RoundRobin"
           THEN /\ rr_counters' = With(rr_counters, s.key, AdvanceIndex(idx, n))
                /\ turns' = With(turns, s.key,
                              Remember(seen, [of |-> es, first |-> order[1], cut |-> FALSE]))
           ELSE UNCHANGED <<rr_counters, turns>>
  BY Zenon DEF OrderEndpoints
<1>3. Snapshots(s, f) /\ es \in Seq(Endpoint) /\ es # <<>>
  BY <1>1 DEF PInv, Candidates, Snapshots
<1>4. /\ \A k \in DOMAIN rr_counters : rr_counters[k] \in Nat
      /\ \A k \in DOMAIN turns : KeyCounted(k)
  BY DEF PInv, Counted
<1>5. /\ idx \in Nat /\ seen \in Seq(Rotations)
      /\ \E pos \in [1 .. Len(seen) -> Nat] : seen # <<>> => Turning(seen, idx, pos)
  <2>0. idx = Counter(s.key) /\ idx \in Nat
    BY <1>4 DEF Counter
  <2>1. CASE s.key \in DOMAIN turns
    <3>1. KeyCounted(s.key) /\ seen = turns[s.key]
      BY <1>4, <2>1
    <3> HIDE DEF idx, seen
    <3>. QED BY <2>0, <3>1 DEF KeyCounted
  <2>2. CASE s.key \notin DOMAIN turns
    <3>1. [i \in 1 .. Len(<<>>) |-> 0] \in [1 .. Len(<<>>) -> Nat]
      OBVIOUS
    <3>2. seen = <<>>
      BY <2>2
    <3>3. \E pos \in [1 .. Len(seen) -> Nat] : seen # <<>> => Turning(seen, idx, pos)
      <4> HIDE DEF seen, idx
      <4>1. \E pos : pos \in [1 .. Len(seen) -> Nat]
        BY <3>1, <3>2
      <4>. QED BY <3>2, <4>1
    <3>. QED BY <2>0, <3>2, <3>3
  <2>. QED BY <2>1, <2>2
<1> HIDE DEF s, f, es, n, idx, seen
<1>6. Registered'
  BY <1>1 DEF PInv, Registered
<1>7. Candidates'
  <2>1. Attempts(s, f, Truncate(order, s.policy.max_attempts))
    BY <1>2, <1>3, <1>5, AttemptsAre
  <2>2. DOMAIN req = Requests /\ DOMAIN req' = Requests /\ \A q \in Requests \ {r} : req'[q] = req[q]
    BY <1>2 DEF PInv, Candidates
  <2>3. req'[r] = [at |-> "ordered", snapshot |-> s, feedback |-> f,
                   order |-> Truncate(order, s.policy.max_attempts)]
    BY <1>2, <2>2
  <2>4. /\ req'[r].at = "ordered"
        /\ Attempts(req'[r].snapshot, req'[r].feedback, req'[r].order)
    BY <2>1, <2>3
  <2>5. \A q \in Requests \ {r} :
          /\ req'[q].at \in {"idle", "snapshot", "ordered"}
          /\ req'[q].at = "snapshot" => Snapshots(req'[q].snapshot, req'[q].feedback)
          /\ req'[q].at = "ordered" => Attempts(req'[q].snapshot, req'[q].feedback, req'[q].order)
    BY <2>2 DEF PInv, Candidates
  <2>. QED BY <2>2, <2>4, <2>5 DEF Candidates
<1>8. CASE s.strategy # "RoundRobin"
  <2>1. Counted'
    BY <1>2, <1>8 DEF PInv, Counted, KeyCounted, Counter
  <2>. QED BY <1>6, <1>7, <2>1 DEF PInv
<1>9. CASE s.strategy = "RoundRobin"
  <2> DEFINE turn == [of |-> es, first |-> order[1], cut |-> FALSE]
             t == Remember(seen, turn)
             c == (idx + 1) % n
  <2>1. order[1] = es[(idx % n) + 1]
    BY <1>2, <1>3, <1>5, <1>9, OrdersShuffle DEF es, n
  <2>2. /\ t \in Seq(Rotations) /\ t # <<>> /\ c \in Nat
        /\ \E pos \in [1 .. Len(t) -> Nat] : Turning(t, c, pos)
    <3>1. turn = [of |-> es, first |-> es[(idx % Len(es)) + 1], cut |-> FALSE]
      BY <2>1 DEF n
    <3> HIDE DEF turn
    <3>. QED BY <1>3, <1>5, <3>1, RememberIs DEF n
  <2>3. rr_counters' = With(rr_counters, s.key, c) /\ turns' = With(turns, s.key, t)
    BY <1>2, <1>9 DEF AdvanceIndex
  <2> HIDE DEF t, c
  <2>4. /\ DOMAIN turns' = DOMAIN turns \union {s.key}
        /\ DOMAIN rr_counters' = DOMAIN rr_counters \union {s.key}
        /\ turns'[s.key] = t /\ rr_counters'[s.key] = c
        /\ \A k \in DOMAIN turns' \ {s.key} : k \in DOMAIN turns /\ turns'[k] = turns[k]
        /\ \A k \in DOMAIN rr_counters' \ {s.key} :
             k \in DOMAIN rr_counters /\ rr_counters'[k] = rr_counters[k]
    BY <2>3 DEF With
  <2>5. \A k \in DOMAIN turns' : KeyCounted(k)'
    <3> SUFFICES ASSUME NEW k \in DOMAIN turns'
                 PROVE  KeyCounted(k)'
      OBVIOUS
    <3>1. CASE k = s.key
      <4>1. turns'[k] = t /\ Counter(k)' = c
        BY <2>4, <3>1 DEF Counter
      <4>. QED BY <2>2, <4>1 DEF KeyCounted
    <3>2. CASE k # s.key
      <4>1. k \in DOMAIN turns /\ turns'[k] = turns[k] /\ Counter(k)' = Counter(k)
        BY <2>4, <3>2 DEF Counter
      <4>. QED BY <1>4, <4>1 DEF KeyCounted
    <3>. QED BY <3>1, <3>2
  <2>6. Counted'
    BY <1>4, <2>2, <2>4, <2>5 DEF Counted
  <2>. QED BY <1>6, <1>7, <2>6 DEF PInv
<1>. QED BY <1>8, <1>9

LEMMA DoneOk ==
    ASSUME PInv, NEW r \in Requests, Done(r)
    PROVE  PInv'
<1>1. Registered' /\ Counted'
  BY DEF PInv, Registered, Counted, KeyCounted, Counter, Done
<1>2. DOMAIN req = Requests /\ req' = [req EXCEPT ![r] = Idle]
  BY DEF PInv, Candidates, Done
<1>3. Candidates'
  BY <1>2 DEF PInv, Candidates, Idle
<1>. QED BY <1>1, <1>3 DEF PInv

LEMMA NextOk == PInv /\ [Next]_vars => PInv'
<1> SUFFICES ASSUME PInv, [Next]_vars
             PROVE  PInv'
  OBVIOUS
<1>1. ASSUME NEW p \in PoolIds, NEW def \in PoolDefs[p], UpsertPool(p, def)
      PROVE  PInv'
  BY <1>1, UpsertOk
<1>2. ASSUME NEW p \in PoolIds, RemovePool(p)
      PROVE  PInv'
  BY <1>2, RemoveOk
<1>3. ASSUME NEW p \in PoolIds, NEW strategy \in Offered, NEW policy \in OfferedPolicies,
             UpdatePoolConfig(p, strategy, policy)
      PROVE  PInv'
  BY <1>3, UpdateOk
<1>4. ASSUME NEW r \in Requests, SnapshotPool(r)
      PROVE  PInv'
  <2>1. PICK p \in PoolIds, f \in Feedbacks : TakeSnapshot(r, PoolSnapshot(pools, p, f), f)
    BY <1>4 DEF SnapshotPool
  <2>2. PoolSnapshot(pools, p, f).ok => Snapshots(PoolSnapshot(pools, p, f).snapshot, f)
    BY PoolSnapshotIs DEF PInv
  <2>. QED BY <2>1, <2>2, TakeOk
<1>5. ASSUME NEW r \in Requests, SnapshotPlan(r)
      PROVE  PInv'
  <2>1. PICK plan \in Plans : TakeSnapshot(r, PlanSnapshot(pools, plan), <<>>)
    BY <1>5 DEF SnapshotPlan
  <2>2. PlanSnapshot(pools, plan).ok => Snapshots(PlanSnapshot(pools, plan).snapshot, <<>>)
    BY PlanSnapshotIs DEF PInv
  <2>. QED BY <2>1, <2>2, TakeOk
<1>6. ASSUME NEW r \in Requests, OrderEndpoints(r)
      PROVE  PInv'
  BY <1>6, OrderOk
<1>7. ASSUME NEW r \in Requests, Done(r)
      PROVE  PInv'
  BY <1>7, DoneOk
<1>8. CASE UNCHANGED vars
  BY <1>8 DEF PInv, Registered, Candidates, Counted, KeyCounted, Counter, vars
<1>. QED BY <1>1, <1>2, <1>3, <1>4, <1>5, <1>6, <1>7, <1>8 DEF Next

(* The registry, the counters and the requests in flight stay well formed: *)
(* a snapshot is sorted by its feedback and a counter follows its list.    *)
THEOREM PoolsInvariant == Spec => []PInv
<1>1. Init => PInv
  BY InitOk
<1>2. PInv /\ [Next]_vars => PInv'
  BY NextOk
<1>. QED BY <1>1, <1>2, PTL DEF Spec
-----------------------------------------------------------------------------
(* Feedback decides who is tried and in which order, for every pool, plan, *)
(* feedback and number of requests (routing.rs).                           *)
THEOREM FeedbackDecidesOrder == Spec => []BestCandidatesFirst
<1>1. PInv => BestCandidatesFirst
  <2> SUFFICES ASSUME PInv, NEW r \in Ordered
               PROVE  LET f == req[r].feedback
                          o == req[r].order
                          dropped == ToSet(req[r].snapshot.endpoints) \ ToSet(o)
                      IN  /\ BudgetUsed(r)
                          /\ (DOMAIN f # {} /\ req[r].snapshot.strategy \in {"Fallback", "ScoreOrdered"})
                                => \A i \in DOMAIN o :
                                     \A b \in dropped \union {o[j] : j \in i + 1 .. Len(o)} :
                                        ~ Worse(o[i], b, f)
    BY DEF BestCandidatesFirst, Worse
  <2>1. Attempts(req[r].snapshot, req[r].feedback, req[r].order)
    BY DEF PInv, Candidates, Ordered
  <2>. QED BY <2>1 DEF Attempts, BudgetUsed
<1>. QED BY <1>1, PoolsInvariant, PTL

(* Round robin starves no endpoint, whatever the host does to the pools in *)
(* between and however many requests select at once (routing.rs), as long  *)
(* as no removal of another pool takes the counter of this one away        *)
(* (engine/mod.rs).                                                        *)
THEOREM EveryEndpointHasItsTurn == Spec => []RoundRobinFair
<1>1. PInv => RoundRobinFair
  <2> SUFFICES ASSUME PInv, NEW k \in DOMAIN turns
               PROVE  LET t == turns[k]
                          n == Len(t[Len(t)].of)
                          window == (Len(t) - n + 1) .. Len(t)
                      IN  (/\ n <= Len(t) /\ IsInjective(t[Len(t)].of)
                           /\ \A i \in window : t[i].of = t[Len(t)].of
                           /\ \A i \in window \ {Len(t)} : ~ t[i].cut)
                             => \A i, j \in window : t[i].first = t[j].first => i = j
    BY DEF RoundRobinFair
  <2> DEFINE t == turns[k]
             N == Len(t)
             es == t[N].of
             n == Len(es)
             window == (N - n + 1) .. N
  <2>1. /\ t \in Seq(Rotations) /\ t # <<>>
        /\ \E pos \in [1 .. N -> Nat] : Turning(t, Counter(k), pos)
    BY DEF PInv, Counted, KeyCounted
  <2>2. PICK pos \in [1 .. N -> Nat] : Turning(t, Counter(k), pos)
    BY <2>1
  <2> HIDE DEF t
  <2>3. N \in Nat /\ N >= 1 /\ t[N] \in Rotations
    BY <2>1
  <2>4. es \in Seq(Endpoint) /\ n \in Nat /\ DOMAIN es = 1 .. n
    BY <2>3 DEF Rotations
  <2> HIDE DEF N, es, n
  <2>5. ASSUME n <= N, IsInjective(es), \A i \in window : t[i].of = es,
               \A i \in window \ {N} : ~ t[i].cut,
               NEW i \in window, NEW j \in window, t[i].first = t[j].first, i < j
        PROVE  FALSE
    <3>1. /\ i \in 1 .. N /\ j \in 1 .. N /\ j - i < n /\ \A m \in i .. j : m \in window
          /\ \A m \in i .. j - 1 : m \in window \ {N}
      BY <2>3, <2>4, <2>5
    <3>2. t[i].of = es /\ t[j].of = es /\ Unchanging(t, i, j)
      BY <2>5, <3>1 DEF Unchanging
    <3>3. /\ pos[i] \in Nat /\ pos[i] < n /\ t[i].first = es[pos[i] + 1]
          /\ pos[j] \in Nat /\ pos[j] < n /\ t[j].first = es[pos[j] + 1]
      BY <2>2, <3>1, <3>2 DEF Turning, N, n
    <3>4. pos[j] = pos[i] + (j - i) \/ pos[j] = pos[i] + (j - i) - n
      BY <2>2, <2>5, <3>1, <3>2 DEF Turning, N, n
    <3>5. pos[i] + 1 = pos[j] + 1
      <4>1. pos[i] + 1 \in DOMAIN es /\ pos[j] + 1 \in DOMAIN es
        BY <2>4, <3>3
      <4>2. es[pos[i] + 1] = es[pos[j] + 1]
        BY <2>5, <3>3
      <4>3. \A x, y \in DOMAIN es : es[x] = es[y] => x = y
        BY <2>5 DEF IsInjective
      <4>. QED BY <4>1, <4>2, <4>3, Zenon
    <3>6. pos[i] = pos[j]
      BY <3>3, <3>5
    <3>7. i \in Int /\ j \in Int /\ i < j /\ j - i < n
      BY <2>3, <2>5, <3>1
    <3>. QED BY <2>4, <3>3, <3>4, <3>6, <3>7
  <2>6. ASSUME n <= N, IsInjective(es), \A i \in window : t[i].of = es,
               \A i \in window \ {N} : ~ t[i].cut,
               NEW i \in window, NEW j \in window, t[i].first = t[j].first
        PROVE  i = j
    <3>1. i \in Int /\ j \in Int
      BY <2>3, <2>4
    <3>. QED BY <2>5, <2>6, <3>1
  <2>. QED BY <2>6 DEF t, N, es, n
<1>. QED BY <1>1, PoolsInvariant, PTL
=============================================================================
