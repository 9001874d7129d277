----------------------------- MODULE AimdProofs -----------------------------
(***************************************************************************)
(* Proofs about Aimd, for any number of attempts and any configuration.    *)
(***************************************************************************)
EXTENDS Aimd, FiniteSetTheorems, TLAPS

(* What the copies an attempt works from may hold: the limit it acquires   *)
(* under is at most the maximum and its static cap, and the values its     *)
(* next store to the shared limit is computed from are in the configured   *)
(* range.                                                                  *)
LocalsBounded ==
    \A t \in Threads :
        /\ pc[t] = "acq_cas" =>
               /\ seen_limit[t] <= MaxConcurrency
               /\ hard[t] # NoHardLimit => seen_limit[t] <= hard[t]
        /\ pc[t] \in {"succ_ssthresh", "succ_cas", "sat_ssthresh", "sat_cas"}
               => seen_limit[t] \in MinConcurrency .. MaxConcurrency
        /\ pc[t] = "succ_cas" => seen_ssthresh[t] \in MinConcurrency .. MaxConcurrency

-----------------------------------------------------------------------------
(* The arithmetic keeps a limit in the configured range.                   *)

LEMMA RaisedInRange ==
    ASSUME NEW l \in MinConcurrency .. MaxConcurrency,
           NEW s \in MinConcurrency .. MaxConcurrency
    PROVE  Raised(l, s) \in MinConcurrency .. MaxConcurrency
BY AimdConfig DEF Raised, AtMost

LEMMA HalvedInRange ==
    ASSUME NEW l \in MinConcurrency .. MaxConcurrency
    PROVE  Halved(l) \in MinConcurrency .. MaxConcurrency
<1>1. l \in Nat /\ l \div 2 \in Nat /\ l \div 2 <= l
  BY AimdConfig
<1>2. QED
  BY <1>1, AimdConfig DEF Halved, AtLeast

LEMMA EffectiveLimitBound ==
    ASSUME NEW l \in Nat, NEW cap \in HardLimits \union {NoHardLimit}
    PROVE  /\ EffectiveLimit(l, cap) \in Nat
           /\ EffectiveLimit(l, cap) <= l
           /\ cap # NoHardLimit => EffectiveLimit(l, cap) <= cap
BY AimdConfig DEF EffectiveLimit, AtMost

-----------------------------------------------------------------------------
(* Type correctness: in particular the slot counter, an unsigned integer   *)
(* in the code, never goes below zero.  That needs the accounting of the   *)
(* slots, so the two are one induction.                                    *)

Counted == TypeOK /\ SlotsAccounted

LEMMA HoldersFinite == IsFiniteSet(Holders) /\ Cardinality(Holders) \in Nat
<1>1. Holders \subseteq Threads
  BY DEF Holders
<1>2. QED
  BY <1>1, ThreadsFinite, FS_Subset, FS_CardinalityType

(* A step that moves one attempt from outside Holding to inside adds it to *)
(* the holders; the converse step removes it; any other step keeps them.   *)
LEMMA HoldersEnter ==
    ASSUME TypeOK, NEW t \in Threads, NEW to \in Holding,
           pc[t] \notin Holding, pc' = [pc EXCEPT ![t] = to]
    PROVE  /\ Holders' = Holders \union {t}
           /\ Cardinality(Holders') = Cardinality(Holders) + 1
<1>1. t \notin Holders /\ Holders' = Holders \union {t}
  BY DEF Holders, TypeOK
<1>2. QED
  BY <1>1, HoldersFinite, FS_AddElement

LEMMA HoldersLeave ==
    ASSUME TypeOK, NEW t \in Threads,
           pc[t] \in Holding, pc' = [pc EXCEPT ![t] = "idle"]
    PROVE  /\ Holders' = Holders \ {t} /\ t \in Holders
           /\ Cardinality(Holders') = Cardinality(Holders) - 1
           /\ Cardinality(Holders) >= 1
<1>1. "idle" \notin Holding
  BY DEF Holding, InSuccess, InSaturation
<1>2. t \in Holders /\ Holders' = Holders \ {t}
  BY <1>1 DEF Holders, TypeOK
<1>3. Cardinality(Holders') = Cardinality(Holders) - 1
  BY <1>2, HoldersFinite, FS_RemoveElement
<1>4. Cardinality(Holders') \in Nat
  BY <1>2, HoldersFinite, FS_RemoveElement, FS_CardinalityType
<1>5. QED
  BY <1>2, <1>3, <1>4, HoldersFinite

LEMMA HoldersStay ==
    ASSUME TypeOK, NEW t \in Threads, NEW to \in PCs,
           pc[t] \in Holding <=> to \in Holding, pc' = [pc EXCEPT ![t] = to]
    PROVE  Holders' = Holders
BY DEF Holders, TypeOK

(* Only the compare-exchange that takes a slot and the guard's release     *)
(* touch the holders and the counter.                                      *)
LEMMA OthersKeepSlots ==
    ASSUME TypeOK, NEW t \in Threads, Attempt(t),
           ~ AcquireCasOk(t), ~ Release(t)
    PROVE  Holders' = Holders /\ active_connections' = active_connections
<1>1. CASE Acquire(t)
  <2>1. \/ pc' = pc
        \/ \E to \in PCs \ Holding : pc' = [pc EXCEPT ![t] = to] /\ pc[t] \notin Holding
    BY <1>1
       DEF Acquire, AcquireLoadActive, AcquireLoadLimit, AcquireRefused, AcquireCasFail,
           Go, PCs, Acquiring, Holding, InSuccess, InSaturation
  <2>2. active_connections' = active_connections
    BY <1>1
       DEF Acquire, AcquireLoadActive, AcquireLoadLimit, AcquireRefused, AcquireCasFail, shared
  <2>3. QED
    BY <2>1, <2>2, HoldersStay DEF Holders
<1>2. CASE OnSuccess(t)
  <2>1. \/ pc' = pc
        \/ \E to \in Holding : pc' = [pc EXCEPT ![t] = to] /\ pc[t] \in Holding
    BY <1>2
       DEF OnSuccess, SuccessNow, SuccessCheck, SuccessLoadLimit, SuccessLoadSsthresh,
           SuccessAtCap, SuccessCasOk, SuccessCasFail, Go, Holding, InSuccess
  <2>2. active_connections' = active_connections
    BY <1>2
       DEF OnSuccess, SuccessNow, SuccessCheck, SuccessLoadLimit, SuccessLoadSsthresh,
           SuccessAtCap, SuccessCasOk, SuccessCasFail, shared
  <2>3. QED
    BY <2>1, <2>2, HoldersStay DEF Holders, PCs
<1>3. CASE OnSaturation(t)
  <2>1. \E to \in Holding : pc' = [pc EXCEPT ![t] = to] /\ pc[t] \in Holding
    BY <1>3
       DEF OnSaturation, SaturationNow, SaturationCheck, SaturationLoadLimit,
           SaturationStoreSsthresh, SaturationCas, SaturationStoreCooldown,
           Go, Holding, InSaturation
  <2>2. active_connections' = active_connections
    BY <1>3
       DEF OnSaturation, SaturationNow, SaturationCheck, SaturationLoadLimit,
           SaturationStoreSsthresh, SaturationCas, SaturationStoreCooldown, shared
  <2>3. QED
    BY <2>1, <2>2, HoldersStay DEF PCs
<1>4. QED
  BY <1>1, <1>2, <1>3 DEF Attempt

LEMMA TypeStep ==
    ASSUME TypeOK, SlotsAccounted, [Next]_vars
    PROVE  TypeOK'
<1> USE AimdConfig
<1>1. CASE UNCHANGED vars
  BY <1>1 DEF vars, TypeOK
<1>2. CASE Tick
  BY <1>2 DEF Tick, TypeOK, shared, locals
<1>3. ASSUME NEW t \in Threads, Acquire(t)
      PROVE  TypeOK'
  <2>1. CASE AcquireLoadActive(t)
    BY <2>1 DEF AcquireLoadActive, Go, TypeOK, shared, PCs, Acquiring
  <2>2. CASE AcquireLoadLimit(t)
    <3>1. EffectiveLimit(current_limit, hard[t]) \in Nat
      BY EffectiveLimitBound DEF TypeOK
    <3>2. QED
      BY <2>2, <3>1 DEF AcquireLoadLimit, Go, TypeOK, shared, PCs, Acquiring
  <2>3. CASE AcquireRefused(t)
    BY <2>3 DEF AcquireRefused, Forget, Go, TypeOK, shared, PCs
  <2>4. CASE AcquireCasOk(t)
    BY <2>4 DEF AcquireCasOk, Go, TypeOK, locals, PCs, Holding
  <2>5. CASE AcquireCasFail(t)
    BY <2>5 DEF AcquireCasFail, TypeOK, shared
  <2>6. QED
    BY <1>3, <2>1, <2>2, <2>3, <2>4, <2>5 DEF Acquire
<1>4. ASSUME NEW t \in Threads, Release(t)
      PROVE  TypeOK'
  <2>1. Cardinality(Holders) >= 1
    BY <1>4, HoldersLeave DEF Release, Holding
  <2>2. active_connections' \in Nat
    BY <2>1, <1>4, HoldersFinite DEF Release, SlotsAccounted
  <2>3. QED
    BY <2>2, <1>4 DEF Release, Forget, TypeOK, PCs
<1>5. ASSUME NEW t \in Threads, OnSuccess(t)
      PROVE  TypeOK'
  <2>1. CASE SuccessNow(t)
    BY <2>1 DEF SuccessNow, Go, TypeOK, shared, PCs, Holding, InSuccess
  <2>2. CASE SuccessCheck(t)
    BY <2>2 DEF SuccessCheck, Go, TypeOK, shared, locals, PCs, Holding, InSuccess
  <2>3. CASE SuccessLoadLimit(t)
    BY <2>3 DEF SuccessLoadLimit, Go, TypeOK, shared, PCs, Holding, InSuccess
  <2>4. CASE SuccessLoadSsthresh(t)
    BY <2>4 DEF SuccessLoadSsthresh, Go, TypeOK, shared, PCs, Holding, InSuccess
  <2>5. CASE SuccessAtCap(t)
    BY <2>5 DEF SuccessAtCap, Go, TypeOK, shared, locals, PCs, Holding
  <2>6. CASE SuccessCasOk(t)
    <3>1. Raised(seen_limit[t], seen_ssthresh[t]) \in Nat
      BY DEF TypeOK, Raised, AtMost
    <3>2. QED
      BY <2>6, <3>1 DEF SuccessCasOk, Go, TypeOK, locals, PCs, Holding
  <2>7. CASE SuccessCasFail(t)
    BY <2>7 DEF SuccessCasFail, TypeOK, shared
  <2>8. QED
    BY <1>5, <2>1, <2>2, <2>3, <2>4, <2>5, <2>6, <2>7 DEF OnSuccess
<1>6. ASSUME NEW t \in Threads, OnSaturation(t)
      PROVE  TypeOK'
  <2>0. Halved(seen_limit[t]) \in Nat
    BY DEF TypeOK, Halved, AtLeast
  <2>1. CASE SaturationNow(t)
    BY <2>1 DEF SaturationNow, Go, TypeOK, shared, PCs, Holding, InSaturation
  <2>2. CASE SaturationCheck(t)
    BY <2>2 DEF SaturationCheck, Go, TypeOK, shared, locals, PCs, Holding, InSaturation
  <2>3. CASE SaturationLoadLimit(t)
    BY <2>3 DEF SaturationLoadLimit, Go, TypeOK, shared, PCs, Holding, InSaturation
  <2>4. CASE SaturationStoreSsthresh(t)
    BY <2>4, <2>0 DEF SaturationStoreSsthresh, Go, TypeOK, locals, PCs, Holding, InSaturation
  <2>5. CASE SaturationCas(t)
    BY <2>5, <2>0 DEF SaturationCas, Go, TypeOK, locals, PCs, Holding, InSaturation
  <2>6. CASE SaturationStoreCooldown(t)
    BY <2>6 DEF SaturationStoreCooldown, Go, TypeOK, locals, PCs, Holding
  <2>7. QED
    BY <1>6, <2>1, <2>2, <2>3, <2>4, <2>5, <2>6 DEF OnSaturation
<1>7. QED
  BY <1>1, <1>2, <1>3, <1>4, <1>5, <1>6 DEF Next, Attempt

THEOREM CountedInductive == Counted /\ [Next]_vars => Counted'
<1> SUFFICES ASSUME TypeOK, SlotsAccounted, [Next]_vars
             PROVE  SlotsAccounted'
  BY TypeStep DEF Counted
<1>1. CASE Tick \/ UNCHANGED vars
  BY <1>1 DEF Tick, vars, SlotsAccounted, Holders, shared
<1>2. ASSUME NEW t \in Threads, AcquireCasOk(t)
      PROVE  SlotsAccounted'
  <2>1. Cardinality(Holders') = Cardinality(Holders) + 1
    BY <1>2, HoldersEnter DEF AcquireCasOk, Go, Holding, InSuccess, InSaturation, Acquiring
  <2>2. QED
    BY <2>1, <1>2 DEF AcquireCasOk, SlotsAccounted
<1>3. ASSUME NEW t \in Threads, Release(t)
      PROVE  SlotsAccounted'
  <2>1. Cardinality(Holders') = Cardinality(Holders) - 1
    BY <1>3, HoldersLeave DEF Release, Holding
  <2>2. QED
    BY <2>1, <1>3 DEF Release, SlotsAccounted
<1>4. ASSUME NEW t \in Threads, Attempt(t), ~ AcquireCasOk(t), ~ Release(t)
      PROVE  SlotsAccounted'
  BY <1>4, OthersKeepSlots DEF SlotsAccounted
<1>5. QED
  BY <1>1, <1>2, <1>3, <1>4 DEF Next

LEMMA CountedInit == Init => Counted
<1> SUFFICES ASSUME Init PROVE TypeOK /\ SlotsAccounted
  BY DEF Counted
<1>1. TypeOK
  BY AimdConfig DEF Init, TypeOK, PCs
<1>2. Holders = {}
  BY DEF Init, Holders, Holding, InSuccess, InSaturation
<1>3. QED
  BY <1>1, <1>2, FS_EmptySet DEF Init, SlotsAccounted

(* The fields keep their types: the unsigned slot counter never wraps.     *)
THEOREM TypeCorrect == Spec => []TypeOK
<1>1. Counted => TypeOK
  BY DEF Counted
<1>2. QED
  BY CountedInit, CountedInductive, <1>1, PTL DEF Spec

(* No slot leaks and no slot is given back twice, for any number of        *)
(* attempts: the counter is always the number of live guards.              *)
THEOREM SlotsAlwaysAccounted == Spec => []SlotsAccounted
<1>1. Counted => SlotsAccounted
  BY DEF Counted
<1>2. QED
  BY CountedInit, CountedInductive, <1>1, PTL DEF Spec

-----------------------------------------------------------------------------
(* The ranges.  LimitsWithinConfig is not inductive alone: a store writes  *)
(* a value computed from copies taken several steps earlier, so the copies *)
(* must be bounded too.                                                    *)

Bounded == LimitsWithinConfig /\ LocalsBounded /\ ActiveBounded

LEMMA BoundedInit == Init => Bounded
BY AimdConfig DEF Init, Bounded, LimitsWithinConfig, LocalsBounded, ActiveBounded

LEMMA LimitsStep ==
    ASSUME TypeOK, Bounded, NEW t \in Threads, Attempt(t)
    PROVE  LimitsWithinConfig'
<1>1. /\ current_limit \in MinConcurrency .. MaxConcurrency
      /\ ssthresh \in MinConcurrency .. MaxConcurrency
  BY DEF Bounded, LimitsWithinConfig
<1>2. CASE SuccessCasOk(t)
  <2>1. Raised(seen_limit[t], seen_ssthresh[t]) \in MinConcurrency .. MaxConcurrency
    BY <1>2, RaisedInRange DEF SuccessCasOk, Go, Bounded, LocalsBounded
  <2>2. QED
    BY <1>1, <1>2, <2>1 DEF SuccessCasOk, LimitsWithinConfig
<1>3. CASE SaturationStoreSsthresh(t) \/ SaturationCas(t)
  <2>1. Halved(seen_limit[t]) \in MinConcurrency .. MaxConcurrency
    BY <1>3, HalvedInRange DEF SaturationStoreSsthresh, SaturationCas, Go, Bounded, LocalsBounded
  <2>2. QED
    BY <1>1, <1>3, <2>1 DEF SaturationStoreSsthresh, SaturationCas, LimitsWithinConfig
<1>4. CASE UNCHANGED <<current_limit, ssthresh>>
  BY <1>1, <1>4 DEF LimitsWithinConfig
<1>5. QED
  BY <1>2, <1>3, <1>4
     DEF Attempt, Acquire, OnSuccess, OnSaturation, shared,
         AcquireLoadActive, AcquireLoadLimit, AcquireRefused, AcquireCasOk, AcquireCasFail,
         Release, SuccessNow, SuccessCheck, SuccessLoadLimit, SuccessLoadSsthresh,
         SuccessAtCap, SuccessCasFail, SaturationNow, SaturationCheck, SaturationLoadLimit,
         SaturationStoreCooldown

LEMMA ActiveStep ==
    ASSUME TypeOK, Bounded, NEW t \in Threads, Attempt(t)
    PROVE  ActiveBounded'
<1>1. CASE AcquireCasOk(t)
  BY <1>1, AimdConfig
     DEF AcquireCasOk, Go, Bounded, LocalsBounded, ActiveBounded, TypeOK
<1>2. CASE Release(t)
  BY <1>2, AimdConfig DEF Release, Bounded, ActiveBounded, TypeOK
<1>3. CASE ~ AcquireCasOk(t) /\ ~ Release(t)
  BY <1>3, OthersKeepSlots DEF Bounded, ActiveBounded
<1>4. QED
  BY <1>1, <1>2, <1>3

LEMMA LocalsStep ==
    ASSUME TypeOK, Bounded, NEW t \in Threads, Attempt(t)
    PROVE  LocalsBounded'
<1> SUFFICES ASSUME NEW u \in Threads
             PROVE  /\ pc'[u] = "acq_cas" =>
                           /\ seen_limit'[u] <= MaxConcurrency
                           /\ hard'[u] # NoHardLimit => seen_limit'[u] <= hard'[u]
                    /\ pc'[u] \in {"succ_ssthresh", "succ_cas", "sat_ssthresh", "sat_cas"}
                           => seen_limit'[u] \in MinConcurrency .. MaxConcurrency
                    /\ pc'[u] = "succ_cas"
                           => seen_ssthresh'[u] \in MinConcurrency .. MaxConcurrency
  BY DEF LocalsBounded
<1> USE AimdConfig DEF Bounded, LocalsBounded, TypeOK
<1>1. CASE Acquire(t)
  <2>1. CASE AcquireLoadActive(t)
    BY <2>1 DEF AcquireLoadActive, Go
  <2>2. CASE AcquireLoadLimit(t)
    <3> DEFINE e == EffectiveLimit(current_limit, hard[t])
    <3>1. /\ current_limit \in Nat /\ current_limit <= MaxConcurrency
          /\ hard[t] \in HardLimits \union {NoHardLimit}
      BY DEF LimitsWithinConfig
    <3>2. e \in Nat /\ e <= current_limit /\ (hard[t] # NoHardLimit => e <= hard[t])
      BY <3>1, EffectiveLimitBound
    <3>3. e <= MaxConcurrency
      BY <3>1, <3>2
    <3> HIDE DEF e
    <3>4. CASE u = t
      BY <2>2, <3>2, <3>3, <3>4 DEF AcquireLoadLimit, Go, e
    <3>5. CASE u # t
      BY <2>2, <3>5 DEF AcquireLoadLimit, Go
    <3>6. QED
      BY <3>4, <3>5
  <2>3. CASE AcquireRefused(t)
    BY <2>3 DEF AcquireRefused, Forget, Go
  <2>4. CASE AcquireCasOk(t)
    BY <2>4 DEF AcquireCasOk, Go, locals
  <2>5. CASE AcquireCasFail(t)
    BY <2>5 DEF AcquireCasFail
  <2>6. QED
    BY <1>1, <2>1, <2>2, <2>3, <2>4, <2>5 DEF Acquire
<1>2. CASE Release(t)
  BY <1>2 DEF Release, Forget
<1>3. CASE OnSuccess(t)
  <2>1. CASE SuccessNow(t) \/ SuccessCheck(t)
    BY <2>1 DEF SuccessNow, SuccessCheck, Go, locals
  <2>2. CASE SuccessLoadLimit(t)
    BY <2>2 DEF SuccessLoadLimit, Go, LimitsWithinConfig
  <2>3. CASE SuccessLoadSsthresh(t)
    BY <2>3 DEF SuccessLoadSsthresh, Go, LimitsWithinConfig
  <2>4. CASE SuccessAtCap(t) \/ SuccessCasOk(t)
    BY <2>4 DEF SuccessAtCap, SuccessCasOk, Go, locals
  <2>5. CASE SuccessCasFail(t)
    BY <2>5 DEF SuccessCasFail, LimitsWithinConfig
  <2>6. QED
    BY <1>3, <2>1, <2>2, <2>3, <2>4, <2>5 DEF OnSuccess
<1>4. CASE OnSaturation(t)
  <2>1. CASE SaturationNow(t) \/ SaturationCheck(t)
    BY <2>1 DEF SaturationNow, SaturationCheck, Go, locals
  <2>2. CASE SaturationLoadLimit(t)
    BY <2>2 DEF SaturationLoadLimit, Go, LimitsWithinConfig
  <2>3. CASE SaturationStoreSsthresh(t) \/ SaturationCas(t) \/ SaturationStoreCooldown(t)
    BY <2>3 DEF SaturationStoreSsthresh, SaturationCas, SaturationStoreCooldown, Go, locals
  <2>4. QED
    BY <1>4, <2>1, <2>2, <2>3 DEF OnSaturation
<1>5. QED
  BY <1>1, <1>2, <1>3, <1>4 DEF Attempt

THEOREM BoundedInductive == TypeOK /\ Bounded /\ [Next]_vars => Bounded'
<1> SUFFICES ASSUME TypeOK, Bounded, [Next]_vars
             PROVE  Bounded'
  OBVIOUS
<1>1. CASE Tick \/ UNCHANGED vars
  BY <1>1
     DEF Tick, vars, shared, locals, Bounded, LimitsWithinConfig, LocalsBounded, ActiveBounded
<1>2. ASSUME NEW t \in Threads, Attempt(t)
      PROVE  Bounded'
  BY <1>2, LimitsStep, ActiveStep, LocalsStep DEF Bounded
<1>3. QED
  BY <1>1, <1>2 DEF Next

LEMMA BoundedAlways == Spec => []Bounded
BY BoundedInit, BoundedInductive, TypeCorrect, PTL DEF Spec

(* The limit and the slow-start threshold stay in the configured range,    *)
(* for any number of attempts racing to raise and halve them.              *)
THEOREM LimitsAlwaysWithinConfig == Spec => []LimitsWithinConfig
<1>1. Bounded => LimitsWithinConfig
  BY DEF Bounded
<1>2. QED
  BY BoundedAlways, <1>1, PTL

(* The endpoint never carries more than max_concurrency attempts.          *)
THEOREM ActiveAlwaysBounded == Spec => []ActiveBounded
<1>1. Bounded => ActiveBounded
  BY DEF Bounded
<1>2. QED
  BY BoundedAlways, <1>1, PTL
-----------------------------------------------------------------------------
(* The step properties.                                                    *)

(* An admission leaves the count within the static cap it was made under.  *)
THEOREM HardCapAlwaysRespected == Spec => HardCapRespected
<1>1. ASSUME TypeOK, Bounded, [Next]_vars, NEW t \in Threads,
             pc[t] = "acq_cas", pc'[t] = "held", hard[t] # NoHardLimit
      PROVE  active_connections' <= hard[t]
  <2>1. AcquireCasOk(t)
    <3>1. ~ Tick /\ ~ UNCHANGED vars
      BY <1>1 DEF Tick, vars
    <3>2. ASSUME NEW u \in Threads, Attempt(u)
          PROVE  u = t
      BY <1>1, <3>2
         DEF Attempt, Acquire, OnSuccess, OnSaturation, Go, TypeOK,
             AcquireLoadActive, AcquireLoadLimit, AcquireRefused, AcquireCasOk,
             AcquireCasFail, Release, SuccessNow, SuccessCheck, SuccessLoadLimit,
             SuccessLoadSsthresh, SuccessAtCap, SuccessCasOk, SuccessCasFail, SaturationNow,
             SaturationCheck, SaturationLoadLimit, SaturationStoreSsthresh, SaturationCas,
             SaturationStoreCooldown
    <3>3. Attempt(t)
      <4>1. \E u \in Threads : Attempt(u)
        BY <1>1, <3>1 DEF Next
      <4>2. QED
        BY <4>1, <3>2
    <3>4. QED
      BY <1>1, <3>3
         DEF Attempt, Acquire, OnSuccess, OnSaturation, Go, TypeOK,
             AcquireLoadActive, AcquireLoadLimit, AcquireRefused,
             AcquireCasFail, Release, SuccessNow, SuccessCheck, SuccessLoadLimit,
             SuccessLoadSsthresh, SuccessAtCap, SuccessCasOk, SuccessCasFail, SaturationNow,
             SaturationCheck, SaturationLoadLimit, SaturationStoreSsthresh, SaturationCas,
             SaturationStoreCooldown
  <2>2. hard[t] \in Nat
    BY <1>1, AimdConfig DEF TypeOK
  <2>3. QED
    BY <1>1, <2>1, <2>2 DEF AcquireCasOk, Bounded, LocalsBounded, TypeOK
<1>2. TypeOK /\ Bounded /\ [Next]_vars =>
        [\A t \in Threads :
           (pc[t] = "acq_cas" /\ pc'[t] = "held" /\ hard[t] # NoHardLimit)
              => active_connections' <= hard[t]]_vars
  BY <1>1
<1>3. QED
  BY <1>2, TypeCorrect, BoundedAlways, PTL DEF Spec, HardCapRespected

(* Every change of the limit is one increase or one halving of the value   *)
(* it replaces: no update is lost.                                         *)
THEOREM LimitAlwaysMovesByOneRule == Spec => LimitMovesByOneRule
<1>1. ASSUME TypeOK, Bounded, NEW t \in Threads, Attempt(t),
             current_limit' # current_limit
      PROVE  \/ current_limit' = current_limit + 1
             \/ current_limit' = Halved(current_limit)
  <2>1. SuccessCasOk(t) \/ SaturationCas(t)
    BY <1>1
       DEF Attempt, Acquire, OnSuccess, OnSaturation, shared,
           AcquireLoadActive, AcquireLoadLimit, AcquireRefused, AcquireCasOk,
           AcquireCasFail, Release, SuccessNow, SuccessCheck, SuccessLoadLimit,
           SuccessLoadSsthresh, SuccessAtCap, SuccessCasFail, SaturationNow,
           SaturationCheck, SaturationLoadLimit, SaturationStoreSsthresh,
           SaturationStoreCooldown
  <2>2. CASE SuccessCasOk(t)
    <3>1. /\ seen_limit[t] \in MinConcurrency .. MaxConcurrency
          /\ seen_ssthresh[t] \in MinConcurrency .. MaxConcurrency
      BY <1>1, <2>2 DEF SuccessCasOk, Go, Bounded, LocalsBounded
    <3>2. QED
      BY <2>2, <3>1, AimdConfig DEF SuccessCasOk, Raised, AtMost
  <2>3. CASE SaturationCas(t)
    BY <1>1, <2>3 DEF SaturationCas
  <2>4. QED
    BY <2>1, <2>2, <2>3
<1>2. TypeOK /\ Bounded /\ [Next]_vars =>
        [\/ current_limit' = current_limit + 1
         \/ current_limit' = Halved(current_limit)]_current_limit
  BY <1>1 DEF Next, Tick, shared, vars
<1>3. QED
  BY <1>2, TypeCorrect, BoundedAlways, PTL DEF Spec, LimitMovesByOneRule
-----------------------------------------------------------------------------
(* The controller implements ConcurrencyGate: a successful exchange admits *)
(* one attempt below the capacity, a guard's release lets it leave, and    *)
(* every other step is a stutter.                                          *)
THEOREM AimdImplementsGate == Spec => GateSpec
<1>1. Init => Gate!Init
  BY DEF Init, Gate!Init, Holders, Holding, InSuccess, InSaturation
<1>2. ASSUME TypeOK, SlotsAccounted, Bounded, [Next]_vars
      PROVE  [Gate!Next]_Holders
  <2>1. CASE Tick \/ UNCHANGED vars
    BY <2>1 DEF Tick, vars, Holders
  <2>2. ASSUME NEW t \in Threads, AcquireCasOk(t)
        PROVE  Gate!Next
    <3>1. t \notin Holders /\ Holders' = Holders \union {t}
      <4>1. pc[t] \notin Holding /\ "held" \in Holding
        BY <2>2 DEF AcquireCasOk, Go, Holding, InSuccess, InSaturation
      <4>2. QED
        BY <1>2, <2>2, <4>1, HoldersEnter DEF AcquireCasOk, Go, Holders
    <3>2. Cardinality(Holders) < MaxConcurrency
      BY <1>2, <2>2, AimdConfig
         DEF AcquireCasOk, Go, SlotsAccounted, Bounded, LocalsBounded, TypeOK
    <3>3. Gate!Admit(t)
      BY <3>1, <3>2 DEF Gate!Admit, Gate!Cardinality, Cardinality
    <3>4. QED
      BY <3>3 DEF Gate!Next
  <2>3. ASSUME NEW t \in Threads, Release(t)
        PROVE  Gate!Next
    <3>1. Gate!Leave(t)
      BY <1>2, <2>3, HoldersLeave DEF Release, Holding, Gate!Leave
    <3>2. QED
      BY <3>1 DEF Gate!Next
  <2>4. ASSUME NEW t \in Threads, Attempt(t), ~ AcquireCasOk(t), ~ Release(t)
        PROVE  Holders' = Holders
    BY <1>2, <2>4, OthersKeepSlots
  <2>5. QED
    BY <1>2, <2>1, <2>2, <2>3, <2>4 DEF Next
<1>3. QED
  BY <1>1, <1>2, TypeCorrect, SlotsAlwaysAccounted, BoundedAlways, PTL
     DEF Spec, GateSpec, Gate!Spec

=============================================================================
