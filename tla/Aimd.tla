-------------------------------- MODULE Aimd --------------------------------
(***************************************************************************)
(* The AIMD concurrency controller of one endpoint                         *)
(* (unigateway-core/src/engine/aimd.rs), shared by every attempt on it.    *)
(*                                                                         *)
(* All its fields are atomics and no lock is taken, so every load, store   *)
(* and compare-exchange is a step of its own, and the steps of the         *)
(* attempts (threads) interleave.  A compare_exchange_weak that fails      *)
(* spuriously reloads an unchanged value: it is a stuttering step.  Loads  *)
(* return the last value stored (the model is sequentially consistent).    *)
(*                                                                         *)
(* An attempt acquires a slot, reports at most one outcome (on_success or  *)
(* on_saturation) while it holds the guard, then drops the guard, as the   *)
(* callers do (engine/execution/fallback.rs, engine/reporting.rs).         *)
(***************************************************************************)
EXTENDS Integers, FiniteSets

CONSTANTS Threads,             \* the attempts on the endpoint
          InitialConcurrency,  \* AdaptiveConcurrencyConfig
          MaxConcurrency,
          MinConcurrency,
          CooldownMs,
          HardLimits,          \* the static caps a pool may give the endpoint
          NoHardLimit,         \* max_concurrency is None
          MaxTime              \* bound: the clock stops here

(* The engine always builds the controller with the default configuration  *)
(* (10, 100, 2, 1000), which satisfies these.                              *)
ASSUME AimdConfig ==
    /\ MinConcurrency \in Nat /\ InitialConcurrency \in Nat /\ MaxConcurrency \in Nat
    /\ MinConcurrency <= InitialConcurrency
    /\ InitialConcurrency <= MaxConcurrency
    /\ CooldownMs \in Nat
    /\ HardLimits \subseteq Nat
    /\ MaxTime \in Nat

ASSUME ThreadsFinite == IsFiniteSet(Threads)

VARIABLES current_limit, ssthresh, active_connections, cooldown_until,
          now,          \* the wall clock
          pc,           \* where each attempt is
          hard,         \* the static cap it acquires under
          seen_active,  \* its copy of active_connections
          seen_limit,   \* its copy of current_limit (capped while acquiring)
          seen_ssthresh,
          seen_now      \* the time its outcome was reported at

shared == <<current_limit, ssthresh, active_connections, cooldown_until>>
locals == <<hard, seen_active, seen_limit, seen_ssthresh, seen_now>>
vars == <<current_limit, ssthresh, active_connections, cooldown_until, now, pc,
          hard, seen_active, seen_limit, seen_ssthresh, seen_now>>

Acquiring == {"acq_limit", "acq_cas"}
InSuccess == {"succ_check", "succ_limit", "succ_ssthresh", "succ_cas"}
InSaturation == {"sat_check", "sat_limit", "sat_ssthresh", "sat_cas", "sat_cooldown"}
Holding == {"held", "settled"} \union InSuccess \union InSaturation

Holders == {t \in Threads : pc[t] \in Holding}

Go(t, from, to) == pc[t] = from /\ pc' = [pc EXCEPT ![t] = to]

(* The attempt is over: its copies are gone.                               *)
Forget(t) ==
    /\ hard' = [hard EXCEPT ![t] = NoHardLimit]
    /\ seen_active' = [seen_active EXCEPT ![t] = 0]
    /\ seen_limit' = [seen_limit EXCEPT ![t] = 0]
    /\ seen_ssthresh' = [seen_ssthresh EXCEPT ![t] = 0]
    /\ seen_now' = [seen_now EXCEPT ![t] = 0]

AtMost(a, b) == IF a <= b THEN a ELSE b
AtLeast(a, b) == IF a >= b THEN a ELSE b

-----------------------------------------------------------------------------
(* The arithmetic of the controller.                                       *)

EffectiveLimit(limit, cap) ==
    IF cap = NoHardLimit THEN limit ELSE AtMost(limit, cap)

\* Mutant: the additive increase is not capped.
RaisedUncapped(limit, thresh) == limit + 1

(* Slow start up to ssthresh, additive increase above it.                  *)
Raised(limit, thresh) ==
    IF limit < thresh THEN AtMost(limit + 1, thresh)
                      ELSE AtMost(limit + 1, MaxConcurrency)

Halved(limit) == AtLeast(limit \div 2, MinConcurrency)
-----------------------------------------------------------------------------
Init ==
    /\ current_limit = InitialConcurrency
    /\ ssthresh = MaxConcurrency
    /\ active_connections = 0
    /\ cooldown_until = 0
    /\ now \in 0 .. MaxTime
    /\ pc = [t \in Threads |-> "idle"]
    /\ hard = [t \in Threads |-> NoHardLimit]
    /\ seen_active = [t \in Threads |-> 0]
    /\ seen_limit = [t \in Threads |-> 0]
    /\ seen_ssthresh = [t \in Threads |-> 0]
    /\ seen_now = [t \in Threads |-> 0]

Tick == /\ now < MaxTime
        /\ now' = now + 1
        /\ UNCHANGED <<shared, pc, locals>>

-----------------------------------------------------------------------------
(* acquire: load the count, load the limit once, then compare-exchange the *)
(* count until it is taken or the count has reached that limit.            *)

AcquireLoadActive(t) ==
    /\ Go(t, "idle", "acq_limit")
    /\ \E cap \in HardLimits \union {NoHardLimit} : hard' = [hard EXCEPT ![t] = cap]
    /\ seen_active' = [seen_active EXCEPT ![t] = active_connections]
    /\ UNCHANGED <<shared, now, seen_limit, seen_ssthresh, seen_now>>

AcquireLoadLimit(t) ==
    /\ Go(t, "acq_limit", "acq_cas")
    /\ seen_limit' = [seen_limit EXCEPT ![t] = EffectiveLimit(current_limit, hard[t])]
    /\ UNCHANGED <<shared, now, hard, seen_active, seen_ssthresh, seen_now>>

AcquireRefused(t) ==
    /\ seen_active[t] >= seen_limit[t]
    /\ Go(t, "acq_cas", "idle")
    /\ Forget(t)
    /\ UNCHANGED <<shared, now>>

\* Mutant: the slot is taken with fetch_add after the check.
AcquireFetchAdd(t) ==
    /\ seen_active[t] < seen_limit[t]
    /\ Go(t, "acq_cas", "held")
    /\ active_connections' = active_connections + 1
    /\ UNCHANGED <<current_limit, ssthresh, cooldown_until, now, locals>>

AcquireCasOk(t) ==
    /\ seen_active[t] < seen_limit[t]
    /\ active_connections = seen_active[t]
    /\ Go(t, "acq_cas", "held")
    /\ active_connections' = seen_active[t] + 1
    /\ UNCHANGED <<current_limit, ssthresh, cooldown_until, now, locals>>

AcquireCasFail(t) ==
    /\ seen_active[t] < seen_limit[t]
    /\ active_connections # seen_active[t]
    /\ pc[t] = "acq_cas"
    /\ seen_active' = [seen_active EXCEPT ![t] = active_connections]
    /\ UNCHANGED <<shared, now, pc, hard, seen_limit, seen_ssthresh, seen_now>>

\* Mutant: an explicit release, and the guard's drop after it.
ReleaseTwice(t) ==
    /\ pc[t] \in {"held", "settled"}
    /\ pc' = [pc EXCEPT ![t] = "idle"]
    /\ active_connections' = active_connections - 2
    /\ Forget(t)
    /\ UNCHANGED <<current_limit, ssthresh, cooldown_until, now>>

\* Mutant: the slot is written back from a stale copy of the count.
ReleaseStale(t) ==
    /\ pc[t] \in {"held", "settled"}
    /\ pc' = [pc EXCEPT ![t] = "idle"]
    /\ active_connections' = seen_active[t]
    /\ Forget(t)
    /\ UNCHANGED <<current_limit, ssthresh, cooldown_until, now>>

(* release, run once when the AimdGuard is dropped: with an outcome        *)
(* reported, or with none (an error that is no saturation, a cancelled     *)
(* request, a missing driver).                                             *)
Release(t) ==
    /\ pc[t] \in {"held", "settled"}
    /\ pc' = [pc EXCEPT ![t] = "idle"]
    /\ active_connections' = active_connections - 1
    /\ Forget(t)
    /\ UNCHANGED <<current_limit, ssthresh, cooldown_until, now>>
-----------------------------------------------------------------------------
(* on_success                                                              *)

SuccessNow(t) ==
    /\ Go(t, "held", "succ_check")
    /\ seen_now' = [seen_now EXCEPT ![t] = now]
    /\ UNCHANGED <<shared, now, hard, seen_active, seen_limit, seen_ssthresh>>

SuccessCheck(t) ==
    /\ Go(t, "succ_check", IF seen_now[t] < cooldown_until THEN "settled" ELSE "succ_limit")
    /\ UNCHANGED <<shared, now, locals>>

SuccessLoadLimit(t) ==
    /\ Go(t, "succ_limit", "succ_ssthresh")
    /\ seen_limit' = [seen_limit EXCEPT ![t] = current_limit]
    /\ UNCHANGED <<shared, now, hard, seen_active, seen_ssthresh, seen_now>>

SuccessLoadSsthresh(t) ==
    /\ Go(t, "succ_ssthresh", "succ_cas")
    /\ seen_ssthresh' = [seen_ssthresh EXCEPT ![t] = ssthresh]
    /\ UNCHANGED <<shared, now, hard, seen_active, seen_limit, seen_now>>

SuccessAtCap(t) ==
    /\ Raised(seen_limit[t], seen_ssthresh[t]) = seen_limit[t]
    /\ Go(t, "succ_cas", "settled")
    /\ UNCHANGED <<shared, now, locals>>

\* Mutant: a plain store instead of the compare-exchange.
SuccessStore(t) ==
    /\ Raised(seen_limit[t], seen_ssthresh[t]) # seen_limit[t]
    /\ Go(t, "succ_cas", "settled")
    /\ current_limit' = Raised(seen_limit[t], seen_ssthresh[t])
    /\ UNCHANGED <<ssthresh, active_connections, cooldown_until, now, locals>>

SuccessCasOk(t) ==
    /\ Raised(seen_limit[t], seen_ssthresh[t]) # seen_limit[t]
    /\ current_limit = seen_limit[t]
    /\ Go(t, "succ_cas", "settled")
    /\ current_limit' = Raised(seen_limit[t], seen_ssthresh[t])
    /\ UNCHANGED <<ssthresh, active_connections, cooldown_until, now, locals>>

SuccessCasFail(t) ==
    /\ Raised(seen_limit[t], seen_ssthresh[t]) # seen_limit[t]
    /\ current_limit # seen_limit[t]
    /\ pc[t] = "succ_cas"
    /\ seen_limit' = [seen_limit EXCEPT ![t] = current_limit]
    /\ UNCHANGED <<shared, now, pc, hard, seen_active, seen_ssthresh, seen_now>>
-----------------------------------------------------------------------------
(* on_saturation: one compare-exchange, whose failure is ignored.          *)

SaturationNow(t) ==
    /\ Go(t, "held", "sat_check")
    /\ seen_now' = [seen_now EXCEPT ![t] = now]
    /\ UNCHANGED <<shared, now, hard, seen_active, seen_limit, seen_ssthresh>>

SaturationCheck(t) ==
    /\ Go(t, "sat_check", IF seen_now[t] < cooldown_until THEN "settled" ELSE "sat_limit")
    /\ UNCHANGED <<shared, now, locals>>

SaturationLoadLimit(t) ==
    /\ Go(t, "sat_limit", "sat_ssthresh")
    /\ seen_limit' = [seen_limit EXCEPT ![t] = current_limit]
    /\ UNCHANGED <<shared, now, hard, seen_active, seen_ssthresh, seen_now>>

SaturationStoreSsthresh(t) ==
    /\ Go(t, "sat_ssthresh", "sat_cas")
    /\ ssthresh' = Halved(seen_limit[t])
    /\ UNCHANGED <<current_limit, active_connections, cooldown_until, now, locals>>

SaturationCas(t) ==
    /\ Go(t, "sat_cas", "sat_cooldown")
    /\ current_limit' = IF current_limit = seen_limit[t]
                        THEN Halved(seen_limit[t]) ELSE current_limit
    /\ UNCHANGED <<ssthresh, active_connections, cooldown_until, now, locals>>

SaturationStoreCooldown(t) ==
    /\ Go(t, "sat_cooldown", "settled")
    /\ cooldown_until' = seen_now[t] + CooldownMs
    /\ UNCHANGED <<current_limit, ssthresh, active_connections, now, locals>>
-----------------------------------------------------------------------------
Acquire(t) == \/ AcquireLoadActive(t) \/ AcquireLoadLimit(t) \/ AcquireRefused(t)
              \/ AcquireCasOk(t) \/ AcquireCasFail(t)

OnSuccess(t) == \/ SuccessNow(t) \/ SuccessCheck(t) \/ SuccessLoadLimit(t)
                \/ SuccessLoadSsthresh(t) \/ SuccessAtCap(t)
                \/ SuccessCasOk(t) \/ SuccessCasFail(t)

OnSaturation(t) == \/ SaturationNow(t) \/ SaturationCheck(t) \/ SaturationLoadLimit(t)
                   \/ SaturationStoreSsthresh(t) \/ SaturationCas(t)
                   \/ SaturationStoreCooldown(t)

Attempt(t) == Acquire(t) \/ Release(t) \/ OnSuccess(t) \/ OnSaturation(t)

Next == Tick \/ \E t \in Threads : Attempt(t)

Spec == Init /\ [][Next]_vars
-----------------------------------------------------------------------------
PCs == {"idle"} \union Acquiring \union Holding

TypeOK ==
    /\ current_limit \in Nat
    /\ ssthresh \in Nat
    /\ active_connections \in Nat      \* the usize counter never wraps below 0
    /\ cooldown_until \in Nat
    /\ now \in 0 .. MaxTime
    /\ pc \in [Threads -> PCs]
    /\ hard \in [Threads -> HardLimits \union {NoHardLimit}]
    /\ seen_active \in [Threads -> Nat]
    /\ seen_limit \in [Threads -> Nat]
    /\ seen_ssthresh \in [Threads -> Nat]
    /\ seen_now \in [Threads -> Nat]

(* No slot leaks and none is given back twice: whatever the interleaving   *)
(* of compare-exchanges and guard drops, the counter is the number of live *)
(* guards (aimd.rs acquire/release/Drop).                                  *)
SlotsAccounted == active_connections = Cardinality(Holders)

(* Racing increases and decreases computed from stale copies never push    *)
(* the limit or the slow-start threshold outside the configured range.     *)
LimitsWithinConfig ==
    /\ current_limit \in MinConcurrency .. MaxConcurrency
    /\ ssthresh \in MinConcurrency .. MaxConcurrency

(* Attempts admitted under an older, larger limit may outlive a decrease,  *)
(* but the endpoint never carries more than max_concurrency attempts.      *)
ActiveBounded == active_connections <= MaxConcurrency

(* "It is a hard upper bound": the admission that takes the last slot      *)
(* still leaves the count within the static cap it was made under, even    *)
(* when other attempts acquire between its check and its exchange.         *)
HardCapRespected ==
    [][\A t \in Threads :
         (pc[t] = "acq_cas" /\ pc'[t] = "held" /\ hard[t] # NoHardLimit)
            => active_connections' <= hard[t]]_vars

(* No update of the limit is lost or applied to a value it was not         *)
(* computed from: each change is one additive increase or one halving of   *)
(* the value it replaces.                                                  *)
LimitMovesByOneRule ==
    [][\/ current_limit' = current_limit + 1
       \/ current_limit' = Halved(current_limit)]_current_limit

Gate == INSTANCE ConcurrencyGate WITH Capacity <- MaxConcurrency, holders <- Holders

(* The controller implements the gate the engine relies on.                *)
GateSpec == Gate!Spec

=============================================================================
