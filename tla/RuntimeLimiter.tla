---------------------------- MODULE RuntimeLimiter ----------------------------
(***************************************************************************)
(* The runtime limits of one gateway API key                               *)
(* (unigateway-config/src/runtime.rs): a token bucket that lets a request  *)
(* sleep until its token is there, a cap on the requests in flight, and a  *)
(* queue of waiters behind it.  The host acquires before it calls the      *)
(* engine and releases afterwards.                                         *)
(*                                                                         *)
(* The bucket and the counters are behind one mutex; each locked section   *)
(* is a step.  Between them requests sleep, wait on a tokio Notify, and    *)
(* may be dropped at any await.  Notify keeps its waiters in order and at  *)
(* most one permit for a notify_one that found none; a waiter dropped      *)
(* after it was notified, and before it looked, passes the notice on.      *)
(*                                                                         *)
(* Keys share nothing but the count of sleepers.  Time passes in ticks of  *)
(* the time one token takes to come back (1/qps).                          *)
(***************************************************************************)
EXTENDS Integers, Sequences, FiniteSets, SequencesExt

CONSTANTS Requests,
          ApiKeys,       \* the definitions of the key a request may come with:
                         \* [qps, limit], whether it has a qps_limit, and its
                         \* concurrency_limit
          NoLimit,       \* concurrency_limit is None (or not positive)
          Burst,         \* the bucket's size
          ShapingTicks,  \* QPS_SHAPING_TIMEOUT
          MaxSleepers,   \* MAX_QPS_SLEEPERS
          MaxQueue,      \* MAX_QUEUE_PER_KEY
          MaxTime        \* bound: the clock stops here

ASSUME LimiterConfig ==
    /\ Burst \in Nat \ {0} /\ ShapingTicks \in Nat
    /\ MaxSleepers \in Nat /\ MaxQueue \in Nat /\ MaxTime \in Nat
    /\ \A key \in ApiKeys : key.qps \in BOOLEAN /\ key.limit \in (Nat \ {0}) \union {NoLimit}
    /\ IsFiniteSet(Requests)

VARIABLES now,
          known,                 \* the key has its RuntimeRateState
          tokens, last_update,   \* the bucket
          in_flight, in_queue,   \* the counters
          permit, waiters,       \* the Notify
          sleepers,              \* QPS_SLEEPERS_COUNT
          req,                   \* where each request is
          granted                \* history: the instants tokens were granted for

vars == <<now, known, tokens, last_update, in_flight, in_queue, permit, waiters, sleepers, req, granted>>
bucket == <<known, tokens, last_update, granted>>
counters == <<in_flight, in_queue>>
notify == <<permit, waiters>>

Idle == [at |-> "idle", limit |-> NoLimit, due |-> 0, late |-> FALSE]

Init == /\ now = 0
        /\ known = FALSE /\ tokens = 0 /\ last_update = 0
        /\ in_flight = 0 /\ in_queue = 0
        /\ permit = FALSE /\ waiters = <<>>
        /\ sleepers = 0
        /\ req = [r \in Requests |-> Idle]
        /\ granted = <<>>

Tick == /\ now < MaxTime
        /\ now' = now + 1
        /\ UNCHANGED <<bucket, counters, notify, sleepers, req>>

Go(r, from, to) == req[r].at = from /\ req' = [req EXCEPT ![r].at = to]
Rest(place) == [Idle EXCEPT !.at = place]          \* what the request knew is gone
Settle(r, from, to) == req[r].at = from /\ req' = [req EXCEPT ![r] = Rest(to)]
Leave(r) == req' = [req EXCEPT ![r] = Idle]
-----------------------------------------------------------------------------
(* The token bucket.  A request that finds no token borrows one that comes *)
(* back within the shaping time, and sleeps until then.                    *)

(* or_insert_with: the first request of the key fills the bucket, if it    *)
(* has a rate at all.                                                      *)
Found(key) ==
    IF known THEN [tokens |-> tokens, last_update |-> last_update]
    ELSE [tokens |-> IF key.qps THEN Burst ELSE 0, last_update |-> now]

\* Mutant: idle time is credited without bound.
RefilledUnbounded(key) == Found(key).tokens + (now - Found(key).last_update)

Refilled(key) == Min({Found(key).tokens + (now - Found(key).last_update), Burst})

Grant(t) == granted' = Append(granted, t)

(* Bound: no token is borrowed that comes back after the clock stops.      *)
Ask(r) ==
    /\ req[r].at = "idle"
    /\ known' = TRUE
    /\ \E key \in ApiKeys :
         LET wait == 1 - Refilled(key)
             Move(to, due) == req' = [req EXCEPT ![r] =
                                [at |-> to, limit |-> key.limit, due |-> due, late |-> FALSE]]
         IN  \/ /\ ~ key.qps
                /\ tokens' = Found(key).tokens /\ last_update' = Found(key).last_update
                /\ Move("shaped", 0) /\ UNCHANGED granted
             \/ /\ key.qps /\ last_update' = now
                /\ \/ /\ wait <= 0
                      /\ tokens' = Refilled(key) - 1 /\ Grant(now)
                      /\ Move("shaped", 0)
                   \/ /\ wait \in 1 .. ShapingTicks /\ now + wait <= MaxTime
                      /\ tokens' = Refilled(key) - 1 /\ Grant(now + wait)
                      /\ Move("borrowed", now + wait)
                   \/ /\ wait > ShapingTicks                     \* QpsWaitTooLong
                      /\ tokens' = Refilled(key)
                      /\ UNCHANGED <<req, granted>>
    /\ UNCHANGED <<now, counters, notify, sleepers>>

(* fetch_add returns the count before it: one more than the bound sleep.   *)
FallAsleep(r) ==
    /\ Go(r, "borrowed", IF sleepers > MaxSleepers THEN "turned_away" ELSE "sleeping")
    /\ sleepers' = sleepers + 1
    /\ UNCHANGED <<now, bucket, counters, notify>>

TurnedAway(r) ==                                                 \* TooManyQpsSleepers
    /\ req[r].at = "turned_away"
    /\ Leave(r)
    /\ sleepers' = sleepers - 1
    /\ UNCHANGED <<now, bucket, counters, notify>>

WakeUp(r) ==
    /\ req[r].at = "sleeping" /\ now >= req[r].due
    /\ req' = [req EXCEPT ![r].at = "shaped", ![r].due = 0]
    /\ sleepers' = sleepers - 1
    /\ UNCHANGED <<now, bucket, counters, notify>>
-----------------------------------------------------------------------------
(* The cap on the requests in flight.                                      *)

Full(r) == req[r].limit # NoLimit /\ in_flight >= req[r].limit

Enter(r) ==
    /\ ~ Full(r)
    /\ Settle(r, "shaped", "holding")
    /\ in_flight' = in_flight + 1
    /\ UNCHANGED <<now, bucket, in_queue, notify, sleepers>>

QueueUp(r) ==
    /\ Full(r) /\ in_queue < MaxQueue
    /\ Go(r, "shaped", "queued")
    /\ in_queue' = in_queue + 1
    /\ UNCHANGED <<now, bucket, in_flight, notify, sleepers>>

QueueRefused(r) ==                                               \* QueueDepthExceeded
    /\ req[r].at = "shaped" /\ Full(r) /\ in_queue >= MaxQueue
    /\ Leave(r)
    /\ UNCHANGED <<now, bucket, counters, notify, sleepers>>

(* The first poll of notified(): it takes the permit, or its place.        *)
AwaitNotice(r) ==
    /\ ~ req[r].late
    /\ Go(r, "queued", IF permit THEN "woken" ELSE "waiting")
    /\ permit' = FALSE
    /\ waiters' = IF permit THEN waiters ELSE Append(waiters, r)
    /\ UNCHANGED <<now, bucket, counters, sleepers>>

SeeNotice(r) ==
    /\ Go(r, "notified", "woken")
    /\ UNCHANGED <<now, bucket, counters, notify, sleepers>>

\* Mutant: a waiter that was notified does not look at the count again.
TakeOverBlindly(r) ==
    /\ Settle(r, "woken", "holding")
    /\ in_queue' = in_queue - 1 /\ in_flight' = in_flight + 1
    /\ UNCHANGED <<now, bucket, notify, sleepers>>

(* A waiter that was notified competes with those who come in meanwhile.   *)
TakeOver(r) ==
    /\ ~ Full(r)
    /\ Settle(r, "woken", "holding")
    /\ in_queue' = (IF in_queue > 0 THEN in_queue - 1 ELSE in_queue) /\ in_flight' = in_flight + 1
    /\ UNCHANGED <<now, bucket, notify, sleepers>>

WaitAgain(r) ==
    /\ Full(r)
    /\ Go(r, "woken", "queued")
    /\ UNCHANGED <<now, bucket, counters, notify, sleepers>>
-----------------------------------------------------------------------------
(* CONCURRENCY_QUEUE_TIMEOUT passes at some instant of the wait.  It is    *)
(* looked at before every wait, and ends a wait that got no notice.        *)

Queueing == {"queued", "waiting", "notified", "woken"}

Expire(r) ==
    /\ req[r].at \in Queueing /\ ~ req[r].late
    /\ req' = [req EXCEPT ![r].late = TRUE]
    /\ UNCHANGED <<now, bucket, counters, notify, sleepers>>

(* A dropped Notified future leaves the list of waiters.                   *)
Unlist(r) ==
    IF req[r].at = "waiting"
    THEN \E i \in DOMAIN waiters : waiters[i] = r /\ waiters' = RemoveAt(waiters, i)
    ELSE UNCHANGED waiters

\* Mutant: the wait itself has no timeout.
TimeOutBeforeWait(r) ==
    /\ req[r].late
    /\ Settle(r, "queued", "timed_out")
    /\ UNCHANGED <<now, bucket, counters, notify, sleepers>>

TimeOut(r) ==
    /\ req[r].late /\ req[r].at \in {"queued", "waiting"}
    /\ req' = [req EXCEPT ![r] = Rest("timed_out")]
    /\ Unlist(r)
    /\ UNCHANGED <<now, bucket, counters, permit, sleepers>>

\* Mutant: a request that timed out keeps its place.
RemoveNothing(r) ==
    /\ req[r].at = "timed_out"
    /\ Leave(r)
    /\ UNCHANGED <<now, bucket, counters, notify, sleepers>>

RemoveQueued(r) ==                                               \* QueueTimeout
    /\ req[r].at = "timed_out"
    /\ Leave(r)
    /\ in_queue' = IF in_queue > 0 THEN in_queue - 1 ELSE in_queue
    /\ UNCHANGED <<now, bucket, in_flight, notify, sleepers>>
-----------------------------------------------------------------------------
(* notify_one, when the caller has changed req to base.                    *)
NotifyOne(base) ==
    IF waiters = <<>>
    THEN permit' = TRUE /\ req' = base /\ UNCHANGED waiters
    ELSE /\ waiters' = Tail(waiters)
         /\ req' = [base EXCEPT ![Head(waiters)].at = "notified"]
         /\ UNCHANGED permit

(* release_api_key_inflight, called once by the host for each success.     *)
Release(r) ==
    /\ req[r].at = "holding"
    /\ in_flight' = IF in_flight > 0 THEN in_flight - 1 ELSE in_flight
    /\ LET left == [req EXCEPT ![r] = Idle]
       IN  IF in_queue > 0 THEN NotifyOne(left) ELSE req' = left /\ UNCHANGED notify
    /\ UNCHANGED <<now, bucket, in_queue, sleepers>>

(* The host drops the future of acquire_runtime_limit: nothing runs but    *)
(* the drop of the Notified future.  The request stays where its share of  *)
(* a counter does.                                                         *)
Cancel(r) ==
    /\ \/ /\ req[r].at = "shaped"
          /\ Leave(r) /\ UNCHANGED notify
       \/ Settle(r, "sleeping", "dropped_asleep") /\ UNCHANGED notify
       \/ /\ req[r].at \in {"waiting", "woken", "timed_out"}
          /\ req' = [req EXCEPT ![r] = Rest("dropped_queued")]
          /\ Unlist(r)
          /\ UNCHANGED permit
       \/ /\ req[r].at = "notified"
          /\ NotifyOne([req EXCEPT ![r] = Rest("dropped_queued")])
    /\ UNCHANGED <<now, bucket, counters, sleepers>>

Progress(r) ==
    \/ FallAsleep(r) \/ TurnedAway(r) \/ WakeUp(r)
    \/ Enter(r) \/ QueueUp(r) \/ QueueRefused(r)
    \/ AwaitNotice(r) \/ SeeNotice(r) \/ TakeOver(r) \/ WaitAgain(r)
    \/ TimeOut(r) \/ RemoveQueued(r)

Next == Tick \/ \E r \in Requests :
            Ask(r) \/ Progress(r) \/ Expire(r) \/ Release(r) \/ Cancel(r)

(* Time passes, and the runtime polls whoever can go on; nothing makes a   *)
(* host release.                                                           *)
Fairness == /\ WF_vars(Tick)
            /\ \A r \in Requests : WF_vars(Progress(r)) /\ WF_vars(Expire(r))

Spec == Init /\ [][Next]_vars

FairSpec == Spec /\ Fairness
-----------------------------------------------------------------------------
Places == {"idle", "borrowed", "turned_away", "sleeping", "shaped", "holding", "timed_out",
           "dropped_asleep", "dropped_queued"} \union Queueing

At(places) == {r \in Requests : req[r].at \in places}

TypeOK ==
    /\ now \in 0 .. MaxTime /\ known \in BOOLEAN /\ last_update \in 0 .. now
    /\ tokens \in 0 - ShapingTicks .. Burst
    /\ in_flight \in Nat /\ in_queue \in Nat /\ sleepers \in Nat
    /\ permit \in BOOLEAN
    /\ \A r \in Requests : req[r].at \in Places
    /\ \A i \in DOMAIN waiters : req[waiters[i]].at = "waiting"
    /\ IsInjective(waiters) /\ At({"waiting"}) = ToSet(waiters)
    /\ granted \in Seq(0 .. MaxTime)

(* The traffic shaping of a key: in no stretch of time are more requests   *)
(* let through than a full bucket and the tokens that came back, sleepers  *)
(* at the instants they were told to wait for.  The limit on sleepers lets *)
(* one more in than it says, the one on the queue (docs/design/queue.md:32) *)
(* none.                                                                   *)
RateShaped ==
    /\ \A s \in 0 .. MaxTime : \A t \in s .. MaxTime :
         Cardinality({i \in DOMAIN granted : granted[i] \in s .. t}) <= Burst + (t - s)
    /\ Cardinality(At({"sleeping"})) <= MaxSleepers + 1
    /\ in_queue <= MaxQueue

(* The counters say who is inside, whatever the order of locked sections,  *)
(* notices and timeouts; only a request whose future was dropped stays     *)
(* counted where it was.                                                   *)
CountersExplained ==
    /\ in_flight = Cardinality(At({"holding"}))
    /\ in_queue = Cardinality(At(Queueing \union {"timed_out", "dropped_queued"}))
    /\ sleepers = Cardinality(At({"sleeping", "turned_away", "dropped_asleep"}))

(* A waiter that takes a freed slot over, and one that comes in first, are *)
(* both let in only below the concurrency_limit they came with.            *)
LimitsKept ==
    [][\A r \in Requests :
         (req[r].at # "holding" /\ req'[r].at = "holding" /\ req[r].limit # NoLimit)
            => in_flight' <= req[r].limit]_vars

Acquiring == Queueing \union {"borrowed", "turned_away", "sleeping", "shaped", "timed_out"}

(* Whoever asks is answered: let in, refused or timed out, even when its   *)
(* notice was lost to others and no host ever releases.                    *)
AcquireEnds == \A r \in Requests : (req[r].at \in Acquiring) ~> (req[r].at \notin Acquiring)
=============================================================================
