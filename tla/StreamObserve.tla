---------------------------- MODULE StreamObserve ----------------------------
(***************************************************************************)
(* One streaming response, from the driver to the caller                   *)
(* (unigateway-core/src/engine/execution/support.rs, engine/reporting.rs   *)
(* and the drivers' streaming.rs).  Four actors share it:                  *)
(*                                                                         *)
(*  - the driver task parses upstream frames into a channel, closes it and *)
(*    sends its result through a oneshot;                                  *)
(*  - the forwarding task (observe_stream) tells the hooks of every chunk, *)
(*    passes it on to the caller's channel, and marks the stream drained   *)
(*    when either end of it is gone;                                       *)
(*  - the completion task (with_streaming_attempt_reports) waits for the   *)
(*    driver's result, then for the drain, then tells the final events,    *)
(*    settles the concurrency controller, sends the caller its result and  *)
(*    drops the slot;                                                      *)
(*  - the caller reads, stops reading, or turns to into_completion.        *)
(*                                                                         *)
(* The drain handshake is an atomic flag and a Notify.  Each access is a   *)
(* step: notify_waiters wakes only those registered by then.               *)
(***************************************************************************)
EXTENDS Naturals, Sequences

CONSTANT MaxChunks      \* bound: chunks the upstream may send

ASSUME ChunkBound == MaxChunks \in Nat

VARIABLES driver,       \* streaming, closed (the channel), done (the result sent)
          outcome,      \* the driver's result
          sent,         \* chunks the upstream sent
          detached,     \* downstream_detached: the driver has stopped forwarding
          inner,        \* the driver's channel
          forward,      \* where the forwarding task is
          carried,      \* the item it carries, if any
          chunk_count,  \* what record_chunk counted
          outer,        \* the caller's channel
          caller,       \* reading, completing (into_completion), gone
          received,     \* items the caller took from its stream
          drained_flag,
          woken,        \* the completion task's registration was notified
          finish,       \* where the completion task is
          report,       \* the chunk count of the stream report
          result,       \* what the caller's completion handle holds
          slot          \* the AIMD guard is alive

vars == <<driver, outcome, sent, detached, inner, forward, carried, chunk_count, outer,
          caller, received, drained_flag, woken, finish, report, result, slot>>

upstreamVars == <<driver, outcome, sent, detached>>
forwardVars == <<forward, carried, chunk_count>>
callerVars == <<caller, received>>
finishVars == <<finish, report, result, slot>>

(* Items of the channels: the k-th chunk is k, an Err item is Error.       *)
Error == 0

(* observe_stream_outcome has told on_stream_started and spawned the tasks. *)
Init ==
    /\ driver = "streaming" /\ outcome = "none" /\ sent = 0 /\ detached = FALSE
    /\ inner = <<>> /\ forward = "waiting" /\ carried = <<>> /\ chunk_count = 0
    /\ outer = <<>> /\ caller = "reading" /\ received = <<>>
    /\ drained_flag = FALSE /\ woken = FALSE
    /\ finish = "awaiting" /\ report = 0 /\ result = "none" /\ slot = TRUE
-----------------------------------------------------------------------------
(* The driver.  Its channel's receiver lives as long as the forwarding task. *)

Listened == forward # "over"

DriverChunk ==
    /\ driver = "streaming" /\ sent < MaxChunks
    /\ sent' = sent + 1
    /\ IF detached \/ ~ Listened
       THEN detached' = TRUE /\ UNCHANGED inner
       ELSE inner' = Append(inner, sent + 1) /\ UNCHANGED detached
    /\ UNCHANGED <<driver, outcome, forwardVars, outer, callerVars, drained_flag, woken, finishVars>>

(* [DONE], or the end of the body.                                         *)
DriverSucceed ==
    /\ driver = "streaming"
    /\ driver' = "closed" /\ outcome' = "ok"
    /\ UNCHANGED <<sent, detached, inner, forwardVars, outer, callerVars, drained_flag, woken,
                   finishVars>>

(* A transport error is sent down the stream; a frame that does not parse, *)
(* or a driver that dies, only ends it.                                    *)
DriverFail ==
    /\ driver = "streaming"
    /\ driver' = "closed" /\ outcome' = "failed"
    /\ \E tell \in BOOLEAN :
         inner' = IF tell /\ Listened THEN Append(inner, Error) ELSE inner
    /\ UNCHANGED <<sent, detached, forwardVars, outer, callerVars, drained_flag, woken, finishVars>>

DriverReturn ==
    /\ driver = "closed"
    /\ driver' = "done"
    /\ UNCHANGED <<outcome, sent, detached, inner, forwardVars, outer, callerVars, drained_flag,
                   woken, finishVars>>

Driver == DriverChunk \/ DriverSucceed \/ DriverFail \/ DriverReturn
-----------------------------------------------------------------------------
(* The forwarding task.                                                    *)

(* Take an item; a chunk is recorded and told to the hooks first.          *)
ForwardTake ==
    /\ forward = "waiting" /\ inner # <<>>
    /\ carried' = <<Head(inner)>> /\ inner' = Tail(inner)
    /\ chunk_count' = IF Head(inner) = Error THEN chunk_count ELSE chunk_count + 1
    /\ forward' = "sending"
    /\ UNCHANGED <<upstreamVars, outer, callerVars, drained_flag, woken, finishVars>>

\* Mutant: a failed send ends the task without marking the stream drained.
ForwardSendGivesUp ==
    /\ forward = "sending"
    /\ IF caller = "gone"
       THEN forward' = "over" /\ UNCHANGED outer
       ELSE forward' = "waiting" /\ outer' = outer \o carried
    /\ carried' = <<>>
    /\ UNCHANGED <<upstreamVars, inner, chunk_count, callerVars, drained_flag, woken, finishVars>>

ForwardSend ==
    /\ forward = "sending"
    /\ IF caller = "gone"
       THEN forward' = "marking" /\ UNCHANGED outer
       ELSE forward' = "waiting" /\ outer' = outer \o carried
    /\ carried' = <<>>
    /\ UNCHANGED <<upstreamVars, inner, chunk_count, callerVars, drained_flag, woken, finishVars>>

ForwardEnd ==
    /\ forward = "waiting" /\ inner = <<>> /\ driver # "streaming"
    /\ forward' = "marking"
    /\ UNCHANGED <<upstreamVars, inner, carried, chunk_count, outer, callerVars, drained_flag, woken,
                   finishVars>>

(* mark_drained: the flag, then the notification.                          *)
MarkFlag ==
    /\ forward = "marking"
    /\ forward' = "notifying" /\ drained_flag' = TRUE
    /\ UNCHANGED <<upstreamVars, inner, carried, chunk_count, outer, callerVars, woken, finishVars>>

MarkNotify ==
    /\ forward = "notifying"
    /\ forward' = "over" /\ woken' = (woken \/ finish = "waiting")
    /\ inner' = <<>>
    /\ UNCHANGED <<upstreamVars, carried, chunk_count, outer, callerVars, drained_flag, finishVars>>

Forward == ForwardTake \/ ForwardSend \/ ForwardEnd \/ MarkFlag \/ MarkNotify
-----------------------------------------------------------------------------
(* The completion task.                                                    *)

Step(from, to) == finish = from /\ finish' = to
OthersUntouched == UNCHANGED <<upstreamVars, inner, forwardVars, outer, callerVars, drained_flag>>

FinishAwait ==
    /\ driver = "done" /\ Step("awaiting", "checking")
    /\ OthersUntouched /\ UNCHANGED <<woken, report, result, slot>>

\* Mutant: the final events do not wait for the drain.
CheckNothing ==
    /\ Step("checking", "drained")
    /\ OthersUntouched /\ UNCHANGED <<woken, report, result, slot>>

(* wait_until_drained: the flag is read, then the waiter is registered.    *)
CheckDrained ==
    /\ Step("checking", IF drained_flag THEN "drained" ELSE "registering")
    /\ OthersUntouched /\ UNCHANGED <<woken, report, result, slot>>

RegisterWaiter ==
    /\ Step("registering", "waiting")
    /\ OthersUntouched /\ UNCHANGED <<woken, report, result, slot>>

Woken ==
    /\ woken /\ Step("waiting", "drained")
    /\ OthersUntouched /\ UNCHANGED <<woken, report, result, slot>>

(* The stream report is built, then the three final events are told.       *)
TellAttempt ==
    /\ Step("drained", "attempt_told")
    /\ report' = chunk_count
    /\ OthersUntouched /\ UNCHANGED <<woken, result, slot>>

TellStream ==
    /\ Step("attempt_told", "stream_told")
    /\ OthersUntouched /\ UNCHANGED <<woken, report, result, slot>>

TellRequest ==
    /\ Step("stream_told", "request_told")
    /\ OthersUntouched /\ UNCHANGED <<woken, report, result, slot>>

(* on_success or on_saturation, then the caller's completion handle.       *)
SendResult ==
    /\ Step("request_told", "result_sent")
    /\ result' = outcome
    /\ OthersUntouched /\ UNCHANGED <<woken, report, slot>>

DropSlot ==
    /\ Step("result_sent", "over")
    /\ slot' = FALSE
    /\ OthersUntouched /\ UNCHANGED <<woken, report, result>>

Finish == \/ FinishAwait \/ CheckDrained \/ RegisterWaiter \/ Woken
          \/ TellAttempt \/ TellStream \/ TellRequest \/ SendResult \/ DropSlot
-----------------------------------------------------------------------------
(* The caller, who need not do anything.                                   *)

Read ==
    /\ caller = "reading" /\ outer # <<>>
    /\ received' = Append(received, Head(outer)) /\ outer' = Tail(outer)
    /\ UNCHANGED <<upstreamVars, inner, forwardVars, caller, drained_flag, woken, finishVars>>

(* ... or drops the stream, or the future of into_completion.              *)
DropStream ==
    /\ caller \in {"reading", "completing"}
    /\ caller' = "gone" /\ outer' = <<>>
    /\ UNCHANGED <<upstreamVars, inner, forwardVars, received, drained_flag, woken, finishVars>>

(* into_completion binds the stream to a local, which lives as long as the *)
(* call: until the result is there.                                        *)
IntoCompletion ==
    /\ caller = "reading"
    /\ caller' = "completing"
    /\ UNCHANGED <<upstreamVars, inner, forwardVars, outer, received, drained_flag, woken, finishVars>>

CompletionReturns ==
    /\ caller = "completing" /\ result # "none"
    /\ caller' = "gone" /\ outer' = <<>>
    /\ UNCHANGED <<upstreamVars, inner, forwardVars, received, drained_flag, woken, finishVars>>

Caller == Read \/ DropStream \/ IntoCompletion \/ CompletionReturns

Next == Driver \/ Forward \/ Finish \/ Caller

(* The tasks are polled, hooks return, and the upstream's body ends.       *)
Fairness == WF_vars(Driver) /\ WF_vars(Forward) /\ WF_vars(Finish)

Spec == Init /\ [][Next]_vars

FairSpec == Spec /\ Fairness
-----------------------------------------------------------------------------
FinishPlaces == {"awaiting", "checking", "registering", "waiting", "drained", "attempt_told",
                 "stream_told", "request_told", "result_sent", "over"}

(* The host sees the stream as StreamLifecycle promises it: chunk events   *)
(* first, however slow its hooks are, and a report that counts them all.   *)
Lifecycle == INSTANCE StreamLifecycle WITH
    phase <- CASE finish \in {"attempt_told", "stream_told", "request_told"} -> finish
               [] finish = "result_sent" -> "request_told"
               [] finish = "over" -> "released"
               [] OTHER -> "open",
    chunks <- chunk_count,
    reported <- IF finish \in {"stream_told", "request_told", "result_sent", "over"}
                THEN report ELSE 0

FollowsLifecycle == [][Lifecycle!Next]_(Lifecycle!vars)

(* A caller that keeps reading misses nothing: what the driver sent is     *)
(* received, on its way, in order and once; when its result arrives every  *)
(* item has reached its channel, and the host is told as many chunks as    *)
(* the upstream sent.                                                      *)
NothingLost ==
    /\ caller # "gone" =>
         LET all == received \o outer \o carried \o inner
         IN  /\ \A k \in 1 .. sent : k \in DOMAIN all /\ all[k] = k
             /\ result # "none" => carried = <<>> /\ inner = <<>>
    /\ (finish \in {"stream_told", "request_told"} /\ caller = "reading") => report = sent

(* The completion task ends, whoever reads or leaves, except when the      *)
(* drain was announced between its look at the flag and its registration.  *)
HangsOnlyOnLostWakeup ==
    <>(finish = "over") \/ <>[](finish = "waiting" /\ drained_flag /\ ~ woken)
=============================================================================
