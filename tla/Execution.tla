------------------------------ MODULE Execution ------------------------------
(***************************************************************************)
(* The engine's execution loop (unigateway-core/src/engine/execution/      *)
(* fallback.rs with engine/reporting.rs): a request walks its ordered      *)
(* candidates, takes a concurrency slot on each, runs the driver, retries  *)
(* or gives up, and tells the host's hooks what happened.                  *)
(*                                                                         *)
(* Requests interleave at the awaits: the hooks, the driver, the backoff.  *)
(* The caller may drop the request's future at any of them (Cancel), which *)
(* releases the slot and runs nothing else.  A streaming response leaves   *)
(* the loop: its slot moves to a detached completion task (StreamObserve   *)
(* is its detail), which nobody cancels.                                   *)
(*                                                                         *)
(* The concurrency controllers are those of Aimd seen through the gate it  *)
(* implements: a slot is a guard, and the limit moves within its range.    *)
(***************************************************************************)
EXTENDS Naturals, Sequences, SequencesExt, FiniteSets

CONSTANTS Requests, Endpoints,
          Jobs,            \* what a request may ask for, see below
          Driverless,      \* endpoints whose driver is not registered
          UpstreamErrors,  \* how an attempt may fail
          HardLimit,       \* the static cap of each endpoint (large: none)
          MinConcurrency, MaxConcurrency,
          Nobody, NoError  \* no endpoint, no error

EngineErrors == {"pool_not_found", "no_endpoint", "saturated"}

(* A job is [order, strategy, retry_on]: the candidates selection found    *)
(* (EnginePools), the strategy and the retry conditions of their pool.     *)
ASSUME Configured ==
    /\ MinConcurrency \in Nat /\ MaxConcurrency \in Nat /\ MinConcurrency <= MaxConcurrency
    /\ HardLimit \in [Endpoints -> Nat]
    /\ \A job \in Jobs : job.order \in Seq(Endpoints) /\ job.order # <<>>
    /\ IsFiniteSet(Requests) /\ Nobody \notin Endpoints
    \* A driver fails with an error, and never with one that only the engine makes.
    /\ NoError \notin UpstreamErrors \union {"invalid"}
    /\ UpstreamErrors \intersect EngineErrors = {}

VARIABLES req,     \* the loop of each request
          guard,   \* the endpoint whose slot it holds
          limit,   \* current_limit of each endpoint's controller
          hooks    \* history: what the hooks were told of each request

vars == <<req, guard, limit, hooks>>
-----------------------------------------------------------------------------
(* is_saturation_error, should_retry_error and retry_condition_matches.    *)

Saturates(error) ==
    error \in {"status_429", "status_503", "timeout", "transport", "stream_aborted"}

Matches(condition, error) ==
    CASE condition = "status_429" -> error = "status_429"
      [] condition = "status_5xx" -> error \in {"status_500", "status_503"}
      [] condition = "timeout" -> error = "timeout"
      [] condition = "transport" -> error \in {"timeout", "transport", "stream_aborted"}

\* Mutant: Fallback retries on the retry conditions only.
ShouldRetryByCondition(job, error) ==
    \E condition \in job.retry_on : Matches(condition, error)

ShouldRetry(job, error) ==
    IF job.strategy = "Fallback"
    THEN error \notin EngineErrors
    ELSE \E condition \in job.retry_on : Matches(condition, error)
-----------------------------------------------------------------------------
Active(e) == Cardinality({r \in Requests : guard[r] = e})

EffectiveLimit(e) == Min({limit[e], HardLimit[e]})

(* on_success raises the limit by one, unless it is at its ceiling, which  *)
(* a past saturation may have lowered, or a cooldown runs; on_saturation   *)
(* halves it, unless a cooldown runs.                                      *)
MayRaise(e) ==
    \E l \in {limit[e], Min({limit[e] + 1, MaxConcurrency})} : limit' = [limit EXCEPT ![e] = l]
MayCut(e) ==
    \E l \in {limit[e], Max({limit[e] \div 2, MinConcurrency})} : limit' = [limit EXCEPT ![e] = l]

Candidate(r) == req[r].job.order[req[r].index + 1]     \* endpoints[attempt_index]

Tell(r, event) == hooks' = [hooks EXCEPT ![r] = Append(@, event)]
DropGuard(r) == guard' = [guard EXCEPT ![r] = Nobody]

Attempted(e, status, error) == [endpoint |-> e, status |-> status, error |-> error]
FinishedEvent(e, success) == [event |-> "attempt_finished", endpoint |-> e, success |-> success]
ReportEvent(attempts) == [event |-> "request_finished", attempts |-> attempts]

NoJob == [order |-> <<>>, strategy |-> "Fallback", retry_on |-> {}]

NotStarted == [at |-> "idle", job |-> NoJob, index |-> 0, attempts |-> <<>>, skipped |-> 0,
               last_error |-> NoError, result |-> "none"]

Init == /\ req = [r \in Requests |-> NotStarted]
        /\ guard = [r \in Requests |-> Nobody]
        /\ limit \in [Endpoints -> MinConcurrency .. MaxConcurrency]
        /\ hooks = [r \in Requests |-> <<>>]
-----------------------------------------------------------------------------
(* The snapshot was taken and ordered (EnginePools); the request starts.   *)
Start(r) ==
    /\ req[r].at = "idle"
    /\ \E job \in Jobs : req' = [req EXCEPT ![r].at = "scan", ![r].job = job]
    /\ Tell(r, [event |-> "request_started"])
    /\ UNCHANGED <<guard, limit>>

\* Mutant: the slot is taken without asking the controller.
AdmitUnchecked(r) ==
    /\ req[r].at = "scan" /\ req[r].index < Len(req[r].job.order)
    /\ guard' = [guard EXCEPT ![r] = Candidate(r)]
    /\ req' = [req EXCEPT ![r].at = "admitted"]
    /\ UNCHANGED <<limit, hooks>>

Admit(r) ==
    /\ req[r].at = "scan" /\ req[r].index < Len(req[r].job.order)
    /\ Active(Candidate(r)) < EffectiveLimit(Candidate(r))
    /\ guard' = [guard EXCEPT ![r] = Candidate(r)]
    /\ req' = [req EXCEPT ![r].at = "admitted"]
    /\ UNCHANGED <<limit, hooks>>

Refuse(r) ==
    /\ req[r].at = "scan" /\ req[r].index < Len(req[r].job.order)
    /\ Active(Candidate(r)) >= EffectiveLimit(Candidate(r))
    /\ req' = [req EXCEPT ![r].at = "refused"]
    /\ UNCHANGED <<guard, limit, hooks>>

Skip(r) ==
    /\ req[r].at = "refused"
    /\ Tell(r, [event |-> "attempt_skipped", endpoint |-> Candidate(r)])
    /\ req' = [req EXCEPT ![r].at = "scan", ![r].index = @ + 1, ![r].skipped = @ + 1]
    /\ UNCHANGED <<guard, limit>>

StartAttempt(r) ==
    /\ req[r].at = "admitted"
    /\ Tell(r, [event |-> "attempt_started", endpoint |-> Candidate(r),
                number |-> Len(req[r].attempts)])
    /\ req' = [req EXCEPT ![r].at = "executing"]
    /\ UNCHANGED <<guard, limit>>
-----------------------------------------------------------------------------
(* A failed attempt.  A missing driver ends the request at once; an        *)
(* upstream error is retried on the next candidate when the strategy or    *)
(* the retry conditions say so.  The guard is held through the backoff.    *)

DriverMissing(r) ==
    /\ req[r].at = "executing" /\ guard[r] \in Driverless
    /\ req' = [req EXCEPT ![r].at = "failing", ![r].last_error = "invalid",
                          ![r].attempts = Append(@, Attempted(guard[r], "Failed", "invalid"))]
    /\ Tell(r, FinishedEvent(guard[r], FALSE))
    /\ UNCHANGED <<guard, limit>>

\* Mutant: every retryable error is retried, the last candidate's too.
FailUpstreamPastEnd(r) ==
    /\ req[r].at = "executing" /\ guard[r] \notin Driverless
    /\ \E error \in UpstreamErrors :
         LET retry == ShouldRetry(req[r].job, error)
             status == IF retry THEN "Retried" ELSE "Failed"
         IN  /\ IF Saturates(error) THEN MayCut(guard[r]) ELSE UNCHANGED limit
             /\ req' = [req EXCEPT ![r].at = IF retry THEN "backing_off" ELSE "failing",
                                   ![r].last_error = error,
                                   ![r].attempts = Append(@, Attempted(guard[r], status, error))]
    /\ Tell(r, FinishedEvent(guard[r], FALSE))
    /\ UNCHANGED guard

FailUpstream(r) ==
    /\ req[r].at = "executing" /\ guard[r] \notin Driverless
    /\ \E error \in UpstreamErrors :
         LET retry == /\ req[r].index + 1 < Len(req[r].job.order)
                      /\ ShouldRetry(req[r].job, error)
             status == IF retry THEN "Retried" ELSE "Failed"
         IN  /\ IF Saturates(error) THEN MayCut(guard[r]) ELSE UNCHANGED limit
             /\ req' = [req EXCEPT ![r].at = IF retry THEN "backing_off" ELSE "failing",
                                   ![r].last_error = error,
                                   ![r].attempts = Append(@, Attempted(guard[r], status, error))]
    /\ Tell(r, FinishedEvent(guard[r], FALSE))
    /\ UNCHANGED guard

Backoff(r) ==
    /\ req[r].at = "backing_off"
    /\ req' = [req EXCEPT ![r].at = "scan", ![r].index = @ + 1]
    /\ DropGuard(r)
    /\ UNCHANGED <<limit, hooks>>

(* finalize_request_failure, which never sees an empty attempt list here.  *)
ReportFailure(r) ==
    /\ req[r].at = "failing"
    /\ Tell(r, ReportEvent(req[r].attempts))
    /\ req' = [req EXCEPT ![r].at = "failed"]
    /\ UNCHANGED <<guard, limit>>

\* Mutant: the failure path forgets the slot.
ReturnFailureLeaks(r) ==
    /\ req[r].at = "failed"
    /\ req' = [req EXCEPT ![r].at = "over", ![r].result = "AllAttemptsFailed"]
    /\ UNCHANGED <<guard, limit, hooks>>

ReturnFailure(r) ==
    /\ req[r].at = "failed"
    /\ req' = [req EXCEPT ![r].at = "over", ![r].result = "AllAttemptsFailed"]
    /\ DropGuard(r)
    /\ UNCHANGED <<limit, hooks>>

(* The candidates are used up.                                             *)
Exhausted(r) ==
    /\ req[r].at = "scan" /\ req[r].index = Len(req[r].job.order)
    /\ IF req[r].last_error # NoError
       THEN req' = [req EXCEPT ![r].at = "failing"]
       ELSE req' = [req EXCEPT ![r].at = "over", ![r].result =
                      IF req[r].attempts = <<>> /\ req[r].skipped > 0
                      THEN "AllEndpointsSaturated" ELSE "NoAvailableEndpoint"]
    /\ UNCHANGED <<guard, limit, hooks>>
-----------------------------------------------------------------------------
(* A completed response.                                                   *)

Complete(r) ==
    /\ req[r].at = "executing" /\ guard[r] \notin Driverless
    /\ req' = [req EXCEPT ![r].at = "completing",
                          ![r].attempts = Append(@, Attempted(guard[r], "Succeeded", NoError))]
    /\ Tell(r, FinishedEvent(guard[r], TRUE))
    /\ UNCHANGED <<guard, limit>>

ReportSuccess(r) ==
    /\ req[r].at = "completing"
    /\ Tell(r, ReportEvent(req[r].attempts))
    /\ req' = [req EXCEPT ![r].at = "completed"]
    /\ UNCHANGED <<guard, limit>>

ReturnSuccess(r) ==
    /\ req[r].at = "completed"
    /\ MayRaise(guard[r])
    /\ req' = [req EXCEPT ![r].at = "over", ![r].result = "Completed"]
    /\ DropGuard(r)
    /\ UNCHANGED hooks
-----------------------------------------------------------------------------
(* A streaming response: the caller gets the stream, the completion task   *)
(* gets the slot and the earlier attempts.                                 *)

OpenStream(r) ==
    /\ req[r].at = "executing" /\ guard[r] \notin Driverless
    /\ Tell(r, [event |-> "stream_started", endpoint |-> guard[r]])
    /\ req' = [req EXCEPT ![r].at = "opening"]
    /\ UNCHANGED <<guard, limit>>

ReturnStream(r) ==
    /\ req[r].at = "opening"
    /\ req' = [req EXCEPT ![r].at = "streaming", ![r].result = "Streaming"]
    /\ UNCHANGED <<guard, limit, hooks>>

\* Mutant: the completion task starts from an empty list of attempts.
EndStreamAlone(r) ==
    /\ req[r].at = "streaming"
    /\ \E error \in UpstreamErrors \union {NoError} :
         /\ req' = [req EXCEPT ![r].at = "stream_ended", ![r].last_error = error,
                               ![r].attempts = <<Attempted(Candidate(r),
                                    IF error = NoError THEN "Succeeded" ELSE "Failed", error)>>]
         /\ Tell(r, FinishedEvent(Candidate(r), error = NoError))
    /\ UNCHANGED <<guard, limit>>

(* The end of the stream, seen by the completion task: an error or none.   *)
EndStream(r) ==
    /\ req[r].at = "streaming"
    /\ \E error \in UpstreamErrors \union {NoError} :
         /\ req' = [req EXCEPT ![r].at = "stream_ended", ![r].last_error = error,
                               ![r].attempts = Append(@, Attempted(Candidate(r),
                                    IF error = NoError THEN "Succeeded" ELSE "Failed", error))]
         /\ Tell(r, FinishedEvent(Candidate(r), error = NoError))
    /\ UNCHANGED <<guard, limit>>

\* Mutant: the stream's report stands for the request's.
ReportStreamOnly(r) ==
    /\ req[r].at = "stream_ended"
    /\ Tell(r, [event |-> IF req[r].last_error = NoError THEN "stream_completed"
                                                         ELSE "stream_aborted",
                endpoint |-> Candidate(r)])
    /\ req' = [req EXCEPT ![r].at = "stream_reported"]
    /\ UNCHANGED <<guard, limit>>

ReportStream(r) ==
    /\ req[r].at = "stream_ended"
    /\ Tell(r, [event |-> IF req[r].last_error = NoError THEN "stream_completed"
                                                         ELSE "stream_aborted",
                endpoint |-> Candidate(r)])
    /\ req' = [req EXCEPT ![r].at = "stream_told"]
    /\ UNCHANGED <<guard, limit>>

ReportStreamRequest(r) ==
    /\ req[r].at = "stream_told"
    /\ Tell(r, ReportEvent(req[r].attempts))
    /\ req' = [req EXCEPT ![r].at = "stream_reported"]
    /\ UNCHANGED <<guard, limit>>

SettleStream(r) ==
    /\ req[r].at = "stream_reported"
    /\ CASE req[r].last_error = NoError -> MayRaise(Candidate(r))
         [] Saturates(req[r].last_error) -> MayCut(Candidate(r))
         [] OTHER -> UNCHANGED limit
    /\ req' = [req EXCEPT ![r].at = "over"]
    /\ DropGuard(r)
    /\ UNCHANGED hooks
-----------------------------------------------------------------------------
(* Where the future of the request is suspended in an await.               *)
Suspended == {"scan", "executing", "backing_off", "failing", "failed",
              "completing", "completed", "opening"}

Cancel(r) ==
    /\ req[r].at \in Suspended
    /\ req' = [req EXCEPT ![r].at = "over", ![r].result = "Cancelled"]
    /\ DropGuard(r)
    /\ UNCHANGED <<limit, hooks>>

Walk(r) == Admit(r) \/ Refuse(r) \/ Skip(r) \/ Exhausted(r)
Attempt(r) == \/ StartAttempt(r) \/ DriverMissing(r) \/ FailUpstream(r) \/ Complete(r)
              \/ OpenStream(r)
Finish(r) == \/ Backoff(r) \/ ReportFailure(r) \/ ReturnFailure(r)
             \/ ReportSuccess(r) \/ ReturnSuccess(r) \/ ReturnStream(r)
Stream(r) == EndStream(r) \/ ReportStream(r) \/ ReportStreamRequest(r) \/ SettleStream(r)

Progress(r) == Walk(r) \/ Attempt(r) \/ Finish(r) \/ Stream(r)

Next == \E r \in Requests : Start(r) \/ Progress(r) \/ Cancel(r)

(* A request that has not handed out a stream goes on: the runtime polls   *)
(* it, its hooks and its backoff return, and the upstream answers, or the  *)
(* attempt's timeout answers for it.  Nothing makes a stream end: its body *)
(* has no timeout, and the completion task may wait for ever for the       *)
(* forwarding task (StreamObserve).  Once that wait is over only hooks are *)
(* left.                                                                   *)
Fairness ==
    \A r \in Requests :
        /\ WF_vars(Walk(r) \/ Attempt(r) \/ Finish(r))
        /\ WF_vars(ReportStream(r) \/ ReportStreamRequest(r) \/ SettleStream(r))

Spec == Init /\ [][Next]_vars

FairSpec == Spec /\ Fairness
-----------------------------------------------------------------------------
Places == Suspended \union {"idle", "refused", "admitted", "streaming", "stream_ended",
                            "stream_told", "stream_reported", "over"}

(* Where a request holds a slot; it may while it reports a failure.        *)
Holding == {"admitted", "executing", "backing_off", "completing", "completed", "opening",
            "streaming", "stream_ended", "stream_told", "stream_reported"}

Results == {"none", "Completed", "Streaming", "AllAttemptsFailed", "AllEndpointsSaturated",
            "NoAvailableEndpoint", "Cancelled"}

Running(r) == req[r].at \notin {"idle", "over"}

(* Where the hooks were told of a kind of event, and how many times by then. *)
Told(story, kind) == {i \in DOMAIN story : story[i].event = kind}
UpTo(places, i) == Cardinality({j \in places : j <= i})

(* The hooks of one request can be read as a story: attempts are numbered  *)
(* in order and finish before the next one starts, on the endpoint they    *)
(* started on, one that has not finished, a stream until its completion    *)
(* included, holds the slot of its endpoint, and nothing follows the       *)
(* request's report, which lists exactly the finished attempts with their  *)
(* outcomes.  Only requests that began no attempt, or were cancelled, end  *)
(* without a report.                                                       *)
HooksTellTheStory ==
    \A r \in Requests :
        LET story == hooks[r]
            started == Told(story, "attempt_started")
            finished == Told(story, "attempt_finished")
            reports == Told(story, "request_finished")
            n == Cardinality(started)
        IN  /\ \A i \in started : story[i].number + 1 = UpTo(started, i)
            /\ n - Cardinality(finished) \in {0, 1}
            /\ \A i \in finished : \E j \in started :
                 /\ j < i /\ UpTo(started, j) = UpTo(finished, i)
                 /\ story[j].endpoint = story[i].endpoint
            /\ (Running(r) /\ n > Cardinality(finished)) =>
                 \E j \in started : UpTo(started, j) = n /\ guard[r] = story[j].endpoint
            /\ (req[r].at = "over" /\ req[r].result # "Cancelled" /\ started # {})
                  => reports # {}
            /\ \A i \in reports :
                 LET told == story[i].attempts
                 IN  /\ i = Len(story)
                     /\ Len(told) = n /\ Cardinality(finished) = n
                     /\ \A k \in finished :
                          LET attempt == told[UpTo(finished, k)]
                          IN  /\ attempt.endpoint = story[k].endpoint
                              /\ (attempt.status = "Succeeded") = story[k].success

(* A report ends with the attempt that decided the request: only its last  *)
(* attempt can succeed or fail for good, the error returned is that        *)
(* attempt's, and an attempt marked as retried had a candidate left to go  *)
(* to.  Without an attempt the request ends on saturation, and never on    *)
(* the loop's last line, NoAvailableEndpoint.                              *)
LastAttemptDecides ==
    \A r \in Requests :
        LET tried == req[r].attempts
            n == Len(tried)
        IN  /\ req[r].result # "NoAvailableEndpoint"
            /\ req[r].result = "AllEndpointsSaturated" => Told(hooks[r], "attempt_started") = {}
            /\ \A i \in 1 .. n - 1 : tried[i].status = "Retried"
            /\ req[r].result = "AllAttemptsFailed" => n > 0 /\ tried[n].error = req[r].last_error
            /\ (n > 0 /\ tried[n].status = "Retried") =>
                 \E i \in DOMAIN req[r].job.order :
                    /\ tried[n].endpoint = req[r].job.order[i]
                    /\ i < Len(req[r].job.order)

(* Under Fallback a request fails only after every candidate was tried or  *)
(* skipped, unless a driver was missing or a stream had already begun.     *)
FallbackTriesAll ==
    \A r \in Requests :
        (req[r].result = "AllAttemptsFailed" /\ req[r].job.strategy = "Fallback"
             /\ req[r].last_error # "invalid")
          => Len(req[r].attempts) + req[r].skipped = Len(req[r].job.order)

(* No path out of an attempt keeps its slot, and none gives it up early:   *)
(* a request holds a slot of the candidate it is at from the admission to  *)
(* the end of the attempt, its backoff and its reports, and none while it  *)
(* looks for a candidate or once it is over.                               *)
SlotFollowsCandidate ==
    \A r \in Requests :
        /\ req[r].at \in {"idle", "scan", "refused", "over"} => guard[r] = Nobody
        /\ req[r].at \in Holding => guard[r] = Candidate(r)

SlotHolders(e) == {r \in Requests : guard[r] = e}

(* The most slots an endpoint ever has, its static cap counted.            *)
GateSize(e) == Min({MaxConcurrency, HardLimit[e]})

Gate(e) == INSTANCE ConcurrencyGate WITH
             Threads <- Requests, Capacity <- GateSize(e), holders <- SlotHolders(e)

(* Seen from one endpoint, requests that retry, stream and get cancelled   *)
(* use the gate as it was meant: one slot each, never more than there are. *)
GatesRespected ==
    /\ \A e \in Endpoints : Gate(e)!Init
    /\ [][\A e \in Endpoints : [Gate(e)!Next]_(SlotHolders(e))]_guard

(* Of every stream it opens, a request tells the host what StreamLifecycle *)
(* promises; StreamObserve, its detail, keeps the same promise.            *)
StreamPhase(q) ==
    CASE q.at = "streaming" -> "open"
      [] q.at = "stream_ended" -> "attempt_told"
      [] q.at = "stream_told" -> "stream_told"
      [] q.at = "stream_reported" -> "request_told"
      [] q.at = "over" /\ q.result = "Streaming" -> "released"
      [] OTHER -> "absent"

Lifecycle(r) == INSTANCE StreamLifecycle WITH
    phase <- StreamPhase(req[r]), chunks <- 0, reported <- 0

StreamsFollowLifecycle ==
    [][\A r \in Requests : [Lifecycle(r)!Next]_(Lifecycle(r)!vars)]_req

(* A started request ends: its slot is given back with its result, or      *)
(* stays with the stream it returned; and once the completion task has     *)
(* seen the end of the stream, that slot is given back too.  That it does  *)
(* see the end is not claimed.                                             *)
RequestsEnd ==
    \A r \in Requests :
        (req[r].at \notin {"idle", "streaming"})
           ~> (req[r].at = "streaming" \/ (req[r].at = "over" /\ guard[r] = Nobody))
=============================================================================
