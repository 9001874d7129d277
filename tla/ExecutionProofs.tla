--------------------------- MODULE ExecutionProofs ---------------------------
(***************************************************************************)
(* Proofs about the execution loop, for any number of requests, endpoints, *)
(* candidates and any kinds of error.                                      *)
(*                                                                         *)
(* Slots, the first invariant, is the shape of the records and             *)
(* SlotFollowsCandidate with the fact it needs, that a request at a        *)
(* candidate has not walked past the end of its list: no path leaves a     *)
(* slot behind or gives one up early, and the gates are respected.         *)
(*                                                                         *)
(* Outcomes, the second, adds what the attempts come to and what the hooks *)
(* hear of them.  Each step is taken twice: for the request's own record   *)
(* (Tally), and for the story told so far (Account), which either does not *)
(* change or grows by the start of an attempt, its end, or the report.     *)
(***************************************************************************)
EXTENDS Execution, FiniteSetTheorems, TLAPS

Errors == UpstreamErrors \union {NoError, "invalid"}

AttemptRecords == [endpoint : Endpoints, status : {"Succeeded", "Failed", "Retried"},
                   error : Errors]

ReqRecords == [at : Places, job : Jobs \union {NoJob}, index : Nat,
               attempts : Seq(AttemptRecords), skipped : Nat, last_error : Errors,
               result : Results]

Typed ==
    /\ req \in [Requests -> ReqRecords]
    /\ guard \in [Requests -> Endpoints \union {Nobody}]
    /\ limit \in [Endpoints -> MinConcurrency .. MaxConcurrency]

AtCandidate == Holding \union {"refused"}

Slots ==
    /\ Typed
    /\ \A r \in Requests :
         /\ req[r].at \in AtCandidate => req[r].index < Len(req[r].job.order)
         /\ req[r].index <= Len(req[r].job.order)
         /\ req[r].at = "idle" => req[r].index = 0
    /\ SlotFollowsCandidate

Walking(r) == req[r].at = "scan" /\ req[r].index < Len(req[r].job.order)
-----------------------------------------------------------------------------
LEMMA CandidateIsEndpoint ==
    ASSUME Typed, NEW r \in Requests, req[r].index < Len(req[r].job.order)
    PROVE  Candidate(r) \in Endpoints
<1>1. req[r].job \in Jobs \union {NoJob} /\ req[r].index \in Nat
  BY DEF Typed, ReqRecords
<1>2. req[r].job # NoJob
  BY <1>1 DEF NoJob
<1>3. req[r].job.order \in Seq(Endpoints)
  BY <1>1, <1>2, Configured
<1>. QED BY <1>1, <1>3 DEF Candidate

LEMMA MinOfTwo ==
    ASSUME NEW x \in Nat, NEW y \in Nat
    PROVE  Min({x, y}) \in {x, y} /\ Min({x, y}) <= x /\ Min({x, y}) <= y
<1>1. \E m \in {x, y} : \A z \in {x, y} : m <= z
  <2>1. CASE x <= y
    BY <2>1
  <2>2. CASE ~ (x <= y)
    BY <2>2
  <2>. QED BY <2>1, <2>2
<1>. QED BY <1>1 DEF Min

LEMMA MaxOfTwo ==
    ASSUME NEW x \in Nat, NEW y \in Nat
    PROVE  Max({x, y}) \in {x, y} /\ Max({x, y}) >= x /\ Max({x, y}) >= y
<1>1. \E m \in {x, y} : \A z \in {x, y} : m >= z
  <2>1. CASE x >= y
    BY <2>1
  <2>2. CASE ~ (x >= y)
    BY <2>2
  <2>. QED BY <2>1, <2>2
<1>. QED BY <1>1 DEF Max

LEMMA LimitMoves ==
    ASSUME Typed, NEW e \in Endpoints, MayRaise(e) \/ MayCut(e)
    PROVE  limit' \in [Endpoints -> MinConcurrency .. MaxConcurrency]
<1>1. limit[e] \in Nat /\ MinConcurrency <= limit[e] /\ limit[e] <= MaxConcurrency
  BY Configured DEF Typed
<1>2. CASE MayRaise(e)
  <2>1. Min({limit[e] + 1, MaxConcurrency}) \in MinConcurrency .. MaxConcurrency
    BY <1>1, MinOfTwo, Configured
  <2>. QED BY <1>1, <1>2, <2>1, Configured DEF MayRaise, Typed
<1>3. CASE MayCut(e)
  <2>1. limit[e] \div 2 \in Nat /\ limit[e] \div 2 <= limit[e]
    BY <1>1
  <2>2. Max({limit[e] \div 2, MinConcurrency}) \in MinConcurrency .. MaxConcurrency
    BY <1>1, <2>1, MaxOfTwo, Configured
  <2>. QED BY <1>1, <1>3, <2>2, Configured DEF MayCut, Typed
<1>. QED BY <1>2, <1>3
-----------------------------------------------------------------------------
LEMMA SlotsInit == Init => Slots
<1> SUFFICES ASSUME Init PROVE Slots
  OBVIOUS
<1>1. NotStarted \in ReqRecords
  BY DEF NotStarted, ReqRecords, Places, Suspended, Results, Errors
<1>2. Typed
  BY <1>1 DEF Init, Typed
<1>3. \A r \in Requests : req[r] = NotStarted /\ guard[r] = Nobody
  BY DEF Init
<1>. QED
  BY <1>2, <1>3 DEF Slots, SlotFollowsCandidate, NotStarted, NoJob, AtCandidate, Holding

(* What one request's step does to the slots: it changes that request's    *)
(* record and guard, within their types and the discipline.                *)
LEMMA OneRequestMoves ==
    ASSUME Slots, NEW r \in Requests,
           NEW x \in ReqRecords, NEW g \in Endpoints \union {Nobody},
           req' = [req EXCEPT ![r] = x], guard' = [guard EXCEPT ![r] = g],
           limit' \in [Endpoints -> MinConcurrency .. MaxConcurrency],
           x.index <= Len(x.job.order), x.at = "idle" => x.index = 0,
           x.at \in AtCandidate => x.index < Len(x.job.order),
           x.at \in {"idle", "scan", "refused", "over"} => g = Nobody,
           x.at \in Holding => g = x.job.order[x.index + 1]
    PROVE  Slots'
<1>1. Typed'
  BY DEF Slots, Typed
<1>2. \A q \in Requests : /\ q # r => req'[q] = req[q] /\ guard'[q] = guard[q]
                          /\ q = r => req'[q] = x /\ guard'[q] = g
  BY DEF Slots, Typed
<1>3. \A q \in Requests :
        /\ req'[q].at \in AtCandidate => req'[q].index < Len(req'[q].job.order)
        /\ req'[q].index <= Len(req'[q].job.order)
        /\ req'[q].at = "idle" => req'[q].index = 0
  BY <1>2 DEF Slots
<1>4. SlotFollowsCandidate'
  BY <1>2 DEF Slots, SlotFollowsCandidate, Candidate
<1>. QED BY <1>1, <1>3, <1>4 DEF Slots

(* The same for a step after which the request is at no candidate.         *)
LEMMA OneRequestLeaves ==
    ASSUME Slots, NEW r \in Requests, NEW x \in ReqRecords,
           req' = [req EXCEPT ![r] = x],
           guard' = [guard EXCEPT ![r] = Nobody],
           limit' \in [Endpoints -> MinConcurrency .. MaxConcurrency],
           x.index <= Len(x.job.order),
           x.at \in {"scan", "failing", "over"}
    PROVE  Slots'
<1>1. x.at \notin AtCandidate /\ x.at \notin Holding /\ x.at # "idle"
  BY DEF AtCandidate, Holding
<1>. QED BY <1>1, OneRequestMoves

(* A step that moves on with the slot it has, or reports a failure.        *)
LEMMA SameSlot ==
    ASSUME Slots, NEW r \in Requests, NEW p \in Places, NEW res \in Results,
           req' = [req EXCEPT ![r] = [req[r] EXCEPT !.at = p, !.result = res]],
           UNCHANGED <<guard, limit>>,
           (req[r].at \in Holding /\ p \in Holding) \/ p = "failed"
    PROVE  Slots'
<1> DEFINE x == [req[r] EXCEPT !.at = p, !.result = res]
<1> DEFINE g == guard[r]
<1>1. Typed /\ req[r] \in ReqRecords
  BY DEF Slots, Typed
<1>2. x \in ReqRecords /\ x.at = p /\ x.index = req[r].index /\ x.job = req[r].job
  BY <1>1 DEF ReqRecords
<1>3. req' = [req EXCEPT ![r] = x]
  OBVIOUS
<1>4. guard' = [guard EXCEPT ![r] = g] /\ g \in Endpoints \union {Nobody}
  BY <1>1 DEF Typed
<1>5. limit' \in [Endpoints -> MinConcurrency .. MaxConcurrency]
  BY <1>1 DEF Typed
<1>6. x.index <= Len(x.job.order)
  BY <1>2 DEF Slots
<1>7. x.at = "idle" => x.index = 0
  BY <1>2 DEF Holding
<1>8. x.at \in AtCandidate => x.index < Len(x.job.order)
  BY <1>2 DEF Slots, AtCandidate, Holding
<1>9. x.at \in {"idle", "scan", "refused", "over"} => g = Nobody
  BY <1>2 DEF Holding
<1>10. x.at \in Holding => g = x.job.order[x.index + 1]
  BY <1>2 DEF Slots, SlotFollowsCandidate, Candidate, Holding
<1> HIDE DEF x, g
<1>. QED BY <1>2, <1>3, <1>4, <1>5, <1>6, <1>7, <1>8, <1>9, <1>10,
   OneRequestMoves

(* A step that ends an attempt and records it, still with its slot.        *)
LEMMA AttemptEnds ==
    ASSUME Slots, NEW r \in Requests, NEW err \in Errors, NEW a \in AttemptRecords,
           NEW p \in {"failing", "backing_off", "completing", "stream_ended"},
           req' = [req EXCEPT ![r] = [req[r] EXCEPT !.at = p, !.last_error = err,
                                                  !.attempts = Append(@, a)]],
           guard' = guard, limit' \in [Endpoints -> MinConcurrency .. MaxConcurrency],
           req[r].at \in Holding
    PROVE  Slots'
<1> DEFINE x == [req[r] EXCEPT !.at = p, !.last_error = err, !.attempts = Append(@, a)]
<1> DEFINE g == guard[r]
<1>1. Typed /\ req[r] \in ReqRecords /\ p \in Places
  BY DEF Slots, Typed, Places, Suspended
<1>2. Append(req[r].attempts, a) \in Seq(AttemptRecords)
  BY <1>1 DEF ReqRecords
<1>3. x \in ReqRecords /\ x.at = p /\ x.index = req[r].index /\ x.job = req[r].job
  BY <1>1, <1>2 DEF ReqRecords
<1>4. req' = [req EXCEPT ![r] = x]
  OBVIOUS
<1>5. guard' = [guard EXCEPT ![r] = g] /\ g \in Endpoints \union {Nobody}
  BY <1>1 DEF Typed
<1>6. x.index <= Len(x.job.order)
  BY <1>3 DEF Slots
<1>7. x.at = "idle" => x.index = 0
  BY <1>3 DEF Holding
<1>8. x.at \in AtCandidate => x.index < Len(x.job.order)
  BY <1>3 DEF Slots, AtCandidate, Holding
<1>9. x.at \in {"idle", "scan", "refused", "over"} => g = Nobody
  BY <1>3 DEF Holding
<1>10. x.at \in Holding => g = x.job.order[x.index + 1]
  BY <1>3 DEF Slots, SlotFollowsCandidate, Candidate, Holding
<1> HIDE DEF x, g
<1>. QED BY <1>3, <1>4, <1>5, <1>6, <1>7, <1>8, <1>9, <1>10,
   OneRequestMoves

LEMMA StepKeepsSlots ==
    ASSUME Slots, NEW r \in Requests, Start(r) \/ Progress(r) \/ Cancel(r)
    PROVE  Slots'
<1>0. /\ {"scan", "admitted", "refused", "failing", "failed", "backing_off", "completing",
          "stream_ended", "over"} \subseteq Places
      /\ Holding \subseteq Places
  BY DEF Places, Suspended, Holding
<1>1. /\ Typed
      /\ req[r].at \in AtCandidate => req[r].index < Len(req[r].job.order)
      /\ req[r].index <= Len(req[r].job.order)
      /\ req[r].at = "idle" => req[r].index = 0
      /\ req[r].at \in {"idle", "scan", "refused", "over"} => guard[r] = Nobody
      /\ req[r].at \in Holding => guard[r] = Candidate(r)
  BY DEF Slots, SlotFollowsCandidate
<1>2. /\ req[r] \in ReqRecords /\ req[r].index \in Nat
      /\ req[r].index + 1 \in Nat
      /\ req[r].skipped \in Nat /\ req[r].skipped + 1 \in Nat
      /\ req[r].attempts \in Seq(AttemptRecords) /\ req[r].result \in Results
      /\ req[r].job \in Jobs \union {NoJob} /\ req[r].last_error \in Errors
      /\ guard[r] \in Endpoints \union {Nobody}
      /\ Len(req[r].job.order) \in Nat
  <2>1. CASE req[r].job \in Jobs
    BY <1>1, <2>1, Configured, SMTT(40) DEF Typed, ReqRecords
  <2>2. CASE req[r].job = NoJob
    <3>1. Len(NoJob.order) = 0
      BY DEF NoJob
    <3>. QED BY <1>1, <2>2, <3>1 DEF Typed, ReqRecords
  <2>. QED BY <1>1, <2>1, <2>2 DEF Typed, ReqRecords
<1>3. /\ req = [req EXCEPT ![r] = req[r]] /\ guard = [guard EXCEPT ![r] = guard[r]]
      /\ limit \in [Endpoints -> MinConcurrency .. MaxConcurrency]
  BY <1>1 DEF Typed
<1>4. req[r].at \in AtCandidate => Candidate(r) \in Endpoints
  BY <1>1, CandidateIsEndpoint
<1>5. CASE Start(r)
  <2>1. PICK job \in Jobs : req' = [req EXCEPT ![r].at = "scan", ![r].job = job]
    BY <1>5 DEF Start
  <2> DEFINE x == [req[r] EXCEPT !.at = "scan", !.job = job]
  <2>2. x \in ReqRecords /\ x.at = "scan" /\ x.index = 0 /\ x.job = job
    BY <1>0, <1>1, <1>2, <1>5 DEF Start, ReqRecords
  <2>3. req' = [req EXCEPT ![r] = x] /\ guard' = [guard EXCEPT ![r] = Nobody]
        /\ limit' \in [Endpoints -> MinConcurrency .. MaxConcurrency]
    BY <1>1, <1>3, <1>5, <2>1 DEF Start
  <2>4. x.index <= Len(x.job.order)
    <3>1. Len(job.order) \in Nat
      BY Configured
    <3>. QED BY <2>2, <3>1
  <2> HIDE DEF x
  <2>. QED BY <1>3, <2>2, <2>3, <2>4, OneRequestLeaves
<1>6. CASE Admit(r)
  <2> DEFINE x == [req[r] EXCEPT !.at = "admitted"]
  <2>1. x \in ReqRecords /\ x.at = "admitted" /\ x.index = req[r].index /\ x.job = req[r].job
    BY <1>0, <1>2 DEF ReqRecords
  <2>2. req' = [req EXCEPT ![r] = x] /\ guard' = [guard EXCEPT ![r] = Candidate(r)]
        /\ limit' = limit /\ req[r].index < Len(req[r].job.order)
    BY <1>6 DEF Admit
  <2>3. Candidate(r) \in Endpoints
    BY <1>1, <2>2, CandidateIsEndpoint
  <2> HIDE DEF x
  <2>. QED BY <1>1, <1>2, <1>3, <2>1, <2>2, <2>3, OneRequestMoves
     DEF AtCandidate, Holding, Candidate
<1>7. CASE Refuse(r)
  <2> DEFINE x == [req[r] EXCEPT !.at = "refused"]
  <2>1. x \in ReqRecords /\ x.at = "refused" /\ x.index = req[r].index /\ x.job = req[r].job
    BY <1>0, <1>2 DEF ReqRecords
  <2>2. req' = [req EXCEPT ![r] = x] /\ UNCHANGED <<guard, limit>>
        /\ req[r].index < Len(req[r].job.order) /\ guard[r] = Nobody
        /\ guard' = [guard EXCEPT ![r] = Nobody]
        /\ limit' \in [Endpoints -> MinConcurrency .. MaxConcurrency]
    BY <1>1, <1>3, <1>7 DEF Refuse
  <2> HIDE DEF x
  <2>3. x.index < Len(x.job.order) /\ x.index <= Len(x.job.order)
    BY <1>2, <2>1, <2>2
  <2>4. x.at # "idle" /\ x.at \notin Holding
    BY <2>1 DEF Holding
  <2>. QED BY <2>1, <2>2, <2>3, <2>4, OneRequestMoves
<1>8. CASE Skip(r)
  <2> DEFINE x == [req[r] EXCEPT !.at = "scan", !.index = @ + 1, !.skipped = @ + 1]
  <2>1. x \in ReqRecords /\ x.at = "scan" /\ x.index = req[r].index + 1 /\ x.job = req[r].job
    BY <1>0, <1>2 DEF ReqRecords
  <2>2. req' = [req EXCEPT ![r] = x] /\ UNCHANGED <<guard, limit>>
        /\ req[r].index < Len(req[r].job.order)
        /\ guard' = [guard EXCEPT ![r] = Nobody]
    BY <1>1, <1>3, <1>8 DEF Skip, AtCandidate
  <2> HIDE DEF x
  <2>3. x.index <= Len(x.job.order)
    BY <1>2, <2>1, <2>2
  <2>. QED BY <1>3, <2>1, <2>2, <2>3, OneRequestLeaves
<1>9. CASE Backoff(r)
  <2> DEFINE x == [req[r] EXCEPT !.at = "scan", !.index = @ + 1]
  <2>1. x \in ReqRecords /\ x.at = "scan" /\ x.index = req[r].index + 1 /\ x.job = req[r].job
    BY <1>0, <1>2 DEF ReqRecords
  <2>2. req' = [req EXCEPT ![r] = x] /\ guard' = [guard EXCEPT ![r] = Nobody] /\ limit' = limit
        /\ req[r].index < Len(req[r].job.order)
    BY <1>1, <1>9 DEF Backoff, DropGuard, AtCandidate, Holding
  <2> HIDE DEF x
  <2>3. x.index <= Len(x.job.order)
    BY <1>2, <2>1, <2>2
  <2>. QED BY <1>3, <2>1, <2>2, <2>3, OneRequestLeaves
(* The steps that only move on, with the slot they have.                   *)
<1>10. CASE StartAttempt(r) \/ ReportFailure(r) \/ ReportSuccess(r) \/ OpenStream(r)
            \/ ReturnStream(r) \/ ReportStream(r) \/ ReportStreamRequest(r)
  <2>1. UNCHANGED <<guard, limit>>
    BY <1>10 DEF StartAttempt, ReportFailure, ReportSuccess, OpenStream, ReturnStream,
        ReportStream, ReportStreamRequest
  <2>2. \E p \in Places, res \in Results :
          /\ req' = [req EXCEPT ![r] = [req[r] EXCEPT !.at = p, !.result = res]]
          /\ (req[r].at \in Holding /\ p \in Holding) \/ p = "failed"
    <3>1. CASE ReturnStream(r)
      <4>1. req' = [req EXCEPT ![r] = [req[r] EXCEPT !.at = "streaming", !.result = "Streaming"]]
        BY <1>1, <3>1 DEF ReturnStream, Typed
      <4>. QED BY <1>0, <3>1, <4>1 DEF ReturnStream, Holding, Results
    <3>2. CASE ~ ReturnStream(r)
      <4>1. PICK p \in Places : /\ req' = [req EXCEPT ![r].at = p]
                                /\ (req[r].at \in Holding /\ p \in Holding) \/ p = "failed"
        BY <1>0, <1>10, <3>2 DEF StartAttempt, ReportFailure, ReportSuccess, OpenStream,
            ReportStream, ReportStreamRequest, Holding, Places, Suspended
      <4>2. [req[r] EXCEPT !.at = p] = [req[r] EXCEPT !.at = p, !.result = req[r].result]
        BY <1>2 DEF ReqRecords
      <4>3. req' = [req EXCEPT ![r] = [req[r] EXCEPT !.at = p, !.result = req[r].result]]
        BY <4>1, <4>2
      <4>. QED BY <1>2, <4>1, <4>3
    <3>. QED BY <3>1, <3>2
  <2>. QED BY <2>1, <2>2, SameSlot
(* The steps that end an attempt and record it, still with its slot.       *)
<1>11. CASE DriverMissing(r) \/ FailUpstream(r) \/ Complete(r) \/ EndStream(r)
  <2>1. Candidate(r) \in Endpoints /\ guard[r] = Candidate(r) /\ guard' = guard
        /\ req[r].at \in Holding
    BY <1>1, <1>4, <1>11 DEF DriverMissing, FailUpstream, Complete, EndStream, AtCandidate, Holding
  <2>2. \A st \in {"Succeeded", "Failed", "Retried"}, err \in Errors :
          Attempted(Candidate(r), st, err) \in AttemptRecords
    BY <2>1 DEF Attempted, AttemptRecords
  <2>3. limit' \in [Endpoints -> MinConcurrency .. MaxConcurrency]
    BY <1>1, <1>3, <1>11, <2>1, LimitMoves DEF DriverMissing, FailUpstream, Complete, EndStream
  <2>4. \E p \in {"failing", "backing_off", "completing", "stream_ended"},
           err \in Errors, a \in AttemptRecords :
              req' = [req EXCEPT ![r] = [req[r] EXCEPT !.at = p, !.last_error = err,
                                                      !.attempts = Append(@, a)]]
    <3>1. CASE DriverMissing(r)
      <4>1. req' = [req EXCEPT ![r] = [req[r] EXCEPT !.at = "failing", !.last_error = "invalid",
                       !.attempts = Append(@, Attempted(Candidate(r), "Failed", "invalid"))]]
        BY <1>1, <2>1, <3>1 DEF DriverMissing, Typed
      <4>. QED BY <2>2, <4>1 DEF Errors
    <3>2. CASE FailUpstream(r)
      <4> DEFINE retry(err) == /\ req[r].index + 1 < Len(req[r].job.order)
                               /\ ShouldRetry(req[r].job, err)
                 p(err) == IF retry(err) THEN "backing_off" ELSE "failing"
                 st(err) == IF retry(err) THEN "Retried" ELSE "Failed"
      <4>1. PICK err \in UpstreamErrors :
              req' = [req EXCEPT ![r].at = p(err), ![r].last_error = err,
                        ![r].attempts = Append(@, Attempted(guard[r], st(err), err))]
        BY <3>2 DEF FailUpstream
      <4>2. p(err) \in {"failing", "backing_off"} /\ st(err) \in {"Failed", "Retried"}
        OBVIOUS
      <4> HIDE DEF p, st
      <4>3. req' = [req EXCEPT ![r] = [req[r] EXCEPT !.at = p(err), !.last_error = err,
                       !.attempts = Append(@, Attempted(Candidate(r), st(err), err))]]
        BY <1>1, <2>1, <4>1 DEF Typed
      <4>. QED BY <2>2, <4>2, <4>3 DEF Errors
    <3>3. CASE Complete(r)
      <4> DEFINE a == Attempted(Candidate(r), "Succeeded", NoError)
      <4>1. req' = [req EXCEPT ![r] = [req[r] EXCEPT !.at = "completing",
                                                    !.attempts = Append(@, a)]]
        BY <1>1, <2>1, <3>3 DEF Complete, Typed
      <4>2. [req[r] EXCEPT !.at = "completing", !.attempts = Append(@, a)]
              = [req[r] EXCEPT !.at = "completing", !.last_error = req[r].last_error,
                               !.attempts = Append(@, a)]
        BY <1>2 DEF ReqRecords
      <4>3. a \in AttemptRecords
        BY <2>2 DEF Errors
      <4> HIDE DEF a
      <4>4. req' = [req EXCEPT ![r] = [req[r] EXCEPT !.at = "completing",
                       !.last_error = req[r].last_error, !.attempts = Append(@, a)]]
        BY <4>1, <4>2
      <4>. QED BY <1>2, <4>3, <4>4
    <3>4. CASE EndStream(r)
      <4> DEFINE st(err) == IF err = NoError THEN "Succeeded" ELSE "Failed"
      <4>1. PICK err \in UpstreamErrors \union {NoError} :
              req' = [req EXCEPT ![r].at = "stream_ended", ![r].last_error = err,
                                 ![r].attempts = Append(@, Attempted(Candidate(r), st(err), err))]
        BY <3>4, Zenon DEF EndStream
      <4>2. st(err) \in {"Succeeded", "Failed"}
        OBVIOUS
      <4> HIDE DEF st
      <4>3. req' = [req EXCEPT ![r] = [req[r] EXCEPT !.at = "stream_ended", !.last_error = err,
                        !.attempts = Append(@, Attempted(Candidate(r), st(err), err))]]
        BY <1>1, <4>1 DEF Typed
      <4>. QED BY <2>2, <4>2, <4>3 DEF Errors
    <3>. QED BY <1>11, <3>1, <3>2, <3>3, <3>4
  <2>. QED BY <2>1, <2>3, <2>4, AttemptEnds
(* The steps after which the request is over and its slot free.            *)
<1>12. CASE ReturnFailure(r) \/ ReturnSuccess(r) \/ SettleStream(r) \/ Cancel(r)
  <2>1. PICK res \in Results : req' = [req EXCEPT ![r].at = "over", ![r].result = res]
    <3>1. CASE SettleStream(r)
      <4>1. req[r].result \in Results
        BY <1>0, <1>2 DEF ReqRecords
      <4>2. [req EXCEPT ![r].at = "over"]
              = [req EXCEPT ![r].at = "over", ![r].result = req[r].result]
        BY <1>1, <1>2 DEF Typed, ReqRecords
      <4>. QED BY <3>1, <4>1, <4>2 DEF SettleStream
    <3>. QED BY <1>12, <3>1 DEF ReturnFailure, ReturnSuccess, Cancel, Results
  <2> DEFINE x == [req[r] EXCEPT !.at = "over", !.result = res]
  <2>2. x \in ReqRecords /\ x.at = "over" /\ x.index = req[r].index /\ x.job = req[r].job
    BY <1>0, <1>2 DEF ReqRecords
  <2>3. req' = [req EXCEPT ![r] = x] /\ guard' = [guard EXCEPT ![r] = Nobody]
    BY <1>12, <2>1 DEF ReturnFailure, ReturnSuccess, SettleStream, Cancel, DropGuard
  <2>4. limit' \in [Endpoints -> MinConcurrency .. MaxConcurrency]
    BY <1>1, <1>3, <1>4, <1>12, LimitMoves
       DEF ReturnFailure, ReturnSuccess, SettleStream, Cancel, AtCandidate, Holding
  <2> HIDE DEF x
  <2>5. x.index <= Len(x.job.order)
    BY <1>1, <2>2
  <2>. QED BY <2>2, <2>3, <2>4, <2>5, OneRequestLeaves
<1>13. CASE Exhausted(r)
  <2>1. PICK p \in {"failing", "over"}, res \in Results :
          req' = [req EXCEPT ![r].at = p, ![r].result = res]
    <3>1. req[r].result \in Results
      BY <1>0, <1>2 DEF ReqRecords
    <3>2. [req EXCEPT ![r].at = "failing"]
            = [req EXCEPT ![r].at = "failing", ![r].result = req[r].result]
      BY <1>1, <1>2 DEF Typed, ReqRecords
    <3>. QED BY <1>13, <3>1, <3>2 DEF Exhausted
  <2> DEFINE x == [req[r] EXCEPT !.at = p, !.result = res]
  <2>2. x \in ReqRecords /\ x.at = p /\ x.index = req[r].index /\ x.job = req[r].job
    BY <1>0, <1>2 DEF ReqRecords
  <2>3. req' = [req EXCEPT ![r] = x] /\ guard' = [guard EXCEPT ![r] = Nobody]
        /\ limit' \in [Endpoints -> MinConcurrency .. MaxConcurrency]
    BY <1>1, <1>3, <1>13, <2>1 DEF Exhausted
  <2> HIDE DEF x
  <2>4. x.index <= Len(x.job.order)
    BY <1>1, <2>2
  <2>. QED BY <2>2, <2>3, <2>4, OneRequestLeaves
<1>. QED
  BY <1>5, <1>6, <1>7, <1>8, <1>9, <1>10, <1>11, <1>12, <1>13
     DEF Progress, Walk, Attempt, Finish, Stream
-----------------------------------------------------------------------------
LEMMA SlotsAlways == Spec => []Slots
<1>1. Init => Slots
  BY SlotsInit
<1>2. Slots /\ [Next]_vars => Slots'
  <2>1. Slots /\ Next => Slots'
    BY StepKeepsSlots DEF Next
  <2>2. Slots /\ UNCHANGED vars => Slots'
    BY DEF Slots, Typed, SlotFollowsCandidate, Candidate, vars
  <2>. QED BY <2>1, <2>2
<1>. QED BY <1>1, <1>2, PTL DEF Spec

(* No path out of an attempt keeps its slot and none gives it up early: a  *)
(* request holds a slot of the candidate it is at from the admission to    *)
(* the end of the attempt, its backoff and its reports (the guard of       *)
(* execute_with_fallback, moved into the completion task of a stream).     *)
THEOREM SlotsAlwaysFollowCandidates == Spec => []SlotFollowsCandidate
BY SlotsAlways, PTL DEF Slots
-----------------------------------------------------------------------------
(* What a step of the loop does to the slots: nothing, or it drops the     *)
(* request's own, or it admits the request.                                *)
LEMMA GuardMoves ==
    ASSUME Slots, NEW r \in Requests, Start(r) \/ Progress(r) \/ Cancel(r)
    PROVE  Admit(r) \/ guard' = guard \/ guard' = [guard EXCEPT ![r] = Nobody]
<1>1. CASE Walk(r) \/ Start(r) \/ Cancel(r)
  BY <1>1 DEF Walk, Start, Cancel, DropGuard, Refuse, Skip, Exhausted
<1>2. CASE Attempt(r)
  BY <1>2 DEF Attempt, StartAttempt, DriverMissing, FailUpstream, Complete, OpenStream
<1>3. CASE Finish(r)
  BY <1>3 DEF Finish, Backoff, DropGuard, ReportFailure, ReturnFailure, ReportSuccess,
      ReturnSuccess, ReturnStream
<1>4. CASE Stream(r)
  BY <1>4 DEF Stream, EndStream, ReportStream, ReportStreamRequest, SettleStream, DropGuard
<1>. QED BY <1>1, <1>2, <1>3, <1>4 DEF Progress

(* An admission adds the request to its candidate's holders, under the     *)
(* endpoint's size, and leaves the other endpoints alone.                  *)
LEMMA AdmitSeenByGates ==
    ASSUME Slots, NEW r \in Requests, Admit(r), NEW e \in Endpoints
    PROVE  Gate(e)!Admit(r) \/ SlotHolders(e)' = SlotHolders(e)
<1>1. /\ guard \in [Requests -> Endpoints \union {Nobody}]
      /\ limit \in [Endpoints -> MinConcurrency .. MaxConcurrency]
      /\ guard[r] = Nobody /\ Nobody # e
  BY Configured DEF Slots, Typed, SlotFollowsCandidate, Admit
<1>2. guard' = [guard EXCEPT ![r] = Candidate(r)]
  BY DEF Admit
<1>3. CASE Candidate(r) # e
  BY <1>1, <1>2, <1>3 DEF SlotHolders
<1>4. CASE Candidate(r) = e
  <2>1. r \notin SlotHolders(e) /\ SlotHolders(e)' = SlotHolders(e) \union {r}
    BY <1>1, <1>2, <1>4 DEF SlotHolders
  <2>2. Cardinality(SlotHolders(e)) < EffectiveLimit(e)
    BY <1>4 DEF Admit, Active, SlotHolders
  <2>3. EffectiveLimit(e) <= GateSize(e) /\ EffectiveLimit(e) \in Nat /\ GateSize(e) \in Nat
    <3>1. limit[e] \in Nat /\ HardLimit[e] \in Nat /\ limit[e] <= MaxConcurrency
      BY <1>1, Configured
    <3>2. /\ EffectiveLimit(e) \in Nat
          /\ EffectiveLimit(e) <= limit[e] /\ EffectiveLimit(e) <= HardLimit[e]
      BY <3>1, MinOfTwo DEF EffectiveLimit
    <3>3. GateSize(e) \in {MaxConcurrency, HardLimit[e]}
      BY <3>1, MinOfTwo, Configured DEF GateSize
    <3>. QED BY <3>1, <3>2, <3>3, Configured
  <2>4. Cardinality(SlotHolders(e)) \in Nat
    <3>1. IsFiniteSet(SlotHolders(e))
      BY Configured, FS_Subset DEF SlotHolders
    <3>. QED BY <3>1, FS_CardinalityType
  <2>5. Cardinality(SlotHolders(e)) < GateSize(e)
    BY <2>2, <2>3, <2>4
  <2>. QED BY <2>1, <2>5 DEF Gate!Admit, Gate!Cardinality, Cardinality
<1>. QED BY <1>3, <1>4

LEMMA DropSeenByGates ==
    ASSUME Slots, NEW r \in Requests, NEW e \in Endpoints,
           guard' = [guard EXCEPT ![r] = Nobody]
    PROVE  Gate(e)!Leave(r) \/ SlotHolders(e)' = SlotHolders(e)
<1>1. guard \in [Requests -> Endpoints \union {Nobody}] /\ Nobody # e
  BY Configured DEF Slots, Typed
<1>2. CASE guard[r] = e
  <2>1. r \in SlotHolders(e) /\ SlotHolders(e)' = SlotHolders(e) \ {r}
    BY <1>1, <1>2 DEF SlotHolders
  <2>. QED BY <2>1 DEF Gate!Leave
<1>3. CASE guard[r] # e
  BY <1>1, <1>3 DEF SlotHolders
<1>. QED BY <1>2, <1>3

(* Seen from any one endpoint, the requests that retry, stream and get     *)
(* cancelled use the concurrency gate as it was meant: each step of the    *)
(* loop lets one request in, below the endpoint's size, lets the same      *)
(* request leave, or does not touch the endpoint's slots.                  *)
THEOREM GatesAlwaysRespected == Spec => GatesRespected
<1>1. Init => \A e \in Endpoints : Gate(e)!Init
  BY Configured DEF Init, SlotHolders, Gate!Init
<1>2. ASSUME Slots, [Next]_vars
      PROVE  [\A e \in Endpoints : [Gate(e)!Next]_(SlotHolders(e))]_guard
  <2>1. CASE UNCHANGED vars
    BY <2>1 DEF vars
  <2>2. ASSUME NEW r \in Requests, Start(r) \/ Progress(r) \/ Cancel(r), NEW e \in Endpoints
        PROVE  Gate(e)!Next \/ SlotHolders(e)' = SlotHolders(e)
    <3>1. CASE Admit(r)
      BY <1>2, <2>2, <3>1, AdmitSeenByGates DEF Gate!Next
    <3>2. CASE guard' = guard
      BY <3>2 DEF SlotHolders
    <3>3. CASE guard' = [guard EXCEPT ![r] = Nobody]
      BY <1>2, <2>2, <3>3, DropSeenByGates DEF Gate!Next
    <3>. QED BY <1>2, <2>2, <3>1, <3>2, <3>3, GuardMoves
  <2>. QED BY <1>2, <2>1, <2>2 DEF Next
<1>. QED BY <1>1, <1>2, SlotsAlways, PTL DEF Spec, GatesRespected
-----------------------------------------------------------------------------
(* The second invariant, Outcomes, is about what the attempts come to and  *)
(* what the hooks hear.  Tally counts a request's candidates, attempts and *)
(* skips against each other and says which attempts may have which status; *)
(* Account relates the attempts to the events told so far.                 *)

HookEvents ==
    [event : {"request_started"}]
    \union [event : {"attempt_skipped", "stream_started", "stream_completed", "stream_aborted"},
            endpoint : Endpoints]
    \union [event : {"attempt_started"}, endpoint : Endpoints, number : Nat]
    \union [event : {"attempt_finished"}, endpoint : Endpoints, success : BOOLEAN]
    \union [event : {"request_finished"}, attempts : Seq(AttemptRecords)]

(* Where an attempt is under way, and where the candidate is still to be   *)
(* tried, where it has been, and where the request is ending in failure.   *)
UnderWay == {"executing", "opening", "streaming"}
Ahead == {"idle", "scan", "refused", "admitted"} \union UnderWay
Behind == {"backing_off", "completing", "completed", "stream_ended", "stream_told",
           "stream_reported"}
Ending == {"failing", "failed"}
InStream == {"streaming", "stream_ended", "stream_told", "stream_reported"}

ResultFollows(q) ==
    /\ q.at = "idle" => q.attempts = <<>> /\ q.skipped = 0 /\ q.last_error = NoError
    /\ q.at # "idle" => q.job \in Jobs
    /\ q.at \in InStream => q.result = "Streaming"
    /\ q.at \notin InStream \union {"over"} => q.result = "none"
    /\ q.at = "over" => q.result \notin {"none", "NoAvailableEndpoint"}
    /\ q.result = "AllEndpointsSaturated" => q.attempts = <<>>

CountsAgree(q) ==
    /\ q.at \in Ahead => Len(q.attempts) + q.skipped = q.index
    /\ q.at \in Behind => Len(q.attempts) + q.skipped = q.index + 1
    /\ (q.at \in Ending \/ q.result = "AllAttemptsFailed") =>
         /\ Len(q.attempts) > 0
         /\ q.attempts[Len(q.attempts)].error = q.last_error
         /\ (q.job.strategy = "Fallback" /\ q.last_error # "invalid")
               => Len(q.attempts) + q.skipped = Len(q.job.order)

AttemptsRetried(q) ==
    LET n == Len(q.attempts)
    IN  /\ \A i \in 1 .. n - 1 : q.attempts[i].status = "Retried"
        /\ q.at \in Ahead \union {"backing_off"} =>
             /\ n = 0 => q.last_error = NoError
             /\ n > 0 => /\ q.attempts[n].status = "Retried"
                         /\ q.attempts[n].error = q.last_error
                         /\ q.last_error # NoError
        /\ (n > 0 /\ q.attempts[n].status = "Retried") =>
             \E i \in 1 .. Len(q.job.order) :
                q.attempts[n].endpoint = q.job.order[i] /\ i < Len(q.job.order)

Tally(q) == ResultFollows(q) /\ CountsAgree(q) /\ AttemptsRetried(q)

AttemptsTold(q, story) ==
    LET started == Told(story, "attempt_started")
        finished == Told(story, "attempt_finished")
        n == Len(q.attempts)
    IN  /\ \A i \in started : story[i].number + 1 = UpTo(started, i)
        /\ Cardinality(finished) = n
        /\ q.at \in UnderWay =>
             /\ Cardinality(started) = n + 1
             /\ \E j \in started : /\ UpTo(started, j) = n + 1
                                   /\ story[j].endpoint = q.job.order[q.index + 1]
        /\ q.at \notin UnderWay \union {"over"} => Cardinality(started) = n
        /\ Cardinality(started) \in {n, n + 1}
        /\ (q.at = "over" /\ q.result # "Cancelled") => Cardinality(started) = n
        /\ \A i \in finished :
             LET k == UpTo(finished, i)
             IN  /\ k \in 1 .. n
                 /\ q.attempts[k].endpoint = story[i].endpoint
                 /\ (q.attempts[k].status = "Succeeded") = story[i].success
                 /\ \E j \in started : /\ j < i /\ UpTo(started, j) = k
                                       /\ story[j].endpoint = story[i].endpoint

Reported == {"failed", "completed", "stream_reported"}

ReportTold(q, story) ==
    LET reports == Told(story, "request_finished")
        started == Told(story, "attempt_started")
    IN  /\ q.at \in Reported => reports # {}
        /\ q.at \notin Reported \union {"over"} => reports = {}
        /\ (q.at = "over" /\ q.result # "Cancelled" /\ q.attempts # <<>>) => reports # {}
        /\ reports # {} => Cardinality(started) = Len(q.attempts)
        /\ \A i \in reports : i = Len(story) /\ story[i].attempts = q.attempts

Account(q, story) == AttemptsTold(q, story) /\ ReportTold(q, story)

Outcomes ==
    /\ Slots
    /\ hooks \in [Requests -> Seq(HookEvents)]
    /\ \A r \in Requests : Tally(req[r]) /\ Account(req[r], hooks[r])
-----------------------------------------------------------------------------
(* One more event: the places of its kind grow by one, the others stay.    *)
LEMMA TellMore ==
    ASSUME NEW story \in Seq(HookEvents), NEW e \in HookEvents
    PROVE  /\ Append(story, e) \in Seq(HookEvents)
           /\ Len(Append(story, e)) = Len(story) + 1
           /\ DOMAIN story = 1 .. Len(story) /\ Len(story) \in Nat
           /\ DOMAIN Append(story, e) = 1 .. Len(story) + 1
           /\ \A i \in 1 .. Len(story) : Append(story, e)[i] = story[i]
           /\ Append(story, e)[Len(story) + 1] = e
OBVIOUS

LEMMA ToldAre ==
    ASSUME NEW story \in Seq(HookEvents), NEW kind
    PROVE  /\ Told(story, kind) \subseteq 1 .. Len(story)
           /\ IsFiniteSet(Told(story, kind)) /\ Cardinality(Told(story, kind)) \in Nat
           /\ Told(story, kind) = {} <=> Cardinality(Told(story, kind)) = 0
<1>1. Len(story) \in Nat /\ Told(story, kind) \subseteq 1 .. Len(story)
  BY DEF Told
<1>2. IsFiniteSet(Told(story, kind))
  <2>1. IsFiniteSet(1 .. Len(story))
    BY <1>1, FS_Interval
  <2>. QED BY <1>1, <2>1, FS_Subset
<1>. QED BY <1>1, <1>2, FS_CardinalityType, FS_EmptySet

LEMMA ToldMore ==
    ASSUME NEW story \in Seq(HookEvents), NEW e \in HookEvents, NEW kind
    PROVE  Told(Append(story, e), kind)
             = IF e.event = kind THEN Told(story, kind) \union {Len(story) + 1}
                                 ELSE Told(story, kind)
<1> DEFINE s == Append(story, e)
<1>1. /\ DOMAIN story = 1 .. Len(story) /\ Len(story) \in Nat
      /\ DOMAIN s = 1 .. Len(story) + 1
      /\ \A i \in 1 .. Len(story) : s[i] = story[i]
      /\ s[Len(story) + 1] = e
  BY TellMore
<1> HIDE DEF s
<1>2. DOMAIN s = DOMAIN story \union {Len(story) + 1}
  BY <1>1
<1>. QED BY <1>1, <1>2 DEF Told, s

(* What UpTo becomes when a new last place is added.                       *)
LEMMA UpToMore ==
    ASSUME NEW n \in Nat, NEW places \in SUBSET (1 .. n)
    PROVE  /\ Cardinality(places \union {n + 1}) = Cardinality(places) + 1
           /\ \A i \in 1 .. n : UpTo(places \union {n + 1}, i) = UpTo(places, i)
           /\ UpTo(places \union {n + 1}, n + 1) = Cardinality(places) + 1
<1> DEFINE more == places \union {n + 1}
<1>1. IsFiniteSet(places)
  <2>1. IsFiniteSet(1 .. n) /\ places \in SUBSET (1 .. n)
    BY FS_Interval
  <2>. QED BY <2>1, FS_Subset, Zenon
<1>0. n + 1 \notin places
  OBVIOUS
<1>2. Cardinality(more) = Cardinality(places) + 1
  BY <1>0, <1>1, FS_AddElement
<1>3. ASSUME NEW i \in 1 .. n PROVE UpTo(more, i) = UpTo(places, i)
  <2>1. \A j : (j \in more /\ j <= i) <=> (j \in places /\ j <= i)
    OBVIOUS
  <2>2. {j \in more : j <= i} = {j \in places : j <= i}
    BY <2>1
  <2>. QED BY <2>2 DEF UpTo
<1>4. {j \in more : j <= n + 1} = more
  <2>1. \A j \in more : j <= n + 1
    OBVIOUS
  <2>. QED BY <2>1, Zenon
<1>. QED BY <1>2, <1>3, <1>4 DEF UpTo
-----------------------------------------------------------------------------
(* A step that tells the hooks of no attempt and no report.                *)
LEMMA AccountMoves ==
    ASSUME NEW q \in ReqRecords, NEW x \in ReqRecords,
           NEW story \in Seq(HookEvents), NEW more \in Seq(HookEvents),
           Account(q, story), q.at # "over", x.at \notin Reported,
           x.attempts = q.attempts,
           x.at \in UnderWay => q.at \in UnderWay /\ x.job = q.job /\ x.index = q.index,
           q.at \in UnderWay => x.at \in UnderWay \/ (x.at = "over" /\ x.result = "Cancelled"),
           q.at \in Reported => x.at = "over" /\ more = story,
           (x.at = "over" /\ x.result # "Cancelled" /\ x.attempts # <<>>) => q.at \in Reported,
           \/ more = story
           \/ \E e \in HookEvents :
                /\ more = Append(story, e)
                /\ e.event \notin {"attempt_started", "attempt_finished", "request_finished"}
    PROVE  Account(x, more)
<1>1. /\ \A kind \in {"attempt_started", "attempt_finished", "request_finished"} :
           Told(more, kind) = Told(story, kind)
      /\ \A i \in 1 .. Len(story) : more[i] = story[i]
  <2>1. CASE more = story
    BY <2>1
  <2>2. CASE more # story
    <3>1. PICK e \in HookEvents :
            /\ more = Append(story, e)
            /\ e.event \notin {"attempt_started", "attempt_finished", "request_finished"}
      BY <2>2
    <3>. QED BY <3>1, ToldMore, TellMore
  <2>. QED BY <2>1, <2>2
<1> DEFINE started == Told(story, "attempt_started")
           finished == Told(story, "attempt_finished")
           reports == Told(story, "request_finished")
<1>2. /\ started = Told(more, "attempt_started") /\ started \subseteq 1 .. Len(story)
      /\ finished = Told(more, "attempt_finished") /\ finished \subseteq 1 .. Len(story)
      /\ reports = Told(more, "request_finished")
  BY <1>1, ToldAre
<1>3. /\ \A i \in started : more[i] = story[i]
      /\ \A i \in finished : more[i] = story[i]
  BY <1>1, <1>2
<1>4. /\ AttemptsTold(q, story) /\ ReportTold(q, story)
  BY DEF Account
<1>5. AttemptsTold(x, more)
  <2> USE DEF AttemptsTold
  <2> HIDE DEF started, finished, reports
  <2>. QED
    BY <1>2, <1>3, <1>4, SMTT(40) DEF UnderWay, started, finished
<1>6. ReportTold(x, more)
  <2>1. CASE q.at \in Reported
    BY <1>4, <2>1 DEF ReportTold, Reported
  <2>2. CASE q.at \notin Reported
    BY <1>2, <1>4, <2>2 DEF ReportTold
  <2>. QED BY <2>1, <2>2
<1>. QED BY <1>5, <1>6 DEF Account

(* An attempt starts.                                                      *)
LEMMA AccountStarts ==
    ASSUME NEW q \in ReqRecords, NEW x \in ReqRecords,
           NEW story \in Seq(HookEvents), NEW e \in HookEvents,
           Account(q, story), q.at \notin UnderWay \union Reported \union {"over"},
           x.at \in UnderWay, x.attempts = q.attempts,
           e.event = "attempt_started", e.number = Len(q.attempts),
           e.endpoint = x.job.order[x.index + 1]
    PROVE  Account(x, Append(story, e))
<1> DEFINE more == Append(story, e)
           started == Told(story, "attempt_started")
           finished == Told(story, "attempt_finished")
           n == Len(q.attempts)
<1>1. /\ Len(story) \in Nat /\ n \in Nat
      /\ \A i \in 1 .. Len(story) : more[i] = story[i]
      /\ more[Len(story) + 1] = e
  BY TellMore DEF ReqRecords
<1>2. /\ started \subseteq 1 .. Len(story) /\ finished \subseteq 1 .. Len(story)
      /\ Told(more, "attempt_started") = started \union {Len(story) + 1}
      /\ Told(more, "attempt_finished") = finished
      /\ Told(more, "request_finished") = Told(story, "request_finished")
  BY ToldAre, ToldMore
<1>3. /\ \A i \in started : story[i].number + 1 = UpTo(started, i)
      /\ Cardinality(finished) = n /\ Cardinality(started) = n
      /\ \A i \in finished :
             LET k == UpTo(finished, i)
             IN  /\ k \in 1 .. n
                 /\ q.attempts[k].endpoint = story[i].endpoint
                 /\ (q.attempts[k].status = "Succeeded") = story[i].success
                 /\ \E j \in started : /\ j < i /\ UpTo(started, j) = k
                                       /\ story[j].endpoint = story[i].endpoint
      /\ Told(story, "request_finished") = {}
  BY DEF Account, AttemptsTold, ReportTold
<1> DEFINE begun == Told(more, "attempt_started")
<1>4. /\ Cardinality(begun) = n + 1
      /\ \A i \in 1 .. Len(story) : UpTo(begun, i) = UpTo(started, i)
      /\ UpTo(begun, Len(story) + 1) = n + 1
  <2>1. Len(story) \in Nat /\ started \in SUBSET (1 .. Len(story))
        /\ begun = started \union {Len(story) + 1}
    BY <1>1, <1>2
  <2>2. Cardinality(started) = n
    BY <1>3
  <2> HIDE DEF started, begun, more, n
  <2> DEFINE longer == started \union {Len(story) + 1}
  <2>3. /\ Cardinality(longer) = Cardinality(started) + 1
        /\ \A i \in 1 .. Len(story) : UpTo(longer, i) = UpTo(started, i)
        /\ UpTo(longer, Len(story) + 1) = Cardinality(started) + 1
    BY <2>1, UpToMore, Zenon
  <2>. QED BY <2>1, <2>2, <2>3
<1>5. /\ \A i \in begun : more[i].number + 1 = UpTo(begun, i)
      /\ \E j \in begun : UpTo(begun, j) = n + 1 /\ more[j].endpoint = x.job.order[x.index + 1]
  <2> HIDE DEF started, begun, more
  <2>. QED BY <1>1, <1>2, <1>3, <1>4 DEF begun
<1>6. \A i \in finished :
        /\ more[i] = story[i]
        /\ \A j \in started : j \in begun /\ more[j] = story[j] /\ UpTo(begun, j) = UpTo(started, j)
  <2> HIDE DEF started, finished, begun, more
  <2>. QED BY <1>1, <1>2, <1>4 DEF begun
<1>7. \A i \in finished :
             LET k == UpTo(finished, i)
             IN  /\ k \in 1 .. n
                 /\ q.attempts[k].endpoint = more[i].endpoint
                 /\ (q.attempts[k].status = "Succeeded") = more[i].success
                 /\ \E j \in begun : /\ j < i /\ UpTo(begun, j) = k
                                     /\ more[j].endpoint = more[i].endpoint
  <2> HIDE DEF started, finished, begun, more
  <2>. QED BY <1>3, <1>6
<1>8. AttemptsTold(x, more)
  <2>1. finished = Told(more, "attempt_finished")
    BY <1>2
  <2> HIDE DEF started, finished, begun, more
  <2>2. Cardinality(begun) \in {n, n + 1} /\ Len(x.attempts) = n /\ x.at # "over"
    BY <1>4 DEF UnderWay
  <2>. QED BY <1>3, <1>4, <1>5, <1>7, <2>1, <2>2 DEF AttemptsTold, begun
<1>9. ReportTold(x, more)
  BY <1>2, <1>3 DEF ReportTold, UnderWay, Reported
<1>. QED BY <1>8, <1>9 DEF Account


(* The attempt under way ends, and is recorded as it was told.             *)
LEMMA AccountEnds ==
    ASSUME NEW q \in ReqRecords, NEW x \in ReqRecords, NEW a \in AttemptRecords,
           NEW story \in Seq(HookEvents), NEW e \in HookEvents,
           Account(q, story), q.at \in UnderWay,
           x.at \notin UnderWay \union Reported \union {"over"},
           x.attempts = Append(q.attempts, a),
           e.event = "attempt_finished", e.endpoint = a.endpoint,
           e.success = (a.status = "Succeeded"),
           e.endpoint = q.job.order[q.index + 1]
    PROVE  Account(x, Append(story, e))
<1> DEFINE more == Append(story, e)
           last == Len(story) + 1
           started == Told(story, "attempt_started")
           finished == Told(story, "attempt_finished")
           ended == Told(more, "attempt_finished")
           n == Len(q.attempts)
<1>1. /\ Len(story) \in Nat /\ n \in Nat /\ last \in Nat
      /\ \A i \in 1 .. Len(story) : more[i] = story[i]
      /\ more[last] = e
      /\ Len(x.attempts) = n + 1
      /\ \A k \in 1 .. n : x.attempts[k] = q.attempts[k]
      /\ x.attempts[n + 1] = a
  BY TellMore DEF ReqRecords
<1>2. /\ started \subseteq 1 .. Len(story) /\ finished \subseteq 1 .. Len(story)
      /\ Told(more, "attempt_started") = started
      /\ ended = finished \union {last}
      /\ Told(more, "request_finished") = Told(story, "request_finished")
  BY ToldAre, ToldMore
<1>3. /\ \A i \in started : story[i].number + 1 = UpTo(started, i)
      /\ Cardinality(finished) = n /\ Cardinality(started) = n + 1
      /\ \E j \in started : /\ UpTo(started, j) = n + 1
                            /\ story[j].endpoint = q.job.order[q.index + 1]
      /\ Told(story, "request_finished") = {}
  BY DEF Account, AttemptsTold, ReportTold, UnderWay, Reported
<1>4. \A i \in finished :
             LET k == UpTo(finished, i)
             IN  /\ k \in 1 .. n
                 /\ q.attempts[k].endpoint = story[i].endpoint
                 /\ (q.attempts[k].status = "Succeeded") = story[i].success
                 /\ \E j \in started : /\ j < i /\ UpTo(started, j) = k
                                       /\ story[j].endpoint = story[i].endpoint
  BY DEF Account, AttemptsTold
<1>5. /\ Cardinality(ended) = n + 1
      /\ \A i \in 1 .. Len(story) : UpTo(ended, i) = UpTo(finished, i)
      /\ UpTo(ended, last) = n + 1
  <2>1. Len(story) \in Nat /\ finished \in SUBSET (1 .. Len(story))
        /\ ended = finished \union {Len(story) + 1}
    BY <1>1, <1>2
  <2>2. Cardinality(finished) = n
    BY <1>3
  <2> HIDE DEF finished, ended, more, n
  <2> DEFINE longer == finished \union {Len(story) + 1}
  <2>3. /\ Cardinality(longer) = Cardinality(finished) + 1
        /\ \A i \in 1 .. Len(story) : UpTo(longer, i) = UpTo(finished, i)
        /\ UpTo(longer, Len(story) + 1) = Cardinality(finished) + 1
    BY <2>1, UpToMore, Zenon
  <2>. QED BY <2>1, <2>2, <2>3
<1>6. \A j \in started : more[j] = story[j] /\ j < last
  <2> HIDE DEF started, more
  <2>. QED BY <1>1, <1>2
<1>7. ASSUME NEW i \in ended
      PROVE  LET k == UpTo(ended, i)
             IN  /\ k \in 1 .. n + 1
                 /\ x.attempts[k].endpoint = more[i].endpoint
                 /\ (x.attempts[k].status = "Succeeded") = more[i].success
                 /\ \E j \in started : /\ j < i /\ UpTo(started, j) = k
                                       /\ more[j].endpoint = more[i].endpoint
  <2>1. CASE i = last
    <3> HIDE DEF started, ended, finished, more, last, n
    <3>1. n + 1 \in 1 .. n + 1
      BY <1>1
    <3>. QED BY <1>1, <1>3, <1>5, <1>6, <2>1, <3>1
  <2>2. CASE i # last
    <3>1. /\ i \in finished /\ more[i] = story[i] /\ UpTo(ended, i) = UpTo(finished, i)
      <4> HIDE DEF started, ended, finished, more, last, n
      <4>. QED BY <1>1, <1>2, <1>5, <2>2
    <3>2. /\ UpTo(finished, i) \in 1 .. n /\ UpTo(finished, i) \in 1 .. n + 1
          /\ x.attempts[UpTo(finished, i)] = q.attempts[UpTo(finished, i)]
      <4> HIDE DEF started, ended, finished, more, last, n
      <4>. QED BY <1>1, <1>4, <3>1
    <3> HIDE DEF started, ended, finished, more, last, n
    <3>. QED BY <1>4, <1>6, <3>1, <3>2
  <2>. QED BY <2>1, <2>2
<1>8. AttemptsTold(x, more)
  <2>1. started = Told(more, "attempt_started")
    BY <1>2
  <2>2. \A i \in started : more[i].number + 1 = UpTo(started, i)
    <3> HIDE DEF started, more
    <3>. QED BY <1>3, <1>6
  <2> HIDE DEF started, finished, ended, more, n
  <2>3. Cardinality(started) \in {n + 1, n + 2} /\ Cardinality(started) = n + 1
    BY <1>1, <1>3
  <2>. QED BY <1>1, <1>5, <1>7, <2>1, <2>2, <2>3 DEF AttemptsTold, ended
<1>9. ReportTold(x, more)
  BY <1>2, <1>3 DEF ReportTold
<1>. QED BY <1>8, <1>9 DEF Account

(* The request is reported.                                                *)
LEMMA AccountReports ==
    ASSUME NEW q \in ReqRecords, NEW x \in ReqRecords,
           NEW story \in Seq(HookEvents), NEW e \in HookEvents,
           Account(q, story), q.at \notin UnderWay \union Reported \union {"over"},
           x.at \in Reported, x.attempts = q.attempts,
           e.event = "request_finished", e.attempts = q.attempts
    PROVE  Account(x, Append(story, e))
<1> DEFINE more == Append(story, e)
           started == Told(story, "attempt_started")
           finished == Told(story, "attempt_finished")
<1>1. /\ Len(story) \in Nat /\ Len(more) = Len(story) + 1
      /\ \A i \in 1 .. Len(story) : more[i] = story[i]
      /\ more[Len(story) + 1] = e
  BY TellMore
<1>2. /\ started \subseteq 1 .. Len(story) /\ finished \subseteq 1 .. Len(story)
      /\ started = Told(more, "attempt_started") /\ finished = Told(more, "attempt_finished")
      /\ Told(more, "request_finished")
           = Told(story, "request_finished") \union {Len(story) + 1}
  BY ToldAre, ToldMore
<1>3. /\ AttemptsTold(q, story) /\ Told(story, "request_finished") = {}
      /\ Cardinality(started) = Len(q.attempts)
  BY DEF Account, AttemptsTold, ReportTold
<1>4. AttemptsTold(x, more)
  <2>1. /\ \A i \in started : more[i] = story[i]
        /\ \A i \in finished : more[i] = story[i]
    <3> HIDE DEF started, finished, more
    <3>. QED BY <1>1, <1>2
  <2>2. /\ \A i \in started : story[i].number + 1 = UpTo(started, i)
        /\ Cardinality(finished) = Len(q.attempts)
        /\ \A i \in finished :
             LET k == UpTo(finished, i)
             IN  /\ k \in 1 .. Len(q.attempts)
                 /\ q.attempts[k].endpoint = story[i].endpoint
                 /\ (q.attempts[k].status = "Succeeded") = story[i].success
                 /\ \E j \in started : /\ j < i /\ UpTo(started, j) = k
                                       /\ story[j].endpoint = story[i].endpoint
    BY <1>3 DEF AttemptsTold
  <2> HIDE DEF started, finished, more
  <2>3. \A i \in started : more[i].number + 1 = UpTo(started, i)
    BY <2>1, <2>2
  <2>4. \A i \in finished :
             LET k == UpTo(finished, i)
             IN  /\ k \in 1 .. Len(q.attempts)
                 /\ q.attempts[k].endpoint = more[i].endpoint
                 /\ (q.attempts[k].status = "Succeeded") = more[i].success
                 /\ \E j \in started : /\ j < i /\ UpTo(started, j) = k
                                       /\ more[j].endpoint = more[i].endpoint
    BY <2>1, <2>2
  <2>. QED BY <1>2, <1>3, <2>2, <2>3, <2>4 DEF AttemptsTold, UnderWay, Reported
<1>5. ReportTold(x, more)
  <2> HIDE DEF started, finished, more
  <2>. QED BY <1>1, <1>2, <1>3 DEF ReportTold, Reported
<1>. QED BY <1>4, <1>5 DEF Account
-----------------------------------------------------------------------------
LEMMA JobOrder ==
    ASSUME NEW q \in ReqRecords, Tally(q), q.at # "idle"
    PROVE  /\ q.job \in Jobs /\ q.job.order \in Seq(Endpoints)
           /\ Len(q.job.order) \in Nat /\ Len(q.job.order) > 0
           /\ q.index \in Nat /\ q.skipped \in Nat
           /\ q.attempts \in Seq(AttemptRecords) /\ Len(q.attempts) \in Nat
<1>1. q.job \in Jobs
  BY DEF Tally, ResultFollows
<1>2. q.job.order \in Seq(Endpoints) /\ q.job.order # <<>>
  BY <1>1, Configured
<1>. QED BY <1>1, <1>2 DEF ReqRecords

(* A step that leaves the attempts, the candidate and the error alone.     *)
LEMMA TallyMoves ==
    ASSUME NEW q \in ReqRecords, NEW x \in ReqRecords, Tally(q), ResultFollows(x),
           x.attempts = q.attempts, x.skipped = q.skipped, x.index = q.index,
           x.job = q.job, x.last_error = q.last_error,
           x.at \in Ahead => q.at \in Ahead, x.at \in Behind => q.at \in Behind,
           x.at \in Ending => q.at \in Ending, x.at # "backing_off",
           x.result = "AllAttemptsFailed" => q.at \in Ending
    PROVE  Tally(x)
<1>1. CountsAgree(x)
  BY DEF Tally, CountsAgree
<1>2. AttemptsRetried(x)
  BY DEF Tally, AttemptsRetried
<1>. QED BY <1>1, <1>2 DEF Tally

(* A step that ends the attempt under way, the last of the candidates or a *)
(* retryable one.                                                          *)
LEMMA TallyEnds ==
    ASSUME NEW q \in ReqRecords, NEW a \in AttemptRecords, NEW err \in Errors,
           NEW p \in {"failing", "backing_off", "completing", "stream_ended"},
           NEW x \in ReqRecords,
           x.at = p, x.last_error = err, x.attempts = Append(q.attempts, a),
           x.job = q.job, x.index = q.index, x.skipped = q.skipped, x.result = q.result,
           Tally(q), q.at \in UnderWay, q.index < Len(q.job.order),
           p = "stream_ended" <=> q.at = "streaming",
           a.endpoint = q.job.order[q.index + 1],
           p \in {"failing", "backing_off"} => a.error = err /\ err # NoError,
           p = "failing" => \/ q.job.strategy # "Fallback"
                            \/ err = "invalid" \/ q.index + 1 = Len(q.job.order),
           (p = "backing_off") <=> (a.status = "Retried"),
           p = "backing_off" => q.index + 1 < Len(q.job.order)
    PROVE  Tally(x)
<1> DEFINE n == Len(q.attempts)
<1>1. /\ q.at # "idle" /\ q.at # "over" /\ q.at \in Ahead
      /\ q.at \in InStream <=> q.at = "streaming"
  BY DEF UnderWay, Ahead, InStream
<1>2. /\ q.job \in Jobs /\ q.job.order \in Seq(Endpoints) /\ Len(q.job.order) \in Nat
      /\ q.index \in Nat /\ q.skipped \in Nat
      /\ q.attempts \in Seq(AttemptRecords) /\ n \in Nat
  BY <1>1, JobOrder
<1>3. /\ x.at = p /\ x.last_error = err /\ x.attempts = Append(q.attempts, a)
      /\ x.job = q.job /\ x.index = q.index /\ x.skipped = q.skipped /\ x.result = q.result
  OBVIOUS
<1>4. /\ Len(x.attempts) = n + 1 /\ x.attempts[n + 1] = a
      /\ \A i \in 1 .. n : x.attempts[i] = q.attempts[i]
  BY <1>2, <1>3
<1>5. /\ n + q.skipped = q.index
      /\ q.result = (IF q.at = "streaming" THEN "Streaming" ELSE "none")
      /\ \A i \in 1 .. n - 1 : q.attempts[i].status = "Retried"
      /\ n > 0 => q.attempts[n].status = "Retried"
  BY <1>1 DEF Tally, CountsAgree, ResultFollows, AttemptsRetried
<1>6. p \notin Ahead /\ p # "idle" /\ p # "over" /\ (p \in Behind \/ p = "failing")
      /\ (p \in Ending <=> p = "failing") /\ (p \in InStream <=> p = "stream_ended")
      /\ (p \in Behind <=> p # "failing")
  BY DEF Ahead, UnderWay, Behind, Ending, InStream
<1>7. ResultFollows(x)
  BY <1>2, <1>3, <1>5, <1>6 DEF ResultFollows
<1>8. CountsAgree(x)
  <2> HIDE DEF n
  <2>1. x.at \notin Ahead /\ Len(x.attempts) + x.skipped = x.index + 1
    <3>1. n + q.skipped = q.index /\ n \in Nat /\ q.skipped \in Nat
      BY <1>2, <1>5, Zenon
    <3>2. n + 1 + q.skipped = q.index + 1
      <4>1. \A i, j \in Nat : i + 1 + j = i + j + 1
        OBVIOUS
      <4>. QED BY <3>1, <4>1, Zenon
    <3>. QED BY <1>3, <1>4, <1>6, <3>2
  <2>2. (x.at \in Ending \/ x.result = "AllAttemptsFailed") => p = "failing"
    BY <1>3, <1>5, <1>6
  <2>3. Len(x.attempts) > 0 /\ x.attempts[Len(x.attempts)] = a
    BY <1>2, <1>4
  <2>4. (p = "failing" /\ x.job.strategy = "Fallback" /\ x.last_error # "invalid")
          => x.index + 1 = Len(x.job.order)
    BY <1>3
  <2>5. p = "failing" => a.error = x.last_error
    BY <1>3
  <2>. QED BY <2>1, <2>2, <2>3, <2>4, <2>5 DEF CountsAgree
<1>9. AttemptsRetried(x)
  <2>1. \A i \in 1 .. n : x.attempts[i].status = "Retried"
    BY <1>2, <1>4, <1>5
  <2>2. q.index + 1 \in 1 .. Len(q.job.order)
    BY <1>2
  <2> HIDE DEF n
  <2>3. \A i \in 1 .. Len(x.attempts) - 1 : x.attempts[i].status = "Retried"
    BY <1>2, <1>4, <2>1
  <2>4. x.at \in Ahead \union {"backing_off"} =>
          a.status = "Retried" /\ a.error = x.last_error /\ x.last_error # NoError
    BY <1>3, <1>6
  <2>5. a.status = "Retried" =>
          \E i \in 1 .. Len(x.job.order) :
            a.endpoint = x.job.order[i] /\ i < Len(x.job.order)
    BY <1>3, <2>2
  <2>6. x.attempts[Len(x.attempts)] = a /\ Len(x.attempts) # 0
    BY <1>2, <1>4
  <2>. QED BY <2>3, <2>4, <2>5, <2>6 DEF AttemptsRetried
<1>. QED BY <1>7, <1>8, <1>9 DEF Tally
-----------------------------------------------------------------------------
LEMMA OutcomesInit == Init => Outcomes
<1> SUFFICES ASSUME Init PROVE Outcomes
  OBVIOUS
<1>1. Slots
  BY SlotsInit
<1>2. hooks = [r \in Requests |-> <<>>] /\ <<>> \in Seq(HookEvents)
  BY DEF Init
<1>3. Tally(NotStarted)
  <2>1. /\ NotStarted.at = "idle" /\ NotStarted.attempts = <<>> /\ NotStarted.skipped = 0
        /\ NotStarted.index = 0 /\ NotStarted.last_error = NoError
        /\ NotStarted.result = "none" /\ Len(NotStarted.attempts) = 0
    BY DEF NotStarted
  <2>. QED BY <2>1 DEF Tally, ResultFollows, CountsAgree, AttemptsRetried, Ahead, UnderWay,
      Behind, Ending, InStream
<1>4. \A kind : Told(<<>>, kind) = {}
  BY DEF Told
<1>5. Account(NotStarted, <<>>)
  <2>1. /\ NotStarted.at = "idle" /\ NotStarted.attempts = <<>> /\ Len(NotStarted.attempts) = 0
    BY DEF NotStarted
  <2>2. Cardinality({}) = 0
    BY FS_EmptySet
  <2>. QED BY <1>4, <2>1, <2>2 DEF Account, AttemptsTold, ReportTold, UnderWay, Reported
<1>. QED BY <1>1, <1>2, <1>3, <1>5 DEF Outcomes, Init

(* What a step does to the counts, from the request's record before and    *)
(* after it.                                                               *)
LEMMA StepKeepsTally ==
    ASSUME Outcomes, NEW r \in Requests, Start(r) \/ Progress(r) \/ Cancel(r), Slots'
    PROVE  Tally(req'[r])
<1> DEFINE q == req[r]
           x == req'[r]
<1> SUFFICES Tally(x)
  OBVIOUS
<1>0. /\ req \in [Requests -> ReqRecords] /\ q \in ReqRecords /\ x \in ReqRecords
      /\ Tally(q)
  BY DEF Outcomes, Slots, Typed
<1>1. /\ q.at = "idle" => q.index = 0
      /\ q.at \in AtCandidate => q.index < Len(q.job.order)
      /\ q.at \in Holding => guard[r] = q.job.order[q.index + 1]
  BY DEF Outcomes, Slots, SlotFollowsCandidate, Candidate
<1>2. ResultFollows(q) /\ CountsAgree(q) /\ AttemptsRetried(q)
  BY <1>0 DEF Tally
<1>3. CASE Start(r)
  <2>1. PICK job \in Jobs : x = [q EXCEPT !.at = "scan", !.job = job]
    BY <1>0, <1>3 DEF Start
  <2>2. /\ q.at = "idle" /\ x.at = "scan" /\ x.job = job /\ x.attempts = <<>> /\ x.skipped = 0
        /\ x.index = 0 /\ x.last_error = NoError /\ x.result = "none" /\ Len(x.attempts) = 0
    <3>1. /\ x.at = "scan" /\ x.job = job /\ x.attempts = q.attempts
          /\ x.skipped = q.skipped /\ x.index = q.index /\ x.last_error = q.last_error
          /\ x.result = q.result
      BY <1>0, <2>1 DEF ReqRecords
    <3>2. q.at = "idle"
      BY <1>3 DEF Start
    <3> HIDE DEF x, q
    <3>3. /\ q.attempts = <<>> /\ q.skipped = 0 /\ q.index = 0 /\ q.last_error = NoError
          /\ q.result = "none"
      BY <1>1, <1>2, <3>2 DEF ResultFollows, InStream
    <3>. QED BY <3>1, <3>2, <3>3
  <2> HIDE DEF x, q
  <2>. QED BY <2>2 DEF Tally, ResultFollows, CountsAgree, AttemptsRetried, Ahead, UnderWay,
      Behind, Ending, InStream
<1>4. CASE Admit(r) \/ Refuse(r) \/ StartAttempt(r) \/ ReportFailure(r) \/ ReportSuccess(r)
            \/ OpenStream(r) \/ ReportStream(r) \/ ReportStreamRequest(r) \/ SettleStream(r)
            \/ ReturnFailure(r) \/ ReturnSuccess(r) \/ ReturnStream(r) \/ Cancel(r)
  <2>1. PICK p \in Places, res \in Results : x = [q EXCEPT !.at = p, !.result = res]
    <3>1. \A p : [q EXCEPT !.at = p] = [q EXCEPT !.at = p, !.result = q.result]
      BY <1>0 DEF ReqRecords
    <3>2. q.result \in Results
      BY <1>0 DEF ReqRecords
    <3>3. \E p, res : x = [q EXCEPT !.at = p, !.result = res]
      <4>1. CASE \E p : x = [q EXCEPT !.at = p]
        BY <3>1, <4>1
      <4>2. CASE Admit(r) \/ Refuse(r) \/ StartAttempt(r) \/ ReportFailure(r)
                   \/ ReportSuccess(r) \/ OpenStream(r)
        BY <1>0, <4>1, <4>2 DEF Admit, Refuse, StartAttempt, ReportFailure, ReportSuccess,
            OpenStream
      <4>3. CASE ReportStream(r) \/ ReportStreamRequest(r) \/ SettleStream(r)
        BY <1>0, <4>1, <4>3 DEF ReportStream, ReportStreamRequest, SettleStream
      <4>4. CASE ReturnFailure(r) \/ ReturnSuccess(r) \/ ReturnStream(r) \/ Cancel(r)
        <5>1. \/ x = [q EXCEPT !.at = "over", !.result = "AllAttemptsFailed"]
              \/ x = [q EXCEPT !.at = "over", !.result = "Completed"]
              \/ x = [q EXCEPT !.at = "streaming", !.result = "Streaming"]
              \/ x = [q EXCEPT !.at = "over", !.result = "Cancelled"]
          BY <1>0, <4>4 DEF ReturnFailure, ReturnSuccess, ReturnStream, Cancel
        <5> HIDE DEF x, q
        <5>. QED BY <5>1
      <4>. QED BY <1>4, <4>2, <4>3, <4>4
    <3>. QED BY <1>0, <3>3 DEF ReqRecords
  <2>2. /\ x.attempts = q.attempts /\ x.skipped = q.skipped /\ x.index = q.index
        /\ x.job = q.job /\ x.last_error = q.last_error /\ x.at = p /\ x.result = res
    BY <1>0, <2>1 DEF ReqRecords
  <2> DEFINE FollowsOn ==
        /\ q.at # "idle" /\ p \notin {"idle", "backing_off"}
        /\ p \in InStream => res = "Streaming"
        /\ p \notin InStream \union {"over"} => res = "none"
        /\ p = "over" => res \notin {"none", "NoAvailableEndpoint", "AllEndpointsSaturated"}
        /\ p \in Ahead => q.at \in Ahead
        /\ p \in Behind => q.at \in Behind
        /\ p \in Ending => q.at \in Ending
        /\ res = "AllAttemptsFailed" => q.at \in Ending
  <2>3. FollowsOn
    <3> USE DEF Ahead, UnderWay, Behind, Ending, InStream
    <3>0. /\ q.at \in InStream => q.result = "Streaming"
          /\ q.at \notin InStream \union {"over"} => q.result = "none"
      BY <1>2 DEF ResultFollows
    <3>1. CASE Admit(r) \/ Refuse(r) \/ StartAttempt(r) \/ ReportFailure(r)
                 \/ ReportSuccess(r) \/ OpenStream(r)
      <4>1. PICK at : req' = [req EXCEPT ![r].at = at]
        BY <3>1, Zenon DEF Admit, Refuse, StartAttempt, ReportFailure, ReportSuccess, OpenStream
      <4>2. x.result = q.result
        BY <1>0, <4>1 DEF ReqRecords
      <4>. QED BY <1>0, <2>2, <3>0, <3>1, <4>2 DEF Admit, Refuse, StartAttempt, ReportFailure,
          ReportSuccess, OpenStream, ReqRecords
    <3>2. CASE ReportStream(r) \/ ReportStreamRequest(r) \/ SettleStream(r)
      <4>1. x = [q EXCEPT !.at = p]
        BY <1>0, <2>2, <3>2 DEF ReportStream, ReportStreamRequest, SettleStream, ReqRecords
      <4>2. x.result = q.result
        BY <1>0, <4>1 DEF ReqRecords
      <4>. QED BY <1>0, <2>2, <3>0, <3>2, <4>2 DEF ReportStream, ReportStreamRequest,
          SettleStream, ReqRecords
    <3>3. CASE ReturnFailure(r) \/ ReturnSuccess(r) \/ ReturnStream(r) \/ Cancel(r)
      BY <1>0, <2>2, <3>3 DEF ReturnFailure, ReturnSuccess, ReturnStream, Cancel, Suspended,
          ReqRecords
    <3>. QED BY <1>4, <3>1, <3>2, <3>3
  <2>4. ResultFollows(x)
    <3> HIDE DEF x, q
    <3>1. q.result \notin {"AllEndpointsSaturated"} \/ q.attempts = <<>>
      BY <1>2 DEF ResultFollows
    <3>2. res # "AllEndpointsSaturated"
      BY <2>3 DEF InStream
    <3>. QED BY <1>2, <2>2, <2>3, <3>2 DEF ResultFollows
  <2> HIDE DEF x, q
  <2>. QED BY <1>0, <2>2, <2>3, <2>4, TallyMoves
<1>5. CASE Skip(r)
  <2>1. x = [q EXCEPT !.at = "scan", !.index = @ + 1, !.skipped = @ + 1] /\ q.at = "refused"
    BY <1>0, <1>5 DEF Skip
  <2>2. /\ x.at = "scan" /\ x.index = q.index + 1 /\ x.skipped = q.skipped + 1
        /\ x.attempts = q.attempts /\ x.job = q.job /\ x.last_error = q.last_error
        /\ x.result = q.result
    BY <1>0, <2>1 DEF ReqRecords
  <2>3. q.index \in Nat /\ q.skipped \in Nat /\ Len(q.attempts) \in Nat
    BY <1>0 DEF ReqRecords
  <2>4. q.at = "refused"
    BY <2>1
  <2> HIDE DEF x, q
  <2>5. Len(x.attempts) + x.skipped = x.index /\ q.result = "none" /\ q.job \in Jobs
    BY <1>2, <2>2, <2>3, <2>4 DEF CountsAgree, ResultFollows, Ahead, InStream
  <2>6. ResultFollows(x) /\ CountsAgree(x)
    BY <2>2, <2>5 DEF CountsAgree, ResultFollows, Ahead, UnderWay, Behind, Ending, InStream
  <2>7. AttemptsRetried(x)
    BY <1>2, <2>2, <2>4 DEF AttemptsRetried, Ahead
  <2>. QED BY <2>6, <2>7 DEF Tally
<1>6. CASE Backoff(r)
  <2>1. x = [q EXCEPT !.at = "scan", !.index = @ + 1] /\ q.at = "backing_off"
    BY <1>0, <1>6 DEF Backoff
  <2>2. /\ x.at = "scan" /\ x.index = q.index + 1 /\ x.skipped = q.skipped
        /\ x.attempts = q.attempts /\ x.job = q.job /\ x.last_error = q.last_error
        /\ x.result = q.result
    BY <1>0, <2>1 DEF ReqRecords
  <2>4. q.at = "backing_off"
    BY <2>1
  <2> HIDE DEF x, q
  <2>5. Len(x.attempts) + x.skipped = x.index /\ q.result = "none" /\ q.job \in Jobs
    BY <1>2, <2>2, <2>4 DEF CountsAgree, ResultFollows, Behind, InStream
  <2>6. ResultFollows(x) /\ CountsAgree(x)
    BY <2>2, <2>5 DEF CountsAgree, ResultFollows, Ahead, UnderWay, Behind, Ending, InStream
  <2>7. AttemptsRetried(x)
    BY <1>2, <2>2, <2>4 DEF AttemptsRetried
  <2>. QED BY <2>6, <2>7 DEF Tally
<1>7. CASE Exhausted(r)
  <2>1. /\ q.at = "scan" /\ q.index = Len(q.job.order)
        /\ q.last_error # NoError => x = [q EXCEPT !.at = "failing"]
        /\ q.last_error = NoError =>
             x = [q EXCEPT !.at = "over", !.result =
                    IF q.attempts = <<>> /\ q.skipped > 0
                    THEN "AllEndpointsSaturated" ELSE "NoAvailableEndpoint"]
    BY <1>0, <1>7 DEF Exhausted
  <2>2. /\ x.index = q.index /\ x.skipped = q.skipped
        /\ x.attempts = q.attempts /\ x.job = q.job /\ x.last_error = q.last_error
        /\ q.last_error # NoError => x.at = "failing" /\ x.result = q.result
        /\ q.last_error = NoError =>
             /\ x.at = "over"
             /\ x.result = IF q.attempts = <<>> /\ q.skipped > 0
                           THEN "AllEndpointsSaturated" ELSE "NoAvailableEndpoint"
    BY <1>0, <2>1 DEF ReqRecords
  <2>3. q.at = "scan" /\ q.index = Len(q.job.order)
    BY <2>1
  <2> HIDE DEF x, q
  <2>4. /\ q.job \in Jobs /\ Len(q.job.order) > 0 /\ Len(q.job.order) \in Nat
        /\ q.skipped \in Nat /\ q.attempts \in Seq(AttemptRecords)
    BY <1>0, <2>3, JobOrder
  <2>5. /\ Len(q.attempts) + q.skipped = q.index /\ q.result = "none"
        /\ Len(q.attempts) = 0 => q.last_error = NoError
        /\ Len(q.attempts) > 0 => /\ q.attempts[Len(q.attempts)].error = q.last_error
                                  /\ q.last_error # NoError
    BY <1>2, <2>3 DEF CountsAgree, ResultFollows, AttemptsRetried, Ahead, InStream
  <2>6. CASE q.last_error # NoError
    <3>1. Len(q.attempts) > 0
      BY <2>4, <2>5, <2>6
    <3>2. ResultFollows(x) /\ CountsAgree(x)
      BY <2>2, <2>3, <2>4, <2>5, <2>6, <3>1 DEF CountsAgree, ResultFollows, Ahead, UnderWay,
          Behind, Ending, InStream
    <3>3. AttemptsRetried(x)
      BY <1>2, <2>2, <2>6 DEF AttemptsRetried, Ahead, UnderWay
    <3>. QED BY <3>2, <3>3 DEF Tally
  <2>7. CASE q.last_error = NoError
    <3>1. q.attempts = <<>> /\ q.skipped > 0
      BY <2>3, <2>4, <2>5, <2>7
    <3>2. ResultFollows(x) /\ CountsAgree(x)
      BY <2>2, <2>4, <2>7, <3>1 DEF CountsAgree, ResultFollows, Ahead, UnderWay,
          Behind, Ending, InStream
    <3>3. AttemptsRetried(x)
      BY <1>2, <2>2, <2>7 DEF AttemptsRetried, Ahead, UnderWay
    <3>. QED BY <3>2, <3>3 DEF Tally
  <2>. QED BY <2>6, <2>7
<1>8. CASE DriverMissing(r) \/ FailUpstream(r) \/ Complete(r) \/ EndStream(r)
  <2>1. /\ q.at \in UnderWay /\ q.at \in Holding /\ q.at \in AtCandidate
        /\ q.at = "streaming" <=> EndStream(r)
    BY <1>8 DEF DriverMissing, FailUpstream, Complete, EndStream, UnderWay, Holding, AtCandidate
  <2>2. /\ guard[r] = q.job.order[q.index + 1] /\ guard[r] = Candidate(r)
        /\ guard[r] \in Endpoints /\ q.index < Len(q.job.order)
    BY <1>1, <2>1, CandidateIsEndpoint DEF Outcomes, Slots, Candidate
  <2>3. /\ q.job \in Jobs /\ Len(q.job.order) \in Nat /\ q.index \in Nat
    BY <1>0, <2>1, JobOrder DEF UnderWay
  <2>4. \E p \in {"failing", "backing_off", "completing", "stream_ended"},
           err \in Errors, st \in {"Succeeded", "Failed", "Retried"},
           told \in Errors :
          /\ x = [q EXCEPT !.at = p, !.last_error = err,
                           !.attempts = Append(@, Attempted(guard[r], st, told))]
          /\ p = "stream_ended" <=> EndStream(r)
          /\ p \in {"failing", "backing_off"} => told = err /\ err # NoError
          /\ p = "failing" => \/ q.job.strategy # "Fallback"
                              \/ err = "invalid" \/ q.index + 1 = Len(q.job.order)
          /\ (p = "backing_off") <=> (st = "Retried")
          /\ p = "backing_off" => q.index + 1 < Len(q.job.order)
    <3>1. CASE DriverMissing(r)
      <4>1. x = [q EXCEPT !.at = "failing", !.last_error = "invalid",
                          !.attempts = Append(@, Attempted(guard[r], "Failed", "invalid"))]
        BY <1>0, <3>1 DEF DriverMissing
      <4>2. ~ EndStream(r) /\ "invalid" # NoError /\ "invalid" \in Errors
        BY <3>1, Configured DEF EndStream, DriverMissing, Errors
      <4> HIDE DEF x, q
      <4>. QED BY <4>1, <4>2
    <3>2. CASE FailUpstream(r)
      <4> DEFINE retry(err) == /\ q.index + 1 < Len(q.job.order)
                               /\ ShouldRetry(q.job, err)
                 p(err) == IF retry(err) THEN "backing_off" ELSE "failing"
                 st(err) == IF retry(err) THEN "Retried" ELSE "Failed"
      <4>1. PICK err \in UpstreamErrors :
              req' = [req EXCEPT ![r].at = p(err), ![r].last_error = err,
                        ![r].attempts = Append(@, Attempted(guard[r], st(err), err))]
        BY <3>2 DEF FailUpstream
      <4>2. /\ err # NoError /\ err \in Errors /\ ~ EndStream(r)
            /\ q.job.strategy = "Fallback" => ShouldRetry(q.job, err)
        BY <3>2, Configured DEF EndStream, FailUpstream, Errors, ShouldRetry
      <4>3. CASE retry(err)
        <5>1. x = [q EXCEPT !.at = "backing_off", !.last_error = err,
                            !.attempts = Append(@, Attempted(guard[r], "Retried", err))]
          BY <1>0, <4>1, <4>3
        <5>2. q.index + 1 < Len(q.job.order)
          BY <4>3
        <5> HIDE DEF x, q, retry
        <5>. QED BY <4>2, <5>1, <5>2
      <4>4. CASE ~ retry(err)
        <5>1. x = [q EXCEPT !.at = "failing", !.last_error = err,
                            !.attempts = Append(@, Attempted(guard[r], "Failed", err))]
          BY <1>0, <4>1, <4>4
        <5>2. q.job.strategy # "Fallback" \/ q.index + 1 = Len(q.job.order)
          BY <2>2, <2>3, <4>2, <4>4
        <5> HIDE DEF x, q, retry
        <5>. QED BY <4>2, <5>1, <5>2
      <4>. QED BY <4>3, <4>4
    <3>3. CASE Complete(r)
      <4>1. x = [q EXCEPT !.at = "completing",
                          !.attempts = Append(@, Attempted(guard[r], "Succeeded", NoError))]
        BY <1>0, <3>3 DEF Complete
      <4>2. x = [q EXCEPT !.at = "completing", !.last_error = q.last_error,
                          !.attempts = Append(@, Attempted(guard[r], "Succeeded", NoError))]
        BY <1>0, <4>1 DEF ReqRecords
      <4>3. ~ EndStream(r) /\ q.last_error \in Errors /\ NoError \in Errors
        BY <1>0, <3>3 DEF EndStream, Complete, Errors, ReqRecords
      <4> HIDE DEF x, q
      <4>. QED BY <4>2, <4>3
    <3>4. CASE EndStream(r)
      <4>1. PICK err \in UpstreamErrors \union {NoError} :
              x = [q EXCEPT !.at = "stream_ended", !.last_error = err,
                            !.attempts = Append(@, Attempted(guard[r],
                               IF err = NoError THEN "Succeeded" ELSE "Failed", err))]
        BY <1>0, <2>2, <3>4 DEF EndStream
      <4>2. err \in Errors
        BY DEF Errors
      <4> HIDE DEF x, q
      <4>3. CASE err = NoError
        BY <3>4, <4>1, <4>2, <4>3
      <4>4. CASE err # NoError
        BY <3>4, <4>1, <4>2, <4>4
      <4>. QED BY <4>3, <4>4
    <3>. QED BY <1>8, <3>1, <3>2, <3>3, <3>4
  <2>5. PICK p \in {"failing", "backing_off", "completing", "stream_ended"},
           err \in Errors, st \in {"Succeeded", "Failed", "Retried"},
           told \in Errors :
          /\ x = [q EXCEPT !.at = p, !.last_error = err,
                           !.attempts = Append(@, Attempted(guard[r], st, told))]
          /\ p = "stream_ended" <=> EndStream(r)
          /\ p \in {"failing", "backing_off"} => told = err /\ err # NoError
          /\ p = "failing" => \/ q.job.strategy # "Fallback"
                              \/ err = "invalid" \/ q.index + 1 = Len(q.job.order)
          /\ (p = "backing_off") <=> (st = "Retried")
          /\ p = "backing_off" => q.index + 1 < Len(q.job.order)
    BY <2>4
  <2> DEFINE a == Attempted(guard[r], st, told)
  <2>6. a \in AttemptRecords /\ a.endpoint = guard[r] /\ a.status = st /\ a.error = told
    BY <2>2 DEF Attempted, AttemptRecords
  <2>7. /\ x.at = p /\ x.last_error = err /\ x.attempts = Append(q.attempts, a)
        /\ x.job = q.job /\ x.index = q.index /\ x.skipped = q.skipped /\ x.result = q.result
    BY <1>0, <2>5 DEF ReqRecords
  <2>8. /\ p = "stream_ended" <=> q.at = "streaming"
        /\ p \in {"failing", "backing_off"} => a.error = err /\ err # NoError
        /\ p = "failing" => \/ q.job.strategy # "Fallback"
                            \/ err = "invalid" \/ q.index + 1 = Len(q.job.order)
        /\ (p = "backing_off") <=> (a.status = "Retried")
        /\ p = "backing_off" => q.index + 1 < Len(q.job.order)
    BY <2>1, <2>5, <2>6
  <2> HIDE DEF a, q, x
  <2>. QED BY <1>0, <2>1, <2>2, <2>6, <2>7, <2>8, TallyEnds, ZenonT(60)
<1>. QED
  BY <1>3, <1>4, <1>5, <1>6, <1>7, <1>8 DEF Progress, Walk, Attempt, Finish, Stream


(* What a step does to the story: it tells one event at most, and what the *)
(* record then says is what was told.                                      *)
LEMMA StepKeepsAccount ==
    ASSUME Outcomes, NEW r \in Requests, Start(r) \/ Progress(r) \/ Cancel(r), Slots',
           Tally(req'[r])
    PROVE  hooks'[r] \in Seq(HookEvents) /\ Account(req'[r], hooks'[r])
<1> DEFINE q == req[r]
           x == req'[r]
           story == hooks[r]
           more == hooks'[r]
<1> SUFFICES more \in Seq(HookEvents) /\ Account(x, more)
  OBVIOUS
<1>0. /\ req \in [Requests -> ReqRecords] /\ q \in ReqRecords /\ x \in ReqRecords
      /\ hooks \in [Requests -> Seq(HookEvents)] /\ story \in Seq(HookEvents)
      /\ Account(q, story) /\ Tally(q) /\ Tally(x)
  BY DEF Outcomes, Slots, Typed
<1>1. /\ q.at \in AtCandidate => q.index < Len(q.job.order) /\ Candidate(r) \in Endpoints
      /\ q.at \in Holding => guard[r] = Candidate(r)
      /\ Candidate(r) = q.job.order[q.index + 1]
  BY CandidateIsEndpoint DEF Outcomes, Slots, SlotFollowsCandidate, Candidate
<1>2. CASE Admit(r) \/ Refuse(r) \/ Exhausted(r) \/ Backoff(r) \/ ReturnFailure(r)
            \/ ReturnSuccess(r) \/ ReturnStream(r) \/ SettleStream(r) \/ Cancel(r)
  <2>1. more = story
    BY <1>2 DEF Admit, Refuse, Exhausted, Backoff, ReturnFailure, ReturnSuccess,
        ReturnStream, SettleStream, Cancel
  <2>2. /\ x.attempts = q.attempts /\ q.at # "over"
        /\ x.job = q.job /\ (x.index = q.index \/ x.at = "scan")
        /\ \/ x.at \in {"admitted", "refused", "failing", "scan"} /\ q.at \in {"scan", "backing_off"}
           \/ x.at = "over" /\ q.at = "scan" /\ x.result \in {"AllEndpointsSaturated", "NoAvailableEndpoint"}
           \/ x.at = "over" /\ q.at \in Reported
           \/ x.at = "streaming" /\ q.at = "opening"
           \/ x.at = "over" /\ x.result = "Cancelled"
    <3>1. CASE Admit(r) \/ Refuse(r) \/ Backoff(r)
      BY <1>0, <3>1 DEF Admit, Refuse, Backoff, ReqRecords
    <3>2. CASE Exhausted(r)
      BY <1>0, <3>2 DEF Exhausted, ReqRecords
    <3>3. CASE ReturnFailure(r) \/ ReturnSuccess(r) \/ SettleStream(r)
      BY <1>0, <3>3 DEF ReturnFailure, ReturnSuccess, SettleStream, ReqRecords, Reported
    <3>4. CASE ReturnStream(r) \/ Cancel(r)
      BY <1>0, <3>4 DEF ReturnStream, Cancel, ReqRecords, Suspended
    <3>. QED BY <1>2, <3>1, <3>2, <3>3, <3>4
  <2> HIDE DEF x, q, more, story
  <2>3. (x.at = "over" /\ x.result \in {"AllEndpointsSaturated", "NoAvailableEndpoint"})
          => x.attempts = <<>>
    BY <1>0 DEF Tally, ResultFollows
  <2>4. /\ x.at \notin Reported
        /\ x.at \in UnderWay => q.at \in UnderWay /\ x.job = q.job /\ x.index = q.index
        /\ q.at \in UnderWay => x.at \in UnderWay \/ (x.at = "over" /\ x.result = "Cancelled")
        /\ q.at \in Reported => x.at = "over"
        /\ (x.at = "over" /\ x.result # "Cancelled" /\ x.attempts # <<>>) => q.at \in Reported
    BY <2>2, <2>3 DEF Reported, UnderWay
  <2>. QED BY <1>0, <2>1, <2>2, <2>4, AccountMoves
<1>3. CASE Start(r) \/ Skip(r) \/ OpenStream(r) \/ ReportStream(r)
  <2>1. PICK e \in HookEvents :
          /\ more = Append(story, e)
          /\ e.event \notin {"attempt_started", "attempt_finished", "request_finished"}
    <3>1. CASE Start(r)
      <4>1. [event |-> "request_started"] \in HookEvents
        BY DEF HookEvents
      <4>. QED BY <1>0, <3>1, <4>1 DEF Start, Tell
    <3>2. CASE Skip(r) \/ OpenStream(r) \/ ReportStream(r)
      <4>1. q.at \in AtCandidate /\ Candidate(r) \in Endpoints
            /\ (OpenStream(r) => guard[r] = Candidate(r))
        BY <1>1, <3>2 DEF Skip, OpenStream, ReportStream, AtCandidate, Holding
      <4>2. \A kind \in {"attempt_skipped", "stream_started", "stream_completed", "stream_aborted"} :
              [event |-> kind, endpoint |-> Candidate(r)] \in HookEvents
        BY <4>1 DEF HookEvents
      <4>3. \E kind \in {"attempt_skipped", "stream_started", "stream_completed", "stream_aborted"} :
              more = Append(story, [event |-> kind, endpoint |-> Candidate(r)])
        BY <1>0, <3>2, <4>1 DEF Skip, OpenStream, ReportStream, Tell
      <4>. QED BY <4>2, <4>3
    <3>. QED BY <1>3, <3>1, <3>2
  <2>2. /\ x.attempts = q.attempts
        /\ \/ x.at = "scan" /\ q.at \in {"idle", "refused"}
           \/ x.at = "opening" /\ q.at = "executing" /\ x.job = q.job /\ x.index = q.index
           \/ x.at = "stream_told" /\ q.at = "stream_ended"
    BY <1>0, <1>3 DEF Start, Skip, OpenStream, ReportStream, ReqRecords
  <2>3. more \in Seq(HookEvents)
    BY <1>0, <2>1
  <2> HIDE DEF x, q, more, story
  <2>4. /\ x.at \notin Reported /\ q.at \notin Reported /\ q.at # "over" /\ x.at # "over"
        /\ x.at \in UnderWay => q.at \in UnderWay /\ x.job = q.job /\ x.index = q.index
        /\ q.at \in UnderWay => x.at \in UnderWay
    BY <2>2 DEF Reported, UnderWay
  <2>. QED BY <1>0, <2>1, <2>2, <2>3, <2>4, AccountMoves
<1>4. CASE StartAttempt(r)
  <2> DEFINE e == [event |-> "attempt_started", endpoint |-> Candidate(r),
                   number |-> Len(q.attempts)]
  <2>1. more = Append(story, e) /\ q.at = "admitted"
    BY <1>0, <1>4 DEF StartAttempt, Tell
  <2>2. x.at = "executing" /\ x.attempts = q.attempts /\ x.job = q.job /\ x.index = q.index
    BY <1>0, <1>4 DEF StartAttempt, ReqRecords
  <2>3. e \in HookEvents
    <3>1. Candidate(r) \in Endpoints /\ Len(q.attempts) \in Nat
      BY <1>0, <1>1, <2>1 DEF AtCandidate, Holding, ReqRecords
    <3>. QED BY <3>1 DEF HookEvents
  <2>4. /\ e.event = "attempt_started" /\ e.number = Len(q.attempts)
        /\ e.endpoint = x.job.order[x.index + 1]
    BY <1>1, <2>2
  <2>5. q.at \notin UnderWay \union Reported \union {"over"} /\ x.at \in UnderWay
    BY <2>1, <2>2 DEF UnderWay, Reported
  <2>6. more \in Seq(HookEvents)
    BY <1>0, <2>1, <2>3
  <2>7. more = Append(story, e)
    BY <2>1
  <2> HIDE DEF x, q, more, story, e
  <2>. QED BY <1>0, <2>2, <2>3, <2>4, <2>5, <2>6, <2>7, AccountStarts
<1>5. CASE DriverMissing(r) \/ FailUpstream(r) \/ Complete(r) \/ EndStream(r)
  <2>1. /\ q.at \in UnderWay /\ guard[r] = Candidate(r) /\ Candidate(r) \in Endpoints
    BY <1>1, <1>5 DEF DriverMissing, FailUpstream, Complete, EndStream, UnderWay, Holding,
        AtCandidate
  <2>2. \E p \in {"failing", "backing_off", "completing", "stream_ended"},
           st \in {"Succeeded", "Failed", "Retried"}, told \in Errors :
          /\ x.at = p
          /\ x.attempts = Append(q.attempts, Attempted(Candidate(r), st, told))
          /\ more = Append(story, FinishedEvent(Candidate(r), st = "Succeeded"))
    <3> USE DEF Tell
    <3>1. CASE DriverMissing(r)
      BY <1>0, <2>1, <3>1 DEF DriverMissing, ReqRecords, Errors
    <3>2. CASE FailUpstream(r)
      <4> DEFINE retry(err) == /\ q.index + 1 < Len(q.job.order)
                               /\ ShouldRetry(q.job, err)
                 p(err) == IF retry(err) THEN "backing_off" ELSE "failing"
                 st(err) == IF retry(err) THEN "Retried" ELSE "Failed"
      <4>1. PICK err \in UpstreamErrors :
              req' = [req EXCEPT ![r].at = p(err), ![r].last_error = err,
                        ![r].attempts = Append(@, Attempted(guard[r], st(err), err))]
        BY <3>2 DEF FailUpstream
      <4>2. /\ p(err) \in {"failing", "backing_off"} /\ st(err) \in {"Failed", "Retried"}
            /\ err \in Errors
        BY DEF Errors
      <4>3. more = Append(story, FinishedEvent(Candidate(r), FALSE))
        BY <1>0, <2>1, <3>2 DEF FailUpstream
      <4> HIDE DEF p, st
      <4>4. x.at = p(err) /\ x.attempts = Append(q.attempts, Attempted(Candidate(r), st(err), err))
        BY <1>0, <2>1, <4>1 DEF ReqRecords
      <4>5. (st(err) = "Succeeded") = FALSE
        BY <4>2
      <4>6. more = Append(story, FinishedEvent(Candidate(r), st(err) = "Succeeded"))
        BY <4>3, <4>5
      <4> HIDE DEF x, q, more, story
      <4>. QED BY <4>2, <4>4, <4>6
    <3>3. CASE Complete(r)
      BY <1>0, <2>1, <3>3 DEF Complete, ReqRecords, Errors
    <3>4. CASE EndStream(r)
      <4>0. PICK err \in UpstreamErrors \union {NoError} :
              /\ req' = [req EXCEPT ![r].at = "stream_ended", ![r].last_error = err,
                               ![r].attempts = Append(@, Attempted(Candidate(r),
                                    IF err = NoError THEN "Succeeded" ELSE "Failed", err))]
              /\ Tell(r, FinishedEvent(Candidate(r), err = NoError))
        BY <3>4 DEF EndStream
      <4>1. /\ x.at = "stream_ended"
            /\ x.attempts = Append(q.attempts, Attempted(Candidate(r),
                               IF err = NoError THEN "Succeeded" ELSE "Failed", err))
            /\ more = Append(story, FinishedEvent(Candidate(r), err = NoError))
        <5> DEFINE ok == err = NoError
        <5>1. Tell(r, FinishedEvent(Candidate(r), ok))
          BY <4>0
        <5> HIDE DEF ok
        <5>2. more = Append(story, FinishedEvent(Candidate(r), ok))
          BY <1>0, <5>1
        <5>. QED BY <1>0, <4>0, <5>2 DEF ReqRecords, ok
      <4>2. err \in Errors
        BY DEF Errors
      <4> HIDE DEF x, q, more, story
      <4>3. CASE err = NoError
        BY <4>1, <4>2, <4>3
      <4>4. CASE err # NoError
        <5>1. (err = NoError) = FALSE /\ ("Failed" = "Succeeded") = FALSE
          BY <4>4
        <5>. QED BY <4>1, <4>2, <4>4, <5>1
      <4>. QED BY <4>3, <4>4
    <3>. QED BY <1>5, <3>1, <3>2, <3>3, <3>4
  <2>3. PICK p \in {"failing", "backing_off", "completing", "stream_ended"},
           st \in {"Succeeded", "Failed", "Retried"}, told \in Errors :
          /\ x.at = p
          /\ x.attempts = Append(q.attempts, Attempted(Candidate(r), st, told))
          /\ more = Append(story, FinishedEvent(Candidate(r), st = "Succeeded"))
    BY <2>2
  <2> DEFINE a == Attempted(Candidate(r), st, told)
             e == FinishedEvent(Candidate(r), st = "Succeeded")
  <2>4. a \in AttemptRecords /\ a.endpoint = Candidate(r) /\ a.status = st
    BY <2>1 DEF Attempted, AttemptRecords
  <2>5. /\ e \in HookEvents /\ e.event = "attempt_finished" /\ e.endpoint = Candidate(r)
        /\ e.success = (st = "Succeeded")
    BY <2>1 DEF FinishedEvent, HookEvents
  <2>6. more = Append(story, e) /\ x.attempts = Append(q.attempts, a)
    BY <2>3
  <2>7. more \in Seq(HookEvents)
    BY <1>0, <2>5, <2>6
  <2>8. x.at \notin UnderWay \union Reported \union {"over"}
    BY <2>3 DEF UnderWay, Reported
  <2> HIDE DEF x, q, more, story, a, e
  <2>9. Account(x, Append(story, e))
    BY <1>0, <1>1, <2>1, <2>4, <2>5, <2>6, <2>8, AccountEnds
  <2>. QED BY <2>6, <2>7, <2>9
<1>6. CASE ReportFailure(r) \/ ReportSuccess(r) \/ ReportStreamRequest(r)
  <2> DEFINE e == ReportEvent(q.attempts)
  <2>1. more = Append(story, e)
    BY <1>0, <1>6 DEF ReportFailure, ReportSuccess, ReportStreamRequest, Tell
  <2>2. /\ x.at \in Reported /\ x.attempts = q.attempts
        /\ q.at \notin UnderWay \union Reported \union {"over"}
    BY <1>0, <1>6 DEF ReportFailure, ReportSuccess, ReportStreamRequest, ReqRecords, Reported,
        UnderWay
  <2>3. e \in HookEvents /\ e.event = "request_finished" /\ e.attempts = q.attempts
    BY <1>0 DEF ReportEvent, HookEvents, ReqRecords
  <2>4. more \in Seq(HookEvents)
    BY <1>0, <2>1, <2>3
  <2> HIDE DEF x, q, more, story, e
  <2>. QED BY <1>0, <2>1, <2>2, <2>3, <2>4, AccountReports
<1>. QED
  BY <1>2, <1>3, <1>4, <1>5, <1>6 DEF Progress, Walk, Attempt, Finish, Stream


(* The other requests' records and stories stay as they were.              *)
LEMMA OthersStay ==
    ASSUME Outcomes, NEW r \in Requests, Start(r) \/ Progress(r) \/ Cancel(r)
    PROVE  /\ hooks' \in [Requests -> {hooks'[q] : q \in Requests}]
           /\ \A q \in Requests : q # r => req'[q] = req[q] /\ hooks'[q] = hooks[q]
<1>0. /\ req \in [Requests -> ReqRecords] /\ hooks \in [Requests -> Seq(HookEvents)]
  BY DEF Outcomes, Slots, Typed
<1> DEFINE Others == /\ \E h : hooks' = [hooks EXCEPT ![r] = h]
                     /\ \A q \in Requests : q # r => req'[q] = req[q]
<1>1. Others
  <2>0. hooks = [hooks EXCEPT ![r] = hooks[r]]
    BY <1>0
  <2> USE DEF Tell
  <2>1. CASE Start(r) \/ Admit(r) \/ Refuse(r) \/ Skip(r) \/ Exhausted(r) \/ Cancel(r)
    BY <1>0, <2>0, <2>1 DEF Start, Admit, Refuse, Skip, Exhausted, Cancel
  <2>2. CASE StartAttempt(r) \/ DriverMissing(r) \/ Complete(r) \/ OpenStream(r)
    BY <1>0, <2>0, <2>2 DEF StartAttempt, DriverMissing, Complete, OpenStream
  <2>3. CASE FailUpstream(r)
    BY <1>0, <2>3 DEF FailUpstream
  <2>4. CASE Finish(r)
    BY <1>0, <2>0, <2>4 DEF Finish, Backoff, ReportFailure, ReturnFailure, ReportSuccess,
        ReturnSuccess, ReturnStream
  <2>5. CASE EndStream(r)
    BY <1>0, <2>5 DEF EndStream
  <2>6. CASE ReportStream(r) \/ ReportStreamRequest(r) \/ SettleStream(r)
    BY <1>0, <2>0, <2>6 DEF ReportStream, ReportStreamRequest, SettleStream
  <2>. QED
    BY <2>1, <2>2, <2>3, <2>4, <2>5, <2>6 DEF Progress, Walk, Attempt, Stream
<1>. QED BY <1>0, <1>1

LEMMA OutcomesStep == Outcomes /\ [Next]_vars => Outcomes'
<1>1. ASSUME Outcomes, NEW r \in Requests, Start(r) \/ Progress(r) \/ Cancel(r)
      PROVE  Outcomes'
  <2>1. Slots'
    BY <1>1, StepKeepsSlots DEF Outcomes
  <2>2. Tally(req'[r]) /\ hooks'[r] \in Seq(HookEvents) /\ Account(req'[r], hooks'[r])
    BY <1>1, <2>1, StepKeepsTally, StepKeepsAccount
  <2>3. /\ hooks' \in [Requests -> {hooks'[q] : q \in Requests}]
        /\ \A q \in Requests : q # r => req'[q] = req[q] /\ hooks'[q] = hooks[q]
    BY <1>1, OthersStay
  <2>4. \A q \in Requests : /\ hooks'[q] \in Seq(HookEvents)
                            /\ Tally(req'[q]) /\ Account(req'[q], hooks'[q])
    BY <1>1, <2>2, <2>3 DEF Outcomes
  <2>5. hooks' \in [Requests -> Seq(HookEvents)]
    BY <2>3, <2>4
  <2>. QED BY <2>1, <2>4, <2>5 DEF Outcomes
<1>2. Outcomes /\ UNCHANGED vars => Outcomes'
  <2> SUFFICES ASSUME Outcomes, UNCHANGED vars PROVE Outcomes'
    OBVIOUS
  <2>1. Slots'
    BY DEF Outcomes, Slots, Typed, SlotFollowsCandidate, Candidate, vars
  <2>. QED BY <2>1 DEF Outcomes, vars
<1>. QED BY <1>1, <1>2 DEF Next

(* The invariant of the loop: the slots, and for each request the counts   *)
(* of candidates, attempts and skips and the story told to the hooks.      *)
THEOREM OutcomesAlways == Spec => []Outcomes
BY OutcomesInit, OutcomesStep, PTL DEF Spec
-----------------------------------------------------------------------------
(* The attempts the hooks hear of are numbered in order, each finishes     *)
(* before the next one starts and on the endpoint it started on, one that  *)
(* has not finished holds its endpoint's slot, and the request's report    *)
(* comes last and lists exactly the finished attempts, with their outcomes *)
(* (emit_attempt_started, emit_attempt_finished, build_request_report).    *)
THEOREM HooksAlwaysTellTheStory == Spec => []HooksTellTheStory
<1>1. ASSUME Outcomes, NEW r \in Requests
      PROVE  LET story == hooks[r]
                 started == Told(story, "attempt_started")
                 finished == Told(story, "attempt_finished")
                 reports == Told(story, "request_finished")
                 n == Cardinality(started)
             IN  /\ \A i \in started : story[i].number + 1 = UpTo(started, i)
                 /\ n - Cardinality(finished) \in {0, 1}
                 /\ \A i \in finished : \E j \in started :
                      /\ j < i /\ UpTo(started, j) = UpTo(finished, i)
                      /\ story[j].endpoint = story[i].endpoint
                 /\ (Running(r) /\ n > Cardinality(finished)) =>
                      \E j \in started : UpTo(started, j) = n /\ guard[r] = story[j].endpoint
                 /\ (req[r].at = "over" /\ req[r].result # "Cancelled" /\ started # {})
                       => reports # {}
                 /\ \A i \in reports :
                      LET told == story[i].attempts
                      IN  /\ i = Len(story)
                          /\ Len(told) = n /\ Cardinality(finished) = n
                          /\ \A k \in finished :
                               LET attempt == told[UpTo(finished, k)]
                               IN  /\ attempt.endpoint = story[k].endpoint
                                   /\ (attempt.status = "Succeeded") = story[k].success
  <2> DEFINE q == req[r]
             story == hooks[r]
             started == Told(story, "attempt_started")
             finished == Told(story, "attempt_finished")
             reports == Told(story, "request_finished")
             n == Cardinality(started)
  <2>1. /\ q \in ReqRecords /\ story \in Seq(HookEvents) /\ Len(q.attempts) \in Nat
        /\ AttemptsTold(q, story) /\ ReportTold(q, story)
        /\ q.at \in Holding => guard[r] = q.job.order[q.index + 1]
    BY <1>1 DEF Outcomes, Slots, Typed, SlotFollowsCandidate, Candidate, Account, ReqRecords
  <2>2. n \in Nat /\ (started = {} <=> n = 0)
    BY <2>1, ToldAre
  <2>3. Cardinality(finished) = Len(q.attempts) /\ n \in {Len(q.attempts), Len(q.attempts) + 1}
    BY <2>1 DEF AttemptsTold
  <2>4. \A i \in started : story[i].number + 1 = UpTo(started, i)
    BY <2>1 DEF AttemptsTold
  <2>5. \A i \in finished :
             LET k == UpTo(finished, i)
             IN  /\ q.attempts[k].endpoint = story[i].endpoint
                 /\ (q.attempts[k].status = "Succeeded") = story[i].success
                 /\ \E j \in started : /\ j < i /\ UpTo(started, j) = k
                                       /\ story[j].endpoint = story[i].endpoint
    BY <2>1 DEF AttemptsTold
  <2>6. (Running(r) /\ n > Cardinality(finished)) =>
           \E j \in started : UpTo(started, j) = n /\ guard[r] = story[j].endpoint
    <3> SUFFICES ASSUME Running(r), n > Cardinality(finished)
                 PROVE  \E j \in started : UpTo(started, j) = n /\ guard[r] = story[j].endpoint
      OBVIOUS
    <3>1. n # Len(q.attempts) /\ q.at # "over"
      BY <2>1, <2>2, <2>3 DEF Running
    <3>2. q.at \in UnderWay
      BY <2>1, <3>1 DEF AttemptsTold
    <3>3. guard[r] = q.job.order[q.index + 1] /\ n = Len(q.attempts) + 1
      BY <2>1, <2>3, <3>1, <3>2 DEF UnderWay, Holding
    <3>4. \E j \in started : /\ UpTo(started, j) = Len(q.attempts) + 1
                             /\ story[j].endpoint = q.job.order[q.index + 1]
      BY <2>1, <3>2 DEF AttemptsTold
    <3>. QED BY <3>3, <3>4
  <2>7. (q.at = "over" /\ q.result # "Cancelled" /\ started # {}) => reports # {}
    <3> SUFFICES ASSUME q.at = "over", q.result # "Cancelled", started # {}
                 PROVE  reports # {}
      OBVIOUS
    <3>1. n = Len(q.attempts) /\ n # 0
      BY <2>1, <2>2 DEF AttemptsTold
    <3>2. q.attempts # <<>>
      BY <3>1
    <3>. QED BY <2>1, <3>2 DEF ReportTold
  <2>8. \A i \in reports : i = Len(story) /\ story[i].attempts = q.attempts /\ n = Len(q.attempts)
    BY <2>1 DEF ReportTold
  <2>9. n - Cardinality(finished) \in {0, 1}
    BY <2>1, <2>3
  <2> HIDE DEF q, story, started, finished, reports, n
  <2>10. \A i \in finished : \E j \in started :
           /\ j < i /\ UpTo(started, j) = UpTo(finished, i)
           /\ story[j].endpoint = story[i].endpoint
    BY <2>5
  <2>11. \A i \in reports :
            LET told == story[i].attempts
            IN  /\ i = Len(story)
                /\ Len(told) = n /\ Cardinality(finished) = n
                /\ \A k \in finished :
                     LET attempt == told[UpTo(finished, k)]
                     IN  /\ attempt.endpoint = story[k].endpoint
                         /\ (attempt.status = "Succeeded") = story[k].success
    BY <2>3, <2>5, <2>8
  <2>. QED BY <2>4, <2>6, <2>7, <2>9, <2>10, <2>11 DEF q, story, started, finished, reports, n
<1>2. Outcomes => HooksTellTheStory
  BY <1>1, Zenon DEF HooksTellTheStory
<1>. QED BY <1>2, OutcomesAlways, PTL

(* A report ends with the attempt that decided the request: earlier ones   *)
(* were retried and had a candidate left to go to, the error returned is   *)
(* the last one's, a request without attempts ends on saturation, and      *)
(* nothing reaches the loop's last line (NoAvailableEndpoint).             *)
THEOREM LastAttemptAlwaysDecides == Spec => []LastAttemptDecides
<1>1. Outcomes => LastAttemptDecides
  <2> SUFFICES ASSUME Outcomes, NEW r \in Requests
               PROVE  LET tried == req[r].attempts
                          n == Len(tried)
                      IN  /\ req[r].result # "NoAvailableEndpoint"
                          /\ req[r].result = "AllEndpointsSaturated"
                               => Told(hooks[r], "attempt_started") = {}
                          /\ \A i \in 1 .. n - 1 : tried[i].status = "Retried"
                          /\ req[r].result = "AllAttemptsFailed"
                               => n > 0 /\ tried[n].error = req[r].last_error
                          /\ (n > 0 /\ tried[n].status = "Retried") =>
                               \E i \in DOMAIN req[r].job.order :
                                  /\ tried[n].endpoint = req[r].job.order[i]
                                  /\ i < Len(req[r].job.order)
    BY DEF LastAttemptDecides
  <2> DEFINE q == req[r]
  <2>1. /\ q \in ReqRecords /\ hooks[r] \in Seq(HookEvents)
        /\ Tally(q) /\ ResultFollows(q) /\ CountsAgree(q) /\ AttemptsRetried(q)
        /\ AttemptsTold(q, hooks[r])
    BY DEF Outcomes, Slots, Typed, Tally, Account
  <2>2. q.result # "NoAvailableEndpoint"
    BY <2>1 DEF ResultFollows, InStream
  <2>3. ASSUME q.result = "AllEndpointsSaturated" PROVE Told(hooks[r], "attempt_started") = {}
    <3>1. q.at = "over" /\ Len(q.attempts) = 0
      BY <2>1, <2>3 DEF ResultFollows, InStream
    <3>2. Cardinality(Told(hooks[r], "attempt_started")) = 0
      BY <2>1, <2>3, <3>1 DEF AttemptsTold
    <3>. QED BY <2>1, <3>2, ToldAre
  <2>4. ASSUME Len(q.attempts) > 0, q.attempts[Len(q.attempts)].status = "Retried"
        PROVE  \E i \in DOMAIN q.job.order :
                  /\ q.attempts[Len(q.attempts)].endpoint = q.job.order[i]
                  /\ i < Len(q.job.order)
    <3>1. q.at # "idle"
      BY <2>1, <2>4 DEF ResultFollows
    <3>2. q.job.order \in Seq(Endpoints)
      BY <2>1, <3>1, JobOrder
    <3>. QED BY <2>1, <2>4, <3>2 DEF AttemptsRetried
  <2>5. /\ \A i \in 1 .. Len(q.attempts) - 1 : q.attempts[i].status = "Retried"
        /\ q.result = "AllAttemptsFailed" =>
             Len(q.attempts) > 0 /\ q.attempts[Len(q.attempts)].error = q.last_error
    BY <2>1 DEF AttemptsRetried, CountsAgree
  <2> HIDE DEF q
  <2>. QED BY <2>2, <2>3, <2>4, <2>5 DEF q
<1>. QED BY <1>1, OutcomesAlways, PTL

(* Under Fallback a request fails only after every candidate was tried or  *)
(* skipped, unless a driver was missing (should_retry_error).              *)
THEOREM FallbackAlwaysTriesAll == Spec => []FallbackTriesAll
<1>1. Outcomes => FallbackTriesAll
  BY DEF Outcomes, Tally, CountsAgree, FallbackTriesAll
<1>. QED BY <1>1, OutcomesAlways, PTL
-----------------------------------------------------------------------------
(* How a step moves the phase of the request's stream.                     *)
LEMMA StreamMoves ==
    ASSUME Outcomes, Outcomes', NEW r \in Requests, Start(r) \/ Progress(r) \/ Cancel(r)
    PROVE  LET from == StreamPhase(req[r])
               to == StreamPhase(req'[r])
           IN  \/ from = to
               \/ <<from, to>> \in { <<"absent", "open">>, <<"open", "attempt_told">>,
                                     <<"attempt_told", "stream_told">>,
                                     <<"stream_told", "request_told">>,
                                     <<"request_told", "released">> }
<1> DEFINE q == req[r]
           x == req'[r]
<1>0. /\ req \in [Requests -> ReqRecords] /\ q \in ReqRecords
      /\ q.at \in InStream => q.result = "Streaming"
      /\ q.at \notin InStream \union {"over"} => q.result = "none"
      /\ x.at \notin InStream \union {"over"} => x.result = "none"
  BY DEF Outcomes, Slots, Typed, Tally, ResultFollows
<1>1. CASE ReturnStream(r)
  <2>1. q.at = "opening" /\ x.at = "streaming"
    BY <1>0, <1>1 DEF ReturnStream, ReqRecords
  <2>. QED BY <2>1 DEF StreamPhase
<1>2. CASE EndStream(r) \/ ReportStream(r) \/ ReportStreamRequest(r)
  <2>1. \/ q.at = "streaming" /\ x.at = "stream_ended"
        \/ q.at = "stream_ended" /\ x.at = "stream_told"
        \/ q.at = "stream_told" /\ x.at = "stream_reported"
    <3>1. CASE EndStream(r)
      BY <1>0, <3>1 DEF EndStream, ReqRecords
    <3>2. CASE ReportStream(r) \/ ReportStreamRequest(r)
      BY <1>0, <3>2 DEF ReportStream, ReportStreamRequest, ReqRecords
    <3>. QED BY <1>2, <3>1, <3>2
  <2>. QED BY <2>1 DEF StreamPhase
<1>3. CASE SettleStream(r)
  <2>1. q.at = "stream_reported" /\ x.at = "over" /\ x.result = "Streaming"
    <3>1. q.at = "stream_reported" /\ req' = [req EXCEPT ![r].at = "over"]
      BY <1>3, Zenon DEF SettleStream
    <3>2. x = [q EXCEPT !.at = "over"]
      BY <1>0, <3>1
    <3>. QED BY <1>0, <3>1, <3>2 DEF ReqRecords, InStream
  <2>. QED BY <2>1 DEF StreamPhase
<1>4. CASE ~ (ReturnStream(r) \/ Stream(r))
  <2>1. /\ q.at \notin InStream \union {"over"}
        /\ x.at \notin InStream
        /\ x.at = "over" => x.result # "Streaming"
    <3>1. CASE Start(r) \/ Admit(r) \/ Refuse(r) \/ Skip(r) \/ Cancel(r)
      BY <1>0, <3>1 DEF Start, Admit, Refuse, Skip, Cancel, Suspended, InStream, ReqRecords
    <3>2. CASE Exhausted(r)
      <4>1. \/ x = [q EXCEPT !.at = "failing"]
            \/ x = [q EXCEPT !.at = "over", !.result = "AllEndpointsSaturated"]
            \/ x = [q EXCEPT !.at = "over", !.result = "NoAvailableEndpoint"]
        BY <1>0, <3>2 DEF Exhausted
      <4>2. q.at = "scan"
        BY <3>2 DEF Exhausted
      <4>. QED BY <1>0, <4>1, <4>2 DEF InStream, ReqRecords
    <3>3. CASE StartAttempt(r) \/ DriverMissing(r) \/ Complete(r) \/ OpenStream(r)
      <4>1. q.at \in {"admitted", "executing"} /\ x.at \in {"executing", "failing", "completing", "opening"}
        <5>1. CASE StartAttempt(r) \/ OpenStream(r)
          BY <1>0, <5>1 DEF StartAttempt, OpenStream, ReqRecords
        <5>2. CASE DriverMissing(r)
          BY <1>0, <5>2 DEF DriverMissing, ReqRecords
        <5>3. CASE Complete(r)
          BY <1>0, <5>3 DEF Complete, ReqRecords
        <5>. QED BY <3>3, <5>1, <5>2, <5>3
      <4>. QED BY <1>0, <4>1 DEF InStream
    <3>5. CASE FailUpstream(r)
      <4>1. q.at = "executing" /\ x.at \in {"backing_off", "failing"}
        BY <1>0, <3>5 DEF FailUpstream, ReqRecords
      <4>. QED BY <1>0, <4>1 DEF InStream
    <3>4. CASE Backoff(r) \/ ReportFailure(r) \/ ReturnFailure(r) \/ ReportSuccess(r)
                 \/ ReturnSuccess(r)
      BY <1>0, <3>4 DEF Backoff, ReportFailure, ReturnFailure, ReportSuccess, ReturnSuccess,
          InStream, ReqRecords
    <3>. QED BY <1>4, <3>1, <3>2, <3>3, <3>4, <3>5 DEF Progress, Walk, Attempt, Finish
  <2>. QED BY <2>1 DEF StreamPhase, InStream
<1>. QED BY <1>1, <1>2, <1>3, <1>4 DEF Stream

(* Of every stream it opens, a request tells the host the end of the       *)
(* attempt, of the stream and of the request, once each and in this order, *)
(* and gives the slot back last (with_streaming_attempt_reports).          *)
THEOREM StreamsAlwaysFollowLifecycle == Spec => StreamsFollowLifecycle
<1>1. ASSUME Outcomes, Outcomes', [Next]_vars
      PROVE  [\A r \in Requests : [Lifecycle(r)!Next]_(Lifecycle(r)!vars)]_req
  <2>1. CASE UNCHANGED vars
    BY <2>1 DEF vars
  <2>2. ASSUME NEW p \in Requests, Start(p) \/ Progress(p) \/ Cancel(p), NEW r \in Requests
        PROVE  [Lifecycle(r)!Next]_(Lifecycle(r)!vars)
    <3>1. CASE StreamPhase(req[r]) = StreamPhase(req'[r])
      BY <3>1 DEF Lifecycle!vars
    <3>2. CASE p = r /\ StreamPhase(req[r]) # StreamPhase(req'[r])
      BY <1>1, <2>2, <3>2, StreamMoves DEF Lifecycle!Next, Lifecycle!Open, Lifecycle!EndAttempt,
         Lifecycle!EndStream, Lifecycle!EndRequest, Lifecycle!Release, Lifecycle!Move
    <3>3. CASE p # r
      <4>1. req'[r] = req[r]
        BY <1>1, <2>2, <3>3, OthersStay
      <4>. QED BY <3>1, <4>1
    <3>. QED BY <3>1, <3>2, <3>3
  <2>. QED BY <1>1, <2>1, <2>2 DEF Next
<1>. QED BY <1>1, OutcomesAlways, PTL DEF Spec, StreamsFollowLifecycle
=============================================================================
