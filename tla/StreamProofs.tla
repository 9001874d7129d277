---------------------------- MODULE StreamProofs ----------------------------
(***************************************************************************)
(* Proofs about a streaming response, for any number of chunks: it keeps   *)
(* the promise of StreamLifecycle, for once the first final event is told  *)
(* the forwarding task can take no further chunk and the report's count is *)
(* final; and a caller that stays misses nothing.                          *)
(*                                                                         *)
(* Drained strengthens the first to an invariant: whoever has passed the   *)
(* drain handshake, by the flag or by the notification, did so after the   *)
(* forwarding task left its loop.  Complete adds for the second that the   *)
(* two channels and what is between them hold, with what was received, the *)
(* chunks that were sent.                                                  *)
(***************************************************************************)
EXTENDS StreamObserve, SequenceTheorems, TLAPS

Told == {"attempt_told", "stream_told", "request_told", "result_sent", "over"}

Drained ==
    /\ finish \in FinishPlaces
    /\ drained_flag \in BOOLEAN /\ woken \in BOOLEAN
    /\ forward \in {"waiting", "sending", "marking", "notifying", "over"}
    /\ drained_flag => forward \in {"notifying", "over"}
    /\ forward \in {"notifying", "over"} => drained_flag
    /\ woken => drained_flag
    /\ finish \in Told \union {"drained"} => drained_flag
    /\ finish \in Told => report = chunk_count

LEMMA DrainedInit == Init => Drained
BY DEF Init, Drained, FinishPlaces, Told

LEMMA DrainedStep == Drained /\ [Next]_vars => Drained'
<1> SUFFICES ASSUME Drained, [Next]_vars PROVE Drained'
  OBVIOUS
<1> USE DEF Drained, FinishPlaces, Told
<1>1. CASE Driver
  BY <1>1 DEF Driver, DriverChunk, DriverSucceed, DriverFail, DriverReturn,
              forwardVars, finishVars
<1>2. CASE Forward
  <2>1. CASE ForwardTake
    BY <2>1 DEF ForwardTake, finishVars
  <2>2. CASE ForwardSend
    BY <2>2 DEF ForwardSend, finishVars
  <2>3. CASE ForwardEnd
    BY <2>3 DEF ForwardEnd, finishVars
  <2>4. CASE MarkFlag
    BY <2>4 DEF MarkFlag, finishVars
  <2>5. CASE MarkNotify
    BY <2>5 DEF MarkNotify, finishVars
  <2>. QED BY <1>2, <2>1, <2>2, <2>3, <2>4, <2>5 DEF Forward
<1>3. CASE Finish
  <2> USE DEF Step, OthersUntouched, forwardVars
  <2>1. CASE FinishAwait \/ CheckDrained \/ RegisterWaiter \/ Woken
    BY <2>1 DEF FinishAwait, CheckDrained, RegisterWaiter, Woken
  <2>2. CASE TellAttempt \/ TellStream \/ TellRequest
    BY <2>2 DEF TellAttempt, TellStream, TellRequest
  <2>3. CASE SendResult \/ DropSlot
    BY <2>3 DEF SendResult, DropSlot
  <2>. QED BY <1>3, <2>1, <2>2, <2>3 DEF Finish
<1>4. CASE Caller
  BY <1>4 DEF Caller, Read, DropStream, IntoCompletion, CompletionReturns, forwardVars,
              finishVars
<1>5. CASE UNCHANGED vars
  BY <1>5 DEF vars
<1>. QED BY <1>1, <1>2, <1>3, <1>4, <1>5 DEF Next

(* The abstract phase, named to keep the steps readable.                   *)
Phase == CASE finish \in {"attempt_told", "stream_told", "request_told"} -> finish
           [] finish = "result_sent" -> "request_told"
           [] finish = "over" -> "released"
           [] OTHER -> "open"

Reported == IF finish \in {"stream_told", "request_told", "result_sent", "over"}
            THEN report ELSE 0

(* Each step of the four actors is a step of the lifecycle or a stutter.   *)
LEMMA LifecycleStep ==
    Drained /\ [Next]_vars => [Lifecycle!Next]_(Lifecycle!vars)
<1> SUFFICES ASSUME Drained, [Next]_vars
             PROVE  Lifecycle!Next \/ UNCHANGED <<Phase, chunk_count, Reported>>
  BY DEF Lifecycle!vars, Phase, Reported
<1> USE DEF Drained, FinishPlaces, Told, Phase, Reported
<1>1. CASE UNCHANGED <<finish, report, chunk_count>>
  BY <1>1
<1>2. CASE ForwardTake
  <2>1. finish \notin Told /\ finish' = finish /\ report' = report
    BY <1>2 DEF ForwardTake, finishVars
  <2>2. chunk_count' = chunk_count \/ chunk_count' = chunk_count + 1
    BY <1>2 DEF ForwardTake
  <2>3. Phase = "open" /\ Phase' = "open" /\ Reported' = Reported
    BY <2>1
  <2>. QED BY <2>2, <2>3 DEF Lifecycle!Next, Lifecycle!Chunk
<1>3. CASE FinishAwait \/ CheckDrained \/ RegisterWaiter \/ Woken
  BY <1>3 DEF FinishAwait, CheckDrained, RegisterWaiter, Woken, Step, OthersUntouched,
              forwardVars
<1>4. CASE TellAttempt
  <2>1. Phase = "open" /\ Phase' = "attempt_told" /\ chunk_count' = chunk_count
        /\ Reported' = Reported
    BY <1>4 DEF TellAttempt, Step, OthersUntouched, forwardVars
  <2>. QED BY <2>1 DEF Lifecycle!Next, Lifecycle!EndAttempt, Lifecycle!Move
<1>5. CASE TellStream
  <2>1. Phase = "attempt_told" /\ Phase' = "stream_told" /\ chunk_count' = chunk_count
        /\ Reported' = chunk_count
    BY <1>5 DEF TellStream, Step, OthersUntouched, forwardVars
  <2>. QED BY <2>1 DEF Lifecycle!Next, Lifecycle!EndStream, Lifecycle!Move
<1>6. CASE TellRequest
  <2>1. Phase = "stream_told" /\ Phase' = "request_told" /\ chunk_count' = chunk_count
        /\ Reported' = Reported
    BY <1>6 DEF TellRequest, Step, OthersUntouched, forwardVars
  <2>. QED BY <2>1 DEF Lifecycle!Next, Lifecycle!EndRequest, Lifecycle!Move
<1>7. CASE SendResult
  BY <1>7 DEF SendResult, Step, OthersUntouched, forwardVars
<1>8. CASE DropSlot
  <2>1. Phase = "request_told" /\ Phase' = "released" /\ chunk_count' = chunk_count
        /\ Reported' = Reported
    BY <1>8 DEF DropSlot, Step, OthersUntouched, forwardVars
  <2>. QED BY <2>1 DEF Lifecycle!Next, Lifecycle!Release, Lifecycle!Move
<1>9. CASE Driver \/ Caller \/ ForwardSend \/ ForwardEnd \/ MarkFlag \/ MarkNotify
  <2>1. UNCHANGED <<finish, report, chunk_count>>
    BY <1>9 DEF Driver, DriverChunk, DriverSucceed, DriverFail, DriverReturn, Caller, Read,
                DropStream, IntoCompletion, CompletionReturns, ForwardSend, ForwardEnd,
                MarkFlag, MarkNotify, forwardVars, finishVars
  <2>. QED BY <2>1, <1>1
<1>10. CASE UNCHANGED vars
  BY <1>10, <1>1 DEF vars
<1>. QED BY <1>2, <1>3, <1>4, <1>5, <1>6, <1>7, <1>8, <1>9, <1>10 DEF Next, Forward, Finish

(* For any number of chunks and any caller, the host is told of a stream   *)
(* as StreamLifecycle says: chunk events first, three final events in      *)
(* order, a report that counts every chunk told, the slot freed last.      *)
THEOREM StreamFollowsLifecycle == Spec => FollowsLifecycle
<1>1. Spec => []Drained
  BY DrainedInit, DrainedStep, PTL DEF Spec
<1>. QED BY <1>1, LifecycleStep, PTL DEF Spec, FollowsLifecycle
-----------------------------------------------------------------------------
(* The second invariant: the items a caller received, those on their way   *)
(* and those the driver's channel holds are together the chunks sent, in   *)
(* order, and at most one error after them; what was counted is what left  *)
(* the driver's channel, the error aside.                                  *)

Delivered == (received \o outer) \o carried
Items == Delivered \o inner

Numbered(items, n) ==
    /\ Len(items) \in {n, n + 1}
    /\ \A k \in 1 .. n : items[k] = k
    /\ Len(items) = n + 1 => items[n + 1] = Error

Channels ==
    /\ received \in Seq(Nat) /\ outer \in Seq(Nat) /\ carried \in Seq(Nat) /\ inner \in Seq(Nat)
    /\ sent \in Nat /\ chunk_count \in Nat

InFull ==
    /\ detached = FALSE
    /\ Numbered(Items, sent)
    /\ driver = "streaming" => Len(Items) = sent
    /\ chunk_count = IF Len(Delivered) <= sent THEN Len(Delivered) ELSE sent
    /\ forward # "sending" => carried = <<>>
    /\ forward \in {"marking", "notifying", "over"} => driver # "streaming" /\ inner = <<>>

Complete ==
    /\ Channels /\ Drained
    /\ result # "none" => finish \in {"result_sent", "over"}
    /\ caller # "gone" => InFull

LEMMA HeadMoves ==
    ASSUME NEW s \in Seq(Nat), NEW t \in Seq(Nat), t # <<>>
    PROVE  /\ Head(t) \in Nat /\ Tail(t) \in Seq(Nat) /\ <<Head(t)>> \in Seq(Nat)
           /\ Append(s, Head(t)) \in Seq(Nat)
           /\ Append(s, Head(t)) \o Tail(t) = s \o t
           /\ (s \o <<Head(t)>>) \o Tail(t) = s \o t
<1>1. /\ Head(t) \in Nat /\ Tail(t) \in Seq(Nat)
      /\ Head(t) = t[1] /\ Len(t) \in Nat /\ Len(t) > 0
  BY HeadTailProperties
<1>2. t = <<Head(t)>> \o Tail(t)
  <2>1. SubSeq(t, 1, Len(t)) = <<t[1]>> \o SubSeq(t, 1 + 1, Len(t))
    <3>1. 1 \in 1 .. Len(t) /\ Len(t) \in 1 .. Len(t)
      BY <1>1
    <3>. QED BY <3>1, SubSeqRecursiveFirst
  <2>2. Tail(t) = SubSeq(t, 2, Len(t)) /\ t = SubSeq(t, 1, Len(t))
    BY TailIsSubSeq, SubSeqFull
  <2>. QED BY <1>1, <2>1, <2>2
<1>3. <<Head(t)>> \in Seq(Nat)
  BY <1>1
<1>4. Append(s, Head(t)) = s \o <<Head(t)>> /\ Append(s, Head(t)) \in Seq(Nat)
  BY <1>1, AppendIsConcat, AppendProperties
<1>5. (s \o <<Head(t)>>) \o Tail(t) = s \o (<<Head(t)>> \o Tail(t))
  BY <1>1, <1>3, ConcatAssociative
<1>. QED BY <1>1, <1>2, <1>3, <1>4, <1>5

LEMMA AppendMoves ==
    ASSUME NEW s \in Seq(Nat), NEW t \in Seq(Nat), NEW e \in Nat
    PROVE  s \o Append(t, e) = Append(s \o t, e) /\ Append(t, e) \in Seq(Nat)
<1>1. /\ Append(t, e) = t \o <<e>> /\ s \o t \in Seq(Nat)
      /\ Append(t, e) \in Seq(Nat)
  BY AppendIsConcat, AppendProperties, ConcatProperties
<1>4. <<e>> \in Seq(Nat)
  OBVIOUS
<1>2. Append(s \o t, e) = (s \o t) \o <<e>>
  BY <1>1, AppendIsConcat
<1>3. (s \o t) \o <<e>> = s \o (t \o <<e>>)
  BY <1>4, ConcatAssociative
<1>. QED BY <1>1, <1>2, <1>3

LEMMA Regroup ==
    \A s, t, u \in Seq(Nat) : (s \o t) \o u = s \o (t \o u)
<1> SUFFICES ASSUME NEW s \in Seq(Nat), NEW t \in Seq(Nat), NEW u \in Seq(Nat)
             PROVE  (s \o t) \o u = s \o (t \o u)
  OBVIOUS
<1>. QED BY ConcatAssociative, SMTT(40)

LEMMA AppendIs ==
    ASSUME NEW s \in Seq(Nat), NEW e \in Nat
    PROVE  /\ Len(Append(s, e)) = Len(s) + 1
           /\ \A i \in 1 .. Len(s) : Append(s, e)[i] = s[i]
           /\ Append(s, e)[Len(s) + 1] = e
OBVIOUS

LEMMA Lengths ==
    ASSUME Channels
    PROVE  /\ Delivered \in Seq(Nat) /\ Items \in Seq(Nat)
           /\ received \o outer \in Seq(Nat)
           /\ Len(Delivered) \in Nat /\ Len(Items) \in Nat /\ Len(inner) \in Nat
           /\ Len(Items) = Len(Delivered) + Len(inner)
           /\ \A k \in 1 .. Len(inner) : Items[Len(Delivered) + k] = inner[k]
<1>1. received \o outer \in Seq(Nat)
  BY ConcatProperties DEF Channels
<1>2. Delivered \in Seq(Nat)
  BY <1>1, ConcatProperties DEF Channels, Delivered
<1>3. /\ inner \in Seq(Nat) /\ Len(inner) \in Nat /\ Len(Delivered) \in Nat
  BY <1>2 DEF Channels
<1> DEFINE d == Delivered
<1> HIDE DEF d
<1>4. /\ d \in Seq(Nat) /\ Len(d) \in Nat
  BY <1>2, <1>3 DEF d
<1>5. /\ d \o inner \in Seq(Nat) /\ Len(d \o inner) = Len(d) + Len(inner)
      /\ \A i \in 1 .. Len(d) + Len(inner) : (d \o inner)[i] =
                     IF i <= Len(d) THEN d[i] ELSE inner[i - Len(d)]
  BY <1>3, <1>4, ConcatProperties
<1>6. Items = d \o inner
  BY DEF Items, d
<1>7. \A k \in 1 .. Len(inner) : Items[Len(d) + k] = inner[k]
  <2> SUFFICES ASSUME NEW k \in 1 .. Len(inner) PROVE Items[Len(d) + k] = inner[k]
    OBVIOUS
  <2>1. /\ Len(d) + k \in 1 .. Len(d) + Len(inner) /\ ~ (Len(d) + k <= Len(d))
        /\ Len(d) + k - Len(d) = k
    BY <1>3, <1>4
  <2>. QED BY <1>5, <1>6, <2>1
<1>. QED BY <1>1, <1>2, <1>3, <1>5, <1>6, <1>7 DEF d
-----------------------------------------------------------------------------
LEMMA CompleteInit == Init => Complete
<1> SUFFICES ASSUME Init PROVE Complete
  OBVIOUS
<1>1. Channels /\ Drained
  BY DrainedInit DEF Init, Channels
<1>2. Delivered = <<>> /\ Items = <<>> /\ Len(<<>>) = 0
  BY DEF Init, Delivered, Items
<1>3. InFull
  BY <1>2 DEF Init, InFull, Numbered
<1>. QED BY <1>1, <1>3 DEF Init, Complete

(* What each kind of step does to the items on their way.                  *)
LEMMA ChannelsKept ==
    ASSUME Channels, Drained, [Next]_vars
    PROVE  Channels'
<1> USE DEF Channels
<1>1. CASE UNCHANGED <<received, outer, carried, inner, sent, chunk_count>>
  BY <1>1
<1>2. CASE DriverChunk \/ DriverFail
  <2>1. inner' \in Seq(Nat)
    <3>1. sent + 1 \in Nat /\ Error \in Nat
      BY DEF Error
    <3>2. Append(inner, sent + 1) \in Seq(Nat) /\ Append(inner, Error) \in Seq(Nat)
      BY <3>1, AppendProperties
    <3>. QED BY <1>2, <3>2 DEF DriverChunk, DriverFail
  <2>2. sent' \in Nat /\ UNCHANGED <<received, outer, carried, chunk_count>>
    BY <1>2 DEF DriverChunk, DriverFail, forwardVars, callerVars, finishVars
  <2>. QED BY <2>1, <2>2
<1>3. CASE ForwardTake
  <2>1. <<Head(inner)>> \in Seq(Nat) /\ Tail(inner) \in Seq(Nat)
    BY <1>3, HeadMoves DEF ForwardTake
  <2>. QED BY <1>3, <2>1 DEF ForwardTake, upstreamVars, callerVars, finishVars
<1>4. CASE ForwardSend
  <2>1. outer \o carried \in Seq(Nat) /\ <<>> \in Seq(Nat)
    BY ConcatProperties
  <2>. QED BY <1>4, <2>1 DEF ForwardSend, upstreamVars, callerVars, finishVars
<1>5. CASE Read
  <2>1. Append(received, Head(outer)) \in Seq(Nat) /\ Tail(outer) \in Seq(Nat)
    BY <1>5, HeadMoves DEF Read
  <2>. QED BY <1>5, <2>1 DEF Read, upstreamVars, forwardVars, finishVars
<1>6. CASE MarkNotify \/ DropStream \/ CompletionReturns
  <2>1. <<>> \in Seq(Nat)
    OBVIOUS
  <2>. QED BY <1>6, <2>1 DEF MarkNotify, DropStream, CompletionReturns, upstreamVars,
      forwardVars, callerVars, finishVars
<1>7. CASE DriverSucceed \/ DriverReturn \/ ForwardEnd \/ MarkFlag \/ IntoCompletion \/ Finish
           \/ UNCHANGED vars
  BY <1>7, <1>1 DEF DriverSucceed, DriverReturn, ForwardEnd, MarkFlag, IntoCompletion, Finish,
     FinishAwait, CheckDrained, RegisterWaiter, Woken, TellAttempt, TellStream, TellRequest,
     SendResult, DropSlot, OthersUntouched, upstreamVars, forwardVars, callerVars, finishVars, vars
<1>. QED BY <1>2, <1>3, <1>4, <1>5, <1>6, <1>7 DEF Next, Driver, Forward, Caller

(* An item leaves the driver's channel, or the caller's, or is passed on.  *)
LEMMA ItemsMove ==
    ASSUME Channels
    PROVE  /\ (ForwardTake /\ carried = <<>>) =>
                Items' = Items /\ Len(Delivered') = Len(Delivered) + 1
           /\ (ForwardSend /\ caller # "gone") => Items' = Items /\ Delivered' = Delivered
           /\ Read => Items' = Items /\ Delivered' = Delivered
<1> USE DEF Channels
<1>0. received \o outer \in Seq(Nat) /\ Delivered \in Seq(Nat)
  BY Lengths
<1>1. ASSUME ForwardTake, carried = <<>>
      PROVE  Items' = Items /\ Len(Delivered') = Len(Delivered) + 1
  <2>1. Delivered = received \o outer
    BY <1>0, <1>1, ConcatEmptySeq DEF Delivered
  <2>2. Delivered' = Delivered \o <<Head(inner)>> /\ Items' = Delivered' \o Tail(inner)
    BY <1>1, <2>1 DEF ForwardTake, Delivered, Items, callerVars
  <2>3. inner # <<>> /\ inner \in Seq(Nat)
    BY <1>1 DEF ForwardTake
  <2>4. (Delivered \o <<Head(inner)>>) \o Tail(inner) = Delivered \o inner
        /\ <<Head(inner)>> \in Seq(Nat)
    BY <1>0, <2>3, HeadMoves
  <2>5. Len(Delivered \o <<Head(inner)>>) = Len(Delivered) + Len(<<Head(inner)>>)
    BY <1>0, <2>4, ConcatProperties
  <2>6. Len(<<Head(inner)>>) = 1
    OBVIOUS
  <2>. QED BY <2>2, <2>4, <2>5, <2>6 DEF Items
<1>2. ASSUME ForwardSend, caller # "gone"
      PROVE  Items' = Items /\ Delivered' = Delivered
  <2>1. /\ outer' = outer \o carried /\ carried' = <<>> /\ received' = received /\ inner' = inner
    BY <1>2 DEF ForwardSend, callerVars
  <2>2. outer \o carried \in Seq(Nat) /\ received \o (outer \o carried) \in Seq(Nat)
    BY ConcatProperties
  <2>3. (received \o (outer \o carried)) \o <<>> = received \o (outer \o carried)
    BY <2>2, ConcatEmptySeq, Zenon
  <2>5. (received \o outer) \o carried = received \o (outer \o carried)
    BY Regroup, Zenon
  <2>4. Delivered' = (received \o (outer \o carried)) \o <<>>
    BY <2>1 DEF Delivered
  <2>. QED BY <2>1, <2>3, <2>4, <2>5 DEF Delivered, Items
<1>3. ASSUME Read
      PROVE  Items' = Items /\ Delivered' = Delivered
  <2>1. /\ outer # <<>> /\ outer' = Tail(outer) /\ received' = Append(received, Head(outer))
        /\ inner' = inner /\ carried' = carried
    BY <1>3 DEF Read, forwardVars
  <2>2. received' \o outer' = received \o outer
    BY <2>1, HeadMoves
  <2>. QED BY <2>1, <2>2 DEF Delivered, Items
<1>. QED BY <1>1, <1>2, <1>3

(* InFull of a step that moves nothing between the channels.               *)
LEMMA InFullStays ==
    ASSUME Channels, InFull,
           UNCHANGED <<received, outer, carried, inner, sent, chunk_count, detached>>,
           forward' # "sending" => carried = <<>>,
           forward' \in {"marking", "notifying", "over"} => driver' # "streaming" /\ inner = <<>>,
           driver' = "streaming" => driver = "streaming"
    PROVE  InFull'
<1>1. Items' = Items /\ Delivered' = Delivered
  BY DEF Items, Delivered
<1>. QED BY <1>1 DEF InFull, Numbered

(* A chunk, or the error after the last one, goes down the channel.        *)
LEMMA SentOn ==
    ASSUME Channels, InFull, Drained, DriverChunk \/ DriverFail
    PROVE  InFull'
<1>1. /\ Delivered \in Seq(Nat) /\ Items \in Seq(Nat)
      /\ Len(Delivered) \in Nat /\ Len(Items) \in Nat /\ Len(inner) \in Nat
      /\ Len(Items) = Len(Delivered) + Len(inner)
      /\ inner \in Seq(Nat) /\ sent \in Nat
  BY Lengths DEF Channels
<1>2. /\ driver = "streaming" /\ detached = FALSE /\ Len(Items) = sent
      /\ \A k \in 1 .. sent : Items[k] = k
      /\ forward \in {"waiting", "sending"} /\ Len(Delivered) <= sent
      /\ chunk_count = Len(Delivered)
      /\ forward # "sending" => carried = <<>>
  BY <1>1 DEF InFull, DriverChunk, DriverFail, Drained, Numbered
<1>3. /\ Delivered' = Delivered /\ UNCHANGED <<forward, carried, chunk_count>>
  BY DEF DriverChunk, DriverFail, Delivered, forwardVars, callerVars
<1>4. \A e \in Nat : /\ Delivered \o Append(inner, e) = Append(Items, e)
                     /\ Len(Append(Items, e)) = sent + 1
                     /\ Append(Items, e)[sent + 1] = e
                     /\ \A k \in 1 .. sent : Append(Items, e)[k] = k
  <2> SUFFICES ASSUME NEW e \in Nat
               PROVE  /\ Delivered \o Append(inner, e) = Append(Items, e)
                      /\ Len(Append(Items, e)) = sent + 1
                      /\ Append(Items, e)[sent + 1] = e
                      /\ \A k \in 1 .. sent : Append(Items, e)[k] = k
    OBVIOUS
  <2>1. Delivered \o Append(inner, e) = Append(Delivered \o inner, e)
    BY <1>1, AppendMoves
  <2>2. /\ Len(Append(Items, e)) = Len(Items) + 1
        /\ \A i \in 1 .. Len(Items) : Append(Items, e)[i] = Items[i]
        /\ Append(Items, e)[Len(Items) + 1] = e
    BY <1>1, AppendIs, Zenon
  <2>. QED BY <1>2, <2>1, <2>2 DEF Items
<1>5. CASE DriverChunk
  <2>1. /\ inner' = Append(inner, sent + 1) /\ sent' = sent + 1 /\ detached' = FALSE
        /\ driver' = "streaming"
    BY <1>5, <1>2 DEF DriverChunk, Listened
  <2>2. Items' = Delivered \o Append(inner, sent + 1)
    BY <2>1, <1>3 DEF Items
  <2>3. sent + 1 \in Nat
    BY <1>1
  <2>4. /\ Len(Items') = sent + 1 /\ Items'[sent + 1] = sent + 1
        /\ \A k \in 1 .. sent : Items'[k] = k
    BY <2>2, <2>3, <1>4
  <2>5. \A k \in 1 .. sent + 1 : k \in 1 .. sent \/ k = sent + 1
    BY <1>1
  <2>6. Numbered(Items', sent')
    BY <2>1, <2>4, <2>5, <1>1 DEF Numbered
  <2>. QED BY <1>1, <1>2, <1>3, <2>1, <2>4, <2>6 DEF InFull
<1>6. CASE DriverFail
  <2>1. /\ inner' = inner \/ inner' = Append(inner, Error)
        /\ sent' = sent /\ detached' = FALSE /\ driver' = "closed"
    BY <1>6, <1>2 DEF DriverFail
  <2>2. Items' = Items \/ Items' = Delivered \o Append(inner, Error)
    BY <2>1, <1>3 DEF Items
  <2>3. Error \in Nat
    BY DEF Error
  <2>4. Items' = Items \/ (/\ Len(Items') = sent + 1 /\ Items'[sent + 1] = Error
                           /\ \A k \in 1 .. sent : Items'[k] = k)
    <3>1. CASE Items' = Items
      BY <3>1, Zenon
    <3>2. CASE Items' = Delivered \o Append(inner, Error)
      <4>1. Items' = Append(Items, Error)
        BY <3>2, <2>3, <1>4, Zenon
      <4>. QED BY <4>1, <2>3, <1>4, Zenon
    <3>. QED BY <2>2, <3>1, <3>2, Zenon
  <2>5. Numbered(Items', sent')
    BY <2>1, <2>4, <1>1, <1>2 DEF Numbered
  <2>. QED BY <1>1, <1>2, <1>3, <2>1, <2>5 DEF InFull
<1>. QED BY <1>5, <1>6

(* What is taken from the channel is the next chunk, or the error.         *)
LEMMA TakenNext ==
    ASSUME Channels, InFull, Drained, ForwardTake
    PROVE  InFull'
<1>1. /\ Len(Delivered) \in Nat /\ Len(Items) \in Nat /\ Len(inner) \in Nat
      /\ Len(Items) = Len(Delivered) + Len(inner)
      /\ \A k \in 1 .. Len(inner) : Items[Len(Delivered) + k] = inner[k]
      /\ inner \in Seq(Nat) /\ sent \in Nat
  BY Lengths DEF Channels
<1>2. /\ forward = "waiting" /\ carried = <<>> /\ inner # <<>> /\ forward' = "sending"
      /\ UNCHANGED <<driver, sent, detached>>
      /\ chunk_count' = IF Head(inner) = Error THEN chunk_count ELSE chunk_count + 1
  BY DEF ForwardTake, InFull, upstreamVars
<1>3. Items' = Items /\ Len(Delivered') = Len(Delivered) + 1
  BY <1>2, ItemsMove
<1>4. Head(inner) = inner[1] /\ 1 \in 1 .. Len(inner)
  BY <1>1, <1>2, HeadTailProperties
<1>5. Head(inner) = Items[Len(Delivered) + 1] /\ Len(Delivered) + 1 <= Len(Items)
  BY <1>1, <1>4
<1>6. /\ Len(Items) \in {sent, sent + 1}
      /\ \A k \in 1 .. sent : Items[k] = k
      /\ Len(Items) = sent + 1 => Items[sent + 1] = Error
      /\ chunk_count = IF Len(Delivered) <= sent THEN Len(Delivered) ELSE sent
  BY DEF InFull, Numbered
<1>7. chunk_count' = IF Len(Delivered') <= sent' THEN Len(Delivered') ELSE sent'
  <2>1. CASE Len(Delivered) + 1 <= sent
    <3>1. Len(Delivered) + 1 \in 1 .. sent
      BY <2>1, <1>1
    <3>2. Head(inner) # Error
      BY <3>1, <1>1, <1>5, <1>6 DEF Error
    <3>. QED BY <3>2, <2>1, <1>1, <1>2, <1>3, <1>6
  <2>2. CASE ~ (Len(Delivered) + 1 <= sent)
    <3>1. Len(Delivered) = sent /\ Len(Items) = sent + 1
      BY <2>2, <1>1, <1>5, <1>6
    <3>2. Head(inner) = Error
      BY <3>1, <1>5, <1>6
    <3>. QED BY <3>1, <3>2, <2>2, <1>1, <1>2, <1>3, <1>6
  <2>. QED BY <2>1, <2>2
<1>. QED BY <1>2, <1>3, <1>7 DEF InFull

LEMMA InFullKept ==
    ASSUME Complete, [Next]_vars, caller' # "gone"
    PROVE  InFull'
<1>1. caller # "gone"
  BY DEF Next, Driver, DriverChunk, DriverSucceed, DriverFail, DriverReturn, Forward,
     ForwardTake, ForwardSend, ForwardEnd, MarkFlag, MarkNotify, Finish, FinishAwait,
     CheckDrained, RegisterWaiter, Woken, TellAttempt, TellStream, TellRequest, SendResult,
     DropSlot, OthersUntouched, Caller, Read, DropStream, IntoCompletion, CompletionReturns,
     callerVars, vars
<1>2. Channels /\ Drained /\ InFull
  BY <1>1 DEF Complete
<1>3. CASE DriverChunk \/ DriverFail
  BY <1>2, <1>3, SentOn
<1>4. CASE ForwardTake
  BY <1>2, <1>4, TakenNext
<1>5. CASE ForwardSend
  <2>1. /\ forward' = "waiting" /\ carried' = <<>>
        /\ UNCHANGED <<driver, sent, detached, chunk_count>>
    BY <1>1, <1>5 DEF ForwardSend, upstreamVars
  <2>2. Items' = Items /\ Delivered' = Delivered
    BY <1>1, <1>2, <1>5, ItemsMove
  <2>. QED BY <1>2, <2>1, <2>2 DEF InFull, Numbered
<1>6. CASE Read
  <2>1. UNCHANGED <<driver, sent, detached, chunk_count, forward, carried, inner>>
    BY <1>6 DEF Read, upstreamVars, forwardVars
  <2>2. Items' = Items /\ Delivered' = Delivered
    BY <1>2, <1>6, ItemsMove
  <2>. QED BY <1>2, <2>1, <2>2 DEF InFull, Numbered
<1>7. CASE DriverSucceed \/ DriverReturn \/ ForwardEnd \/ MarkFlag \/ MarkNotify \/ IntoCompletion
           \/ Finish \/ UNCHANGED vars
  <2>1. UNCHANGED <<received, outer, carried, sent, chunk_count, detached>>
    BY <1>7 DEF DriverSucceed, DriverReturn, ForwardEnd, MarkFlag, MarkNotify, IntoCompletion,
       Finish, FinishAwait, CheckDrained, RegisterWaiter, Woken, TellAttempt, TellStream,
       TellRequest, SendResult, DropSlot, OthersUntouched, upstreamVars, forwardVars,
       callerVars, vars
  <2>2. inner' = inner
    BY <1>7, <1>2 DEF DriverSucceed, DriverReturn, ForwardEnd, MarkFlag, MarkNotify,
       IntoCompletion, Finish, FinishAwait, CheckDrained, RegisterWaiter, Woken, TellAttempt,
       TellStream, TellRequest, SendResult, DropSlot, OthersUntouched, vars, InFull
  <2>3. driver' = "streaming" => driver = "streaming"
    BY <1>7 DEF DriverSucceed, DriverReturn, ForwardEnd, MarkFlag, MarkNotify, IntoCompletion,
       Finish, FinishAwait, CheckDrained, RegisterWaiter, Woken, TellAttempt, TellStream,
       TellRequest, SendResult, DropSlot, OthersUntouched, upstreamVars, vars
  <2>4. /\ forward' # "sending" => carried = <<>>
        /\ forward' \in {"marking", "notifying", "over"} => driver # "streaming" /\ inner = <<>>
    BY <1>7, <1>2 DEF DriverSucceed, DriverReturn, ForwardEnd, MarkFlag, MarkNotify,
       IntoCompletion, Finish, FinishAwait, CheckDrained, RegisterWaiter, Woken, TellAttempt,
       TellStream, TellRequest, SendResult, DropSlot, OthersUntouched, forwardVars, vars, InFull
  <2>. QED BY <1>2, <2>1, <2>2, <2>3, <2>4, InFullStays
<1>8. CASE DropStream \/ CompletionReturns
  BY <1>8 DEF DropStream, CompletionReturns
<1>. QED BY <1>3, <1>4, <1>5, <1>6, <1>7, <1>8 DEF Next, Driver, Forward, Caller

LEMMA CompleteStep == Complete /\ [Next]_vars => Complete'
<1> SUFFICES ASSUME Complete, [Next]_vars PROVE Complete'
  OBVIOUS
<1>1. Channels' /\ Drained'
  BY ChannelsKept, DrainedStep DEF Complete
<1>2. result' # "none" => finish' \in {"result_sent", "over"}
  <2>1. CASE Finish
    BY <2>1 DEF Complete, Finish, FinishAwait, CheckDrained, RegisterWaiter, Woken, TellAttempt,
       TellStream, TellRequest, SendResult, DropSlot, Step
  <2>2. CASE Driver \/ Forward \/ Caller \/ UNCHANGED vars
    BY <2>2 DEF Complete, Driver, DriverChunk, DriverSucceed, DriverFail, DriverReturn, Forward,
       ForwardTake, ForwardSend, ForwardEnd, MarkFlag, MarkNotify, Caller, Read, DropStream,
       IntoCompletion, CompletionReturns, finishVars, vars
  <2>. QED BY <2>1, <2>2 DEF Next
<1>3. caller' # "gone" => InFull'
  BY InFullKept
<1>. QED BY <1>1, <1>2, <1>3 DEF Complete

LEMMA CompleteSuffices == Complete => NothingLost
<1> SUFFICES ASSUME Complete PROVE NothingLost
  OBVIOUS
<1>1. /\ Len(Delivered) \in Nat /\ Len(Items) \in Nat /\ Items \in Seq(Nat)
      /\ Len(Items) = Len(Delivered) + Len(inner)
      /\ inner \in Seq(Nat) /\ sent \in Nat
  BY Lengths DEF Channels, Complete
<1>2. Items = received \o outer \o carried \o inner
  BY DEF Items, Delivered
<1>3. finish \in Told => /\ forward \in {"notifying", "over"}
                         /\ report = chunk_count
  BY DEF Complete, Drained
<1>4. ASSUME caller # "gone"
      PROVE  /\ \A k \in 1 .. sent : k \in DOMAIN Items /\ Items[k] = k
             /\ result # "none" => carried = <<>> /\ inner = <<>>
             /\ finish \in Told => report = sent
  <2>1. InFull
    BY <1>4 DEF Complete
  <2>2. /\ Len(Items) \in {sent, sent + 1} /\ \A k \in 1 .. sent : Items[k] = k
        /\ DOMAIN Items = 1 .. Len(Items)
    BY <1>1, <2>1 DEF InFull, Numbered
  <2>3. \A k \in 1 .. sent : k \in 1 .. Len(Items)
    BY <1>1, <2>2
  <2>4. finish \in Told => carried = <<>> /\ inner = <<>>
    BY <1>3, <2>1 DEF InFull
  <2>5. result # "none" => finish \in Told
    BY DEF Complete, Told
  <2>6. inner = <<>> => Len(inner) = 0
    OBVIOUS
  <2>7. finish \in Told => chunk_count = sent
    BY <1>1, <2>1, <2>2, <2>4, <2>6 DEF InFull
  <2>. QED BY <1>3, <2>2, <2>3, <2>4, <2>5, <2>7
<1>. QED BY <1>2, <1>4 DEF NothingLost, Told

(* For any number of chunks: a caller that keeps reading misses none of    *)
(* them, gets them in order and once, has them all on its channel when its *)
(* result arrives, and the host is told their number.                      *)
THEOREM NothingEverLost == Spec => []NothingLost
<1>1. Spec => []Complete
  BY CompleteInit, CompleteStep, PTL DEF Spec
<1>. QED BY <1>1, CompleteSuffices, PTL
=============================================================================
