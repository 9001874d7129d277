--------------------------- MODULE StreamLifecycle ---------------------------
(***************************************************************************)
(* What the engine promises the host about one streaming response: its     *)
(* chunk events come first, then the end of the attempt, of the stream     *)
(* and of the request are told once each and in this order, the stream's   *)
(* report counts the chunks the host was told of, and the concurrency slot *)
(* is held until all that has been said.                                   *)
(***************************************************************************)
EXTENDS Naturals

VARIABLES phase,     \* how far the stream has got
          chunks,    \* chunk events told
          reported   \* the chunk count of the stream's report

vars == <<phase, chunks, reported>>

Init == phase = "absent" /\ chunks = 0 /\ reported = 0

Move(from, to) == phase = from /\ phase' = to

Open == Move("absent", "open") /\ UNCHANGED <<chunks, reported>>

Chunk == /\ phase = "open"
         /\ chunks' = chunks + 1
         /\ UNCHANGED <<phase, reported>>

EndAttempt == Move("open", "attempt_told") /\ UNCHANGED <<chunks, reported>>

EndStream == /\ Move("attempt_told", "stream_told")
             /\ reported' = chunks
             /\ UNCHANGED chunks

EndRequest == Move("stream_told", "request_told") /\ UNCHANGED <<chunks, reported>>

Release == Move("request_told", "released") /\ UNCHANGED <<chunks, reported>>

Next == Open \/ Chunk \/ EndAttempt \/ EndStream \/ EndRequest \/ Release

Spec == Init /\ [][Next]_vars
=============================================================================
