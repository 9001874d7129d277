--------------------------- MODULE AnthropicRenderer ---------------------------
(* What an Anthropic client receives of a stream of chat chunks             *)
(* (unigateway-protocol responses/anthropic_stream.rs): native events pass, *)
(* OpenAI chunks become blocks.  Operators take the renderer r and return   *)
(* it with the events of the step in r.out.                                 *)
EXTENDS ReasoningText, ToolCalls

NativeTypes == {"message_start", "content_block_start", "content_block_delta", "content_block_stop",
                "message_delta", "message_stop", "ping"}

Event(type, index, kind, value) == [type |-> type, index |-> index, kind |-> kind, value |-> value]
Plain(type) == Event(type, None, None, None)

NewRenderer(encoding, policy) ==
    [prelude |-> FALSE, next |-> 0, active |-> None, kind |-> None, stop |-> None,
     calls |-> [i \in {} |-> Unknown], native |-> FALSE,
     parser |-> IF encoding THEN NewParser ELSE None, policy |-> policy, out |-> <<>>]

Emit(r, event) == [r EXCEPT !.out = Append(@, event)]

Prelude(r) ==
    IF r.prelude THEN r
    ELSE [Emit(Emit(r, Plain("message_start")), Plain("ping")) EXCEPT !.prelude = TRUE]

CloseBlock(r) ==
    IF r.active = None THEN r
    ELSE LET signed == IF r.kind = "thinking" /\ r.policy = "placeholder"
                       THEN Emit(r, Event("content_block_delta", r.active, "signature", "placeholder"))
                       ELSE r
         IN  [Emit(signed, Event("content_block_stop", r.active, None, None))
                 EXCEPT !.active = None, !.kind = None]

(* Mutant: the block before is left open.                                   *)
OpenBlockOverOpen(r, kind) ==
    IF r.active # None /\ r.kind = kind THEN r
    ELSE [Emit(r, Event("content_block_start", r.next, kind, None))
             EXCEPT !.active = r.next, !.kind = kind, !.next = @ + 1]

OpenBlock(r, kind) ==
    IF r.active # None /\ r.kind = kind THEN r
    ELSE [Emit(CloseBlock(r), Event("content_block_start", r.next, kind, None))
             EXCEPT !.active = r.next, !.kind = kind, !.next = @ + 1]

BlockDelta(r, kind, text) ==
    LET open == OpenBlock(r, kind)
    IN  Emit(open, Event("content_block_delta", open.active, kind, text))

(* Reasoning that was found in the text is a thinking block only under the  *)
(* policy that signs it, and text under the others.                         *)
ShowChunk(r, chunk) ==
    BlockDelta(r, IF chunk.kind = "thinking" /\ r.policy = "placeholder" THEN "thinking" ELSE "text",
               chunk.text)

Show(r, parsed) == FoldLeft(ShowChunk, [r EXCEPT !.parser = parsed.parser], parsed.chunks)

TextDelta(r, text) ==
    IF r.parser = None THEN BlockDelta(r, "text", text) ELSE Show(r, Push(r.parser, text))

FlushText(r) == IF r.parser = None THEN r ELSE Show(r, Finish(r.parser))
-----------------------------------------------------------------------------
SendUpdate(r, index, update) ==
    LET started == IF update.start = None THEN r
                   ELSE Emit(CloseBlock(r), Event("content_block_start", index, "tool_use", update.start))
        grown == IF update.delta = None THEN started
                 ELSE Emit(started, Event("content_block_delta", index, "input_json", update.delta))
    IN  IF update.stop = None THEN grown
        ELSE Emit(grown, Event("content_block_stop", update.stop, None, None))

CallDelta(r, call) ==
    LET known == IF call.index \in DOMAIN r.calls THEN r.calls[call.index] ELSE Unknown
        applied == Apply(known, r.next, call)
    IN  SendUpdate([r EXCEPT !.calls = call.index :> applied.pending @@ @, !.next = applied.next],
                   applied.pending.index, applied.update)

NoFragment(index) == [index |-> index, id |-> None, name |-> None, arguments |-> None]

StopCall(r, index) ==
    LET told == CallDelta(r, NoFragment(index))
        flushed == Flush(told.calls[index])
    IN  SendUpdate([told EXCEPT !.calls[index] = flushed.pending], flushed.pending.index, flushed.update)

StopCalls(r) == FoldLeft(StopCall, r, SetToSortSeq(DOMAIN r.calls, <))

StopReason(finish) ==
    CASE finish = "length"     -> "max_tokens"
      [] finish = "tool_calls" -> "tool_use"
      [] OTHER                 -> "end_turn"

OpenAiChunk(r, raw) ==
    LET finished == IF raw.finish = None THEN r ELSE [r EXCEPT !.stop = StopReason(raw.finish)]
        thought == IF raw.reasoning = None \/ r.policy # "placeholder" THEN finished
                   ELSE BlockDelta(finished, "thinking", raw.reasoning)
        said == IF raw.content \in {None, <<>>} THEN thought ELSE TextDelta(thought, raw.content)
    IN  FoldLeft(CallDelta, said, raw.calls)

(* One item of the stream.                                                  *)
RenderChunk(r, raw) ==
    IF raw.type \in NativeTypes THEN Emit([r EXCEPT !.native = TRUE], raw)
    ELSE IF raw.type = "choices" THEN OpenAiChunk(Prelude(r), raw)
    ELSE Prelude(r)

(* The stream ended and the driver reports success.                         *)
RenderEnd(r, output_text) ==
    LET begun == Prelude(r)
        told == IF begun.next = 0 /\ output_text # <<>> THEN TextDelta(begun, output_text) ELSE begun
        stopped == StopCalls(CloseBlock(FlushText(told)))
        reason == IF r.stop # None THEN r.stop
                  ELSE IF DOMAIN stopped.calls = {} THEN "end_turn" ELSE "tool_use"
    IN  IF r.native THEN r
        ELSE Emit(Emit(stopped, Event("message_delta", None, None, reason)), Plain("message_stop"))
=============================================================================
