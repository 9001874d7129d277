----------------------------- MODULE OpenAiAdapter -----------------------------
(* What an OpenAI client receives of a stream of chat chunks               *)
(* (unigateway-protocol responses/openai_chat.rs), one choice per chunk.    *)
(* Operators take the adapter a and return it with the chunks of the step   *)
(* in a.out.                                                                *)
EXTENDS ReasoningText, ToolCalls

NewAdapter(encoding) ==
    [role |-> FALSE, encoding |-> encoding, parser |-> None, tools |-> [i \in {} |-> 0], next |-> 0,
     stop |-> None, out |-> <<>>]

Choice == [type |-> "choices", role |-> FALSE, content |-> None, reasoning |-> None, calls |-> <<>>,
           finish |-> None]
Call(index, id, name, arguments) == [index |-> index, id |-> id, name |-> name, arguments |-> arguments]

Put(a, chunk) == [a EXCEPT !.out = Append(@, chunk)]

PutText(a, chunk) ==
    Put(a, IF chunk.kind = "thinking" THEN [Choice EXCEPT !.reasoning = chunk.text]
           ELSE [Choice EXCEPT !.content = chunk.text])

PutParsed(a, parsed) == FoldLeft(PutText, [a EXCEPT !.parser = parsed.parser], parsed.chunks)

(* A parser exists from the first text on, and is flushed more than once:   *)
(* after the first time it withholds nothing.                               *)
ParserOf(a) == IF a.parser = None THEN NewParser ELSE a.parser
FinishText(a) == IF a.parser = None THEN a ELSE PutParsed(a, Finish(a.parser))

Role(a) == IF a.role THEN a ELSE [Put(a, [Choice EXCEPT !.role = TRUE]) EXCEPT !.role = TRUE]
-----------------------------------------------------------------------------
(* A chunk of an OpenAI-compatible upstream goes through as it is, or with  *)
(* the reasoning taken out of its content.                                  *)
FromChoice(a, raw) ==
    LET rest == [raw EXCEPT !.content = None, !.finish = None]
        without == IF rest = Choice THEN a ELSE Put(a, rest)
        parsed == PutParsed(without, Push(ParserOf(a), raw.content))
    IN  CASE ~ a.encoding        -> Put(a, raw)
          [] a.encoding /\ raw.content = None ->
                 Put(IF raw.finish = None THEN a ELSE FinishText(a), raw)
          [] a.encoding /\ raw.content # None ->
                 IF raw.finish = None THEN parsed
                 ELSE Put(FinishText(parsed), [Choice EXCEPT !.finish = raw.finish])

FinishReason(stop_reason) ==
    CASE stop_reason = "max_tokens" -> "length"
      [] stop_reason = "tool_use"   -> "tool_calls"
      [] OTHER                      -> "stop"

ToolStart(a, event) ==
    Put([Role(a) EXCEPT !.tools = event.index :> a.next @@ @, !.next = @ + 1],
        [Choice EXCEPT !.calls = <<Call(a.next, event.value.id, event.value.name, <<>>)>>])

ToolArguments(a, event) ==
    LET index == IF event.index \in DOMAIN a.tools THEN a.tools[event.index] ELSE event.index
    IN  IF event.value = <<>> THEN a
        ELSE Put(a, [Choice EXCEPT !.calls = <<Call(index, None, None, event.value)>>])

BlockText(a, event) ==
    LET told == Role(a)
    IN  CASE event.kind = "text" -> IF ~ a.encoding THEN Put(told, [Choice EXCEPT !.content = event.value])
                                    ELSE PutParsed(told, Push(ParserOf(a), event.value))
          [] event.kind = "thinking"   -> Put(told, [Choice EXCEPT !.reasoning = event.value])
          [] event.kind = "input_json" -> ToolArguments(a, event)
          [] event.kind = "signature"  -> a

FromEvent(a, event) ==
    CASE event.type = "message_start"       -> Role(a)
      [] event.type = "content_block_start" -> IF event.kind = "tool_use" THEN ToolStart(a, event) ELSE a
      [] event.type = "content_block_delta" -> BlockText(a, event)
      [] event.type = "message_delta"       -> [a EXCEPT !.stop = IF event.value = None THEN @ ELSE event.value]
      [] event.type = "message_stop"        ->
             Put(FinishText(a), [Choice EXCEPT !.finish =
                     IF a.stop # None THEN FinishReason(a.stop)
                     ELSE IF DOMAIN a.tools = {} THEN "stop" ELSE "tool_calls"])
      [] OTHER                              -> a

AdaptChunk(a, raw) == IF raw.type = "choices" THEN FromChoice(a, raw) ELSE FromEvent(a, raw)

(* Whatever ended the stream, what is withheld and [DONE] follow.           *)
AdaptEnd(a) == Put(FinishText(a), [type |-> "done"])
=============================================================================
