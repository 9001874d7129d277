------------------------------- MODULE Rendering -------------------------------
(* A streamed chat, from the frames of an upstream through the driver and   *)
(* the renderer to the client.  The driver hands each parsed frame to an    *)
(* unbounded channel in order and the renderer reads it in order, so one    *)
(* action takes a frame all the way.                                        *)
(*                                                                          *)
(* A setup says which protocols the upstream and the client speak, whether  *)
(* the endpoint declares the text encoding of reasoning, how thinking is    *)
(* shown, whether tool arguments come as everything so far, the pieces an   *)
(* OpenAI-compatible upstream sends, and a bound on the length of a stream. *)
EXTENDS StreamClients

CONSTANT Setups

VARIABLES
    setup,
    message,      \* what the upstream has said: its answer, were it not streamed
    frames,       \* how many frames it has sent
    driver,       \* the state of the stream and the text collected for the completion
    face,         \* the renderer or the adapter
    client

vars == <<setup, message, frames, driver, face, client>>

Silent == [content |-> <<>>, reasoning |-> <<>>, calls |-> <<>>, stop |-> None, clean |-> TRUE,
           begun |-> FALSE, open |-> None, blocks |-> 0, erred |-> FALSE, closed |-> FALSE,
           parts |-> [text |-> <<>>, thinking |-> <<>>]]

Init ==
    /\ setup \in Setups
    /\ message = Silent
    /\ frames = 0
    /\ driver = [state |-> "open", output_text |-> <<>>]
    /\ face = IF setup.client = "anthropic" THEN NewRenderer(setup.encoding, setup.policy)
              ELSE NewAdapter(setup.encoding)
    /\ client = NewClient
-----------------------------------------------------------------------------
(* The upstream.                                                            *)

(* A fragment that does not look like a repetition of what came before,     *)
(* which merging would drop, and takes back nothing that was decoded.       *)
Unambiguous(old, fragment) ==
    /\ setup.cumulative \/ Merge(old, fragment) = old \o fragment
    /\ IsPrefix(Normalize(old, <<>>), Normalize(old \o fragment, <<>>))

SoFar(call) ==
    IF setup.cumulative /\ call.arguments # None /\ call.index < Len(message.calls)
    THEN [call EXCEPT !.arguments = message.calls[call.index + 1].arguments \o @]
    ELSE call

(* Some upstreams name a call after its arguments began.  An OpenAI client  *)
(* that gets the chunks as they are is served by others.                    *)
MayCall(call) ==
    /\ call.index <= Len(message.calls)
    /\ (call.index = Len(message.calls) /\ setup.client = "openai") => call.id # None
    /\ call.index < Len(message.calls) => (call.id # None => message.calls[call.index + 1].id = None)

OpenAiFrames ==
    IF message.stop # None THEN {}
    ELSE {[piece EXCEPT !.calls = [i \in DOMAIN @ |-> SoFar(@[i])]] :
             piece \in {p \in setup.pieces : /\ p.role => message = Silent
                                             /\ \A i \in DOMAIN p.calls : MayCall(p.calls[i])}}

Says(m, chunk) ==
    LET fragment(call) == IF setup.cumulative /\ call.arguments # None /\ call.index < Len(m.calls)
                          THEN Drop(call.arguments, Len(m.calls[call.index + 1].arguments))
                          ELSE call.arguments
        add(calls, call) == WithCall(calls, [call EXCEPT !.arguments = fragment(call)])
        old(call) == IF call.index < Len(m.calls) THEN m.calls[call.index + 1].arguments ELSE <<>>
    IN  [m EXCEPT !.content = Joined(@, chunk.content), !.reasoning = Joined(@, chunk.reasoning),
                  !.calls = FoldLeft(add, @, chunk.calls), !.stop = chunk.finish, !.begun = TRUE,
                  !.clean = @ /\ \A i \in DOMAIN chunk.calls :
                                    fragment(chunk.calls[i]) = None
                                    \/ Unambiguous(old(chunk.calls[i]), fragment(chunk.calls[i]))]

BlockKinds == {"text", "thinking", "tool_use"}
Deltas == [text |-> {Event("content_block_delta", message.blocks - 1, "text", <<"a">>)},
           thinking |-> {Event("content_block_delta", message.blocks - 1, "thinking", <<"r">>),
                         Event("content_block_delta", message.blocks - 1, "signature", <<"signed">>)},
           tool_use |-> {Event("content_block_delta", message.blocks - 1, "input_json", part) : part \in {<<"{">>, <<"}">>}}]

Extended(parts, value) == [parts EXCEPT ![Len(parts)] = @ \o value]

AnthropicFrames ==
    IF message.closed \/ message.erred THEN {}
    ELSE IF ~ message.begun THEN {Plain("message_start")}
    ELSE {Plain("error")} \cup
         IF message.stop # None THEN {Plain("message_stop")}
         ELSE IF message.open # None
         THEN Deltas[message.open] \cup {Event("content_block_stop", message.blocks - 1, None, None)}
         ELSE {Event("content_block_start", message.blocks, kind,
                     IF kind = "tool_use" THEN [id |-> "t1", name |-> "f"] ELSE None) : kind \in BlockKinds}
              \cup {Event("message_delta", None, None, reason) : reason \in {"end_turn", "tool_use", "max_tokens"}}

Emits(m, event) ==
    CASE event.type = "message_start"       -> [m EXCEPT !.begun = TRUE]
      [] event.type = "content_block_start" ->
             [m EXCEPT !.open = event.kind, !.blocks = @ + 1,
                       !.parts = [kind \in DOMAIN @ |-> IF kind = event.kind THEN Append(@[kind], <<>>) ELSE @[kind]],
                       !.calls = IF event.kind # "tool_use" THEN @
                                 ELSE Append(@, [id |-> event.value.id, name |-> event.value.name, arguments |-> <<>>])]
      [] event.type = "content_block_delta" ->
            (CASE event.kind = "text"       -> [m EXCEPT !.content = @ \o event.value,
                                                  !.parts.text = Extended(@, event.value)]
               [] event.kind = "thinking"   -> [m EXCEPT !.reasoning = @ \o event.value,
                                                  !.parts.thinking = Extended(@, event.value)]
               [] event.kind = "input_json" -> [m EXCEPT !.calls[Len(m.calls)].arguments = @ \o event.value]
               [] event.kind = "signature"  -> m)
      [] event.type = "content_block_stop"  -> [m EXCEPT !.open = None]
      [] event.type = "message_delta"       -> [m EXCEPT !.stop = event.value]
      [] event.type = "message_stop"        -> [m EXCEPT !.closed = TRUE]
      [] event.type = "error"               -> [m EXCEPT !.erred = TRUE]
-----------------------------------------------------------------------------
(* The driver and the renderer.                                             *)

Render(raw) == IF setup.client = "anthropic" THEN RenderChunk(face, raw) ELSE AdaptChunk(face, raw)

Deliver(rendered) ==
    /\ face' = [rendered EXCEPT !.out = <<>>]
    /\ client' = Receive(setup, client, rendered.out)

(* The text of an OpenAI delta, or of an Anthropic one.                     *)
DeltaText(raw) ==
    IF raw.type = "choices" THEN raw.content
    ELSE IF raw.type = "content_block_delta" /\ raw.kind = "text" THEN raw.value ELSE None

ProcessFrame(raw) ==
    /\ driver.state = "open"
    /\ frames < setup.length
    /\ frames' = frames + 1
    /\ driver' = [driver EXCEPT !.output_text = Joined(@, DeltaText(raw))]
    /\ Deliver(Render(raw))
    /\ UNCHANGED setup

OpenAiFrame ==
    /\ setup.upstream = "openai"
    /\ \E raw \in OpenAiFrames : ProcessFrame(raw) /\ message' = Says(message, raw)

AnthropicFrame ==
    /\ setup.upstream = "anthropic"
    /\ \E raw \in AnthropicFrames : ProcessFrame(raw) /\ message' = Emits(message, raw)

End(state) ==
    /\ driver.state = "open"
    /\ driver' = [driver EXCEPT !.state = state]
    /\ UNCHANGED <<setup, message, frames>>

(* [DONE], or the end of the body with or without it.                       *)
Finalize ==
    /\ End("finished")
    /\ Deliver(IF setup.client = "anthropic" THEN RenderEnd(face, driver.output_text) ELSE AdaptEnd(face))

(* Mutant: the completion is not looked at when it failed.                  *)
SeesFailureLate(item) == IF setup.client = "anthropic" THEN RenderEnd(face, driver.output_text) ELSE AdaptEnd(face)

(* The Anthropic renderer stops at an error, of an item or of the           *)
(* completion; the OpenAI one goes on to [DONE].                            *)
SeesFailure(item) == IF setup.client = "anthropic" THEN face ELSE AdaptEnd(face)

Fail(item) ==
    /\ End("failed")
    /\ LET rendered == SeesFailure(item)
           told == setup.client = "anthropic" \/ item
       IN  /\ face' = [rendered EXCEPT !.out = <<>>]
           /\ client' = Receive(setup, [client EXCEPT !.failed = told], rendered.out)

(* A frame that is no JSON fails the completion only.                       *)
BadFrame == Fail(FALSE)

(* The transport breaks: an error in the stream and in the completion.      *)
BreakOff == Fail(TRUE)

Over == driver.state # "open" /\ UNCHANGED vars

Next == OpenAiFrame \/ AnthropicFrame \/ Finalize \/ BadFrame \/ BreakOff \/ Over

Spec == Init /\ [][Next]_vars
-----------------------------------------------------------------------------
(* What the client receives obeys its protocol, event by event: blocks are *)
(* opened once, grow and are closed while open, all before the message      *)
(* ends; the role comes once, tool calls are numbered without gaps.  An     *)
(* error event of an Anthropic upstream breaks it: it is taken for an       *)
(* OpenAI chunk and a second message_start is sent (anthropic_stream.rs).   *)
ProtocolKept == ~ client.ill \/ message.erred

(* Text that the parser still withholds when the answer ends; an Anthropic  *)
(* client is sent it twice, by the parser and by the completion.            *)
Undecided(content) == LET parser == Push(NewParser, content).parser
                      IN  parser.at # "past" /\ parser.buffer # <<>>

Comparable ==
    LET parts == SplitReasoning(message.content)
        split == setup.encoding /\ parts.split
    IN  /\ driver.state = "finished"
        /\ message.clean
        /\ \A i \in DOMAIN message.calls :
              LET sent == message.calls[i].arguments
                  arguments == IF setup.upstream = "anthropic" THEN sent ELSE Normalize(sent, <<>>)
              IN  /\ message.calls[i].id # None \/ arguments # <<>>
                  /\ setup.client = "anthropic" => arguments = <<>> \/ IsObject(arguments)
        /\ setup.upstream = "anthropic" => message.closed
        /\ (setup.upstream = "anthropic" /\ setup.client = "openai" /\ message.blocks = 0)
              => FinishReason(message.stop) = "stop"
        /\ split => parts.thinking \o parts.text # <<>>
        /\ split => (message.reasoning = <<>> /\ (setup.client = "anthropic" => setup.policy = "placeholder"))
        /\ (setup.encoding /\ setup.client = "anthropic") => ~ Undecided(message.content)

(* A client that puts the stream together has what it had got unstreamed:   *)
(* the same text, thinking, tool calls and reason to stop.  Comparable      *)
(* leaves out what the two paths are known to treat differently: fragments  *)
(* of arguments that repeat what came before, calls of which nothing is     *)
(* known, arguments that are no object (the aggregator refuses the stream,  *)
(* the body says {}), reasoning given both ways or found in the text under  *)
(* a policy that omits it, tags with nothing in or after them, text         *)
(* withheld to the end, and the stop_reason of a message without blocks     *)
(* (the body says "stop").  White space in front is not compared, nor the   *)
(* new lines that the body, and no stream, puts between the texts and the   *)
(* thoughts of several blocks.                                              *)
Unbroken(text) == SelectSeq(text, LAMBDA t : t # NewLine)
Trimmed(body) == [body EXCEPT !.text = TrimStart(Unbroken(@)), !.thinking = Unbroken(@)]
StreamedIsCompleted ==
    Comparable => Trimmed(Streamed(setup, client)) = Trimmed(CompletedBody(setup, message))

(* A stream that failed does not reach the client as a complete answer,     *)
(* with a reason to stop and an end, unless the upstream had completed it.  *)
FailedIsNotComplete ==
    (driver.state = "failed" /\ message.stop = None) => ~ (client.over /\ client.stop # None)
=============================================================================
