----------------------------- MODULE StreamClients -----------------------------
(* What clients make of the events they receive: an Anthropic client with   *)
(* the library's AnthropicStreamAggregator (responses/aggregator.rs), an    *)
(* OpenAI client that appends deltas.  "ill" records the first event that   *)
(* the client's protocol does not allow where it came.                      *)
EXTENDS CompletedBodies

NewClient == [blocks |-> [i \in {} |-> None], begun |-> FALSE, open |-> {}, stop |-> None, over |-> FALSE,
              failed |-> FALSE, ill |-> FALSE, content |-> <<>>, reasoning |-> <<>>, calls |-> <<>>]

NewBlock(kind) == [kind |-> kind, text |-> <<>>, id |-> None, name |-> None]
BlockOfDelta(kind) == CASE kind = "input_json" -> "tool_use"
                        [] kind = "signature"  -> "thinking"
                        [] OTHER               -> kind

Started(event) ==
    IF event.kind = "tool_use" THEN [NewBlock("tool_use") EXCEPT !.id = event.value.id, !.name = event.value.name]
    ELSE NewBlock(event.kind)

(* A delta of another kind than the block's replaces the block.             *)
Grown(blocks, event) ==
    LET kind == BlockOfDelta(event.kind)
        block == IF event.index \in DOMAIN blocks /\ blocks[event.index].kind = kind
                 THEN blocks[event.index] ELSE NewBlock(kind)
    IN  IF event.kind = "signature" THEN block ELSE [block EXCEPT !.text = @ \o event.value]

(* What the Messages protocol allows next.                                  *)
Allowed(client, event) ==
    /\ ~ client.over
    /\ client.begun <=> (event.type # "message_start")
    /\ event.type = "content_block_start" => event.index \notin DOMAIN client.blocks
    /\ event.type \in {"content_block_delta", "content_block_stop"} => event.index \in client.open
    /\ event.type \in {"message_delta", "message_stop"} => client.open = {}
    /\ event.type = "message_stop" => client.stop # None

Aggregate(client, event) ==
    LET told == [client EXCEPT !.ill = @ \/ ~ Allowed(client, event)]
    IN  CASE event.type = "message_start"       -> [told EXCEPT !.begun = TRUE]
          [] event.type = "content_block_start" -> [told EXCEPT !.open = @ \cup {event.index},
                                                        !.blocks = event.index :> Started(event) @@ @]
          [] event.type = "content_block_delta" -> [told EXCEPT !.blocks = event.index :> Grown(@, event) @@ @]
          [] event.type = "content_block_stop"  -> [told EXCEPT !.open = @ \ {event.index}]
          [] event.type = "message_delta"       -> [told EXCEPT !.stop = IF event.value = None THEN @ ELSE event.value]
          [] event.type = "message_stop"        -> [told EXCEPT !.over = TRUE]
          [] OTHER                              -> told

(* The message the aggregator rebuilds: blocks in the order of their index. *)
(* Where the input of a tool does not parse it answers an error instead;    *)
(* that call's input is None here.                                          *)
ParsedInput(text) == IF text = <<>> THEN Empty ELSE IF IsObject(text) THEN text ELSE None

Snapshot(client) ==
    LET order == SetToSortSeq(DOMAIN client.blocks, <)
        inOrder == [i \in DOMAIN order |-> client.blocks[order[i]]]
        ofKind(kind) == SelectSeq(inOrder, LAMBDA b : b.kind = kind)
        textOf(b) == b.text
        callOf(b) == [id |-> b.id, name |-> b.name, input |-> ParsedInput(b.text)]
    IN  Body(FlattenSeq(Each(textOf, ofKind("text"))), FlattenSeq(Each(textOf, ofKind("thinking"))),
             Each(callOf, ofKind("tool_use")), client.stop)
-----------------------------------------------------------------------------
Joined(text, delta) == IF delta = None THEN text ELSE text \o delta

WithCall(calls, call) ==
    LET at == call.index + 1
        known == IF at <= Len(calls) THEN calls[at] ELSE [id |-> None, name |-> None, arguments |-> <<>>]
        grown == [id |-> Named(call.id, known.id), name |-> Named(call.name, known.name),
                  arguments |-> Joined(known.arguments, call.arguments)]
    IN  IF at <= Len(calls) THEN [calls EXCEPT ![at] = grown] ELSE Append(calls, grown)

(* The role comes once, calls are numbered from zero without gaps and begin *)
(* with a name, nothing follows the finish but [DONE].                      *)
ChunkAllowed(client, chunk) ==
    /\ ~ client.over
    /\ chunk.type = "choices" =>
          /\ client.stop = None
          /\ ~ (chunk.role /\ client.begun)
          /\ \A i \in DOMAIN chunk.calls :
                \/ chunk.calls[i].index < Len(client.calls)
                \/ chunk.calls[i].index = Len(client.calls) /\ chunk.calls[i].name # None

Accumulate(client, chunk) ==
    LET told == [client EXCEPT !.ill = @ \/ ~ ChunkAllowed(client, chunk)]
    IN  IF chunk.type = "done" THEN [told EXCEPT !.over = TRUE]
        ELSE [told EXCEPT !.begun = @ \/ chunk.role, !.content = Joined(@, chunk.content),
                          !.reasoning = Joined(@, chunk.reasoning), !.calls = FoldLeft(WithCall, @, chunk.calls),
                          !.stop = IF chunk.finish = None THEN @ ELSE chunk.finish]

Receive(setup, client, events) ==
    IF setup.client = "anthropic" THEN FoldLeft(Aggregate, client, events)
    ELSE FoldLeft(Accumulate, client, events)

Streamed(setup, client) ==
    IF setup.client = "anthropic" THEN Snapshot(client)
    ELSE Body(client.content, client.reasoning, Each(AsSent, client.calls), client.stop)
=============================================================================
