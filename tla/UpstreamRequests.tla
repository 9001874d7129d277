---------------------------- MODULE UpstreamRequests ----------------------------
(***************************************************************************)
(* What the drivers send for a request (unigateway-core/src/protocol/      *)
(* openai/requests.rs, protocol/anthropic/requests.rs), from the payload   *)
(* the client sent (unigateway-protocol/src/requests.rs).                  *)
(*                                                                         *)
(* Of the remaining fields of a payload only the names are kept, and       *)
(* whether max_tokens leaves room for thinking (is more than 1024).        *)
(***************************************************************************)
EXTENDS Conversation

GatewayOnly == {"_private"}              \* is_gateway_only_field_key: a leading _
KnownFields == {"temperature", "top_p", "max_tokens"}
RoutingHints == {"provider"}             \* known to the OpenAI parsers, and dropped

(* split_chat_payload_extensions                                           *)
Typed(p) == p.keys \intersect KnownFields
Extra(p) == p.keys \ (KnownFields \union GatewayOnly
                        \union IF p.protocol = "anthropic_messages" THEN {} ELSE RoutingHints)

StreamFlag(p, default) == IF p.stream = None THEN default ELSE p.stream

(* openai_payload_to_chat_request, anthropic_payload_to_chat_request; a    *)
(* neutral request was built by the embedder, extra fields and all.        *)
ChatRequest(p) ==
    LET openai == p.protocol = "openai_chat"
        core == CASE openai -> OpenAiCore(p.messages)
                  [] p.protocol = "anthropic_messages" -> AnthropicCore(p.messages, p.system)
                  [] p.protocol = "neutral" -> p.messages
    IN  IF core = Invalid THEN Invalid
        ELSE [client |-> p.protocol, core |-> core,
              raw |-> IF p.protocol = "neutral" THEN None ELSE p.messages,
              system |-> IF openai THEN None ELSE p.system,
              tools |-> p.tools, choice |-> p.choice,
              stream |-> StreamFlag(p, p.protocol = "anthropic_messages"),
              typed |-> Typed(p), roomy |-> p.roomy, encoded |-> p.encoded,
              extra |-> IF p.protocol = "neutral" THEN p.added ELSE Extra(p)]

(* normalize_proxy_responses_request: reasoning_effort becomes reasoning,  *)
(* and fields of the chat protocol are removed.                            *)
NormalizedFields(keys) ==
    (keys \ {"reasoning_effort", "thinking_budget"})
      \union IF "reasoning_effort" \in keys THEN {"reasoning"} ELSE {}

(* openai_payload_to_responses_request                                     *)
ResponsesRequest(p) ==
    [client |-> p.protocol, tools |-> p.tools, choice |-> p.choice, stream |-> StreamFlag(p, FALSE),
     extra |-> NormalizedFields(p.keys \ RoutingHints)]

(* DeltaContextMiddleware (Sessions): the stored messages come before the  *)
(* tail the client sent; the core messages stay those of the tail.         *)
Assembled(r, stored) == IF stored = <<>> THEN r ELSE [r EXCEPT !.raw = stored \o @]

EmbeddingsRequest(p) == [client |-> p.protocol, stream |-> FALSE]
-----------------------------------------------------------------------------
Names(tools) == IF tools = None THEN None ELSE Each(LAMBDA t : t.name, tools)

(* merge_forwardable_extra                                                 *)
Forwardable(extra) == extra \ GatewayOnly

(* max_completion_tokens, which only extra carries, replaces max_tokens.   *)
(* A Claude model behind an endpoint with the think-tag encoding is asked  *)
(* for thinking, which needs a max_tokens.                                 *)
OpenAiFields(r) ==
    LET replaced == IF "max_completion_tokens" \in r.extra THEN {"max_tokens"} ELSE {}
        thinks == /\ r.encoded /\ ("max_tokens" \in r.typed => r.roomy)
                  /\ r.extra \intersect {"thinking", "enable_thinking", "reasoning"} = {}
    IN  (r.typed \ replaced)
          \union (IF thinks THEN {"thinking"} ELSE {})
          \union (IF thinks /\ "max_tokens" \notin r.typed THEN {"max_tokens"} ELSE {})
          \union (Forwardable(r.extra) \ replaced)

OpenAiChatMessages(r) ==
    IF r.client = "openai_chat" THEN r.raw
    ELSE IF r.raw = None THEN Each(CoreToOpenAi, r.core)
    ELSE (IF r.system = "text" THEN <<OpenAiMessage("system", <<Block("text")>>, <<>>, FALSE)>> ELSE <<>>)
           \o ToOpenAiMessages(r.raw)

BuildOpenAiChat(r, meta, caps) ==
    LET choice == ToOpenAiChoice(r.choice)
    IN  IF choice = Invalid THEN Invalid
        ELSE [to |-> "openai", messages |-> OpenAiChatMessages(r), system |-> None,
              tools |-> Names(r.tools), original |-> choice,
              choice |-> Resolved(meta, choice, Names(r.tools), caps, "openai"),
              stream |-> r.stream, fields |-> OpenAiFields(r)]
-----------------------------------------------------------------------------
(* Mutant: the fields a client adds may bring top_p back.                  *)
AnthropicFieldsOnce(r) ==
    {"max_tokens"} \union (IF "temperature" \in r.typed THEN r.typed \ {"top_p"} ELSE r.typed)
      \union Forwardable(r.extra)

(* max_tokens has a default; top_p yields to temperature, at the end too.  *)
AnthropicFields(r) ==
    LET all == {"max_tokens"} \union r.typed \union Forwardable(r.extra)
    IN  IF "temperature" \in all THEN all \ {"top_p"} ELSE all

FallbackSystem(r) ==
    IF r.system # None THEN r.system
    ELSE IF \E i \in DOMAIN r.core : r.core[i].role = "system" /\ r.core[i].blocks # <<>> THEN "text" ELSE None

AnthropicChatMessages(r) ==
    CASE HasPlaceholder(CoreForAnthropic(r.core)) -> Invalid
      [] OTHER ->
           (CASE r.raw = None -> CoreForAnthropic(r.core)
              [] r.raw # None /\ r.client = "openai_chat" -> ToAnthropicMessages(r.raw)
              [] OTHER -> IF HasPlaceholder(r.raw) THEN Invalid ELSE r.raw)

(* openai_tools_to_anthropic_tools keeps the function tools.               *)
FunctionTools(tools) ==
    IF tools = None THEN None
    ELSE LET functions == SelectSeq(tools, LAMBDA t : t.function)
         IN  IF \E i \in DOMAIN functions : functions[i].name = None THEN Invalid ELSE Names(functions)

BuildAnthropicChat(r, meta, caps) ==
    LET openai == r.client = "openai_chat"
        messages == AnthropicChatMessages(r)
        tools == IF openai THEN FunctionTools(r.tools) ELSE Names(r.tools)
        choice == IF openai THEN ToAnthropicChoice(r.choice) ELSE r.choice
    IN  IF Invalid \in {messages, tools, choice} THEN Invalid
        ELSE [to |-> "anthropic", messages |-> messages,
              system |-> IF openai THEN GatheredSystem(r.raw, FallbackSystem(r)) ELSE FallbackSystem(r),
              tools |-> tools, original |-> choice,
              choice |-> Resolved(meta, choice, tools, caps, "anthropic"),
              stream |-> r.stream, fields |-> AnthropicFields(r)]
-----------------------------------------------------------------------------
BuildResponses(r, meta, caps) ==
    [to |-> "openai", tools |-> Names(r.tools), original |-> r.choice,
     choice |-> Resolved(meta, r.choice, Names(r.tools), caps, "openai"),
     stream |-> r.stream, fields |-> NormalizedFields(Forwardable(r.extra))]

BuildEmbeddings(r) == [to |-> "openai", original |-> None, choice |-> None, stream |-> FALSE]
=============================================================================
