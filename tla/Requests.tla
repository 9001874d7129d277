------------------------------- MODULE Requests -------------------------------
(***************************************************************************)
(* One request from the client's payload to the upstreams and back         *)
(* (unigateway-host/src/core/*.rs, unigateway-core/src/protocol/           *)
(* tool_choice_retry.rs, responses_retry.rs): parsing, the choice of the   *)
(* endpoints, the engine's attempts, the second try of an endpoint with a  *)
(* weaker tool_choice, and the host's second tries of a Responses request  *)
(* without streaming and without tools.                                    *)
(*                                                                         *)
(* Of the engine's loop (Execution is its detail) remain the order of the  *)
(* attempts, any, and whether it goes on after one has failed, either.     *)
(***************************************************************************)
EXTENDS UpstreamRequests, FiniteSets

CONSTANTS Payloads,   \* what clients and embedders may send
          Pool        \* the endpoints, in their order

Chat == {"openai_chat", "anthropic_messages", "neutral"}

(* The tool choices of clients and of the gateway.                         *)
ToolChoices == [mode : Modes, form : Forms,
                name : {None} \union {p.choice.name : p \in {q \in Payloads : q.choice # None}}]

ASSUME PayloadsShaped ==
    \A p \in Payloads : /\ p.protocol \in Chat \union {"openai_responses", "openai_embeddings"}
                        /\ p.choice \in ToolChoices \union {None}
                        /\ p.stream \in BOOLEAN \union {None}
                        /\ p.encoded \in BOOLEAN

(* What is absent is no choice, no list of tools and no reply.             *)
ASSUME NoneApart ==
    None \notin ToolChoices /\ None # "ok" /\ \A p \in Payloads : p.tools # None => Names(p.tools) # None

Strength(choice) ==
    IF choice = None THEN 1
    ELSE CASE choice.mode \in {"function", "tool"} -> 3
           [] choice.mode \in {"any", "required"} -> 2
           [] choice.mode = "auto" -> 1
           [] choice.mode = "none" -> 0

(* A downgrade of a host's own may ask for more than the client did; those *)
(* of capabilities.rs never do, and only such ones are considered.         *)
Weakens(caps) ==
    \A m \in DOMAIN caps.downgrade :
      caps.downgrade[m] \in DowngradeTargets /\ Strength(Mode(caps.downgrade[m])) <= Strength(Mode(m))

ASSUME PoolShaped == \A i \in DOMAIN Pool : /\ Pool[i].kind \in {"openai", "anthropic"}
                                            /\ Pool[i].enabled \in BOOLEAN
                                            /\ Weakens(Pool[i].caps)

VARIABLES payload,
          at,         \* where the request is
          request,    \* the core request of the current engine call
          targets,    \* the endpoints of the target that were not tried in this call
          endpoint,   \* the one of the current attempt
          meta,       \* the metadata of its context
          log,        \* history: what was sent to which endpoint, and the reply
          failed,     \* errors: the attempt's, the stream's; stripped: no more tools
          result      \* how the request ended

vars == <<payload, at, request, targets, endpoint, meta, log, failed, result>>

IsChat == payload.protocol \in Chat

NoFailure == [attempt |-> None, stream |-> None, stripped |-> FALSE]

Init == /\ payload \in Payloads
        /\ at = "arrived" /\ request = None /\ targets = {} /\ endpoint = None
        /\ meta = NoMetadata /\ log = <<>> /\ failed = NoFailure /\ result = None

End(r) == at' = "over" /\ result' = r
-----------------------------------------------------------------------------
Parsed(p) == CASE p.protocol \in Chat -> ChatRequest(p)
               [] p.protocol = "openai_responses" -> ResponsesRequest(p)
               [] p.protocol = "openai_embeddings" -> EmbeddingsRequest(p)

Parse ==
    /\ at = "arrived"
    /\ request' = Parsed(payload)
    /\ IF request' = Invalid THEN End("refused") ELSE at' = "parsed" /\ UNCHANGED result
    /\ UNCHANGED <<payload, targets, endpoint, meta, log, failed>>

(* The host finds no pool, fails to look, is given a protocol and a kind   *)
(* of request that do not belong together, or its middleware refuses.      *)
Undispatched ==
    /\ at = "parsed"
    /\ End("undispatched")
    /\ UNCHANGED <<payload, request, targets, endpoint, meta, log, failed>>

Matches(e, hint) == hint \in {e.id, e.provider, e.family}       \* endpoint_matches_hint
Compatible(e) == e.enabled /\ e.kind = "openai"

(* build_execution_target                                                  *)
ChatTarget(hint) == {i \in DOMAIN Pool : hint = None \/ Matches(Pool[i], hint)}

(* build_openai_compatible_target: without a hint the pool itself when all *)
(* its enabled endpoints are compatible, which is the same set.            *)
CompatibleTarget(hint) ==
    {i \in DOMAIN Pool : Compatible(Pool[i]) /\ (hint = None \/ Matches(Pool[i], hint))}

(* The engine leaves out what is disabled.                                 *)
Candidates ==
    {i \in IF IsChat THEN ChatTarget(payload.hint) ELSE CompatibleTarget(payload.hint) : Pool[i].enabled}

Dispatch ==
    /\ at = "parsed"
    /\ request' = IF IsChat THEN Assembled(request, payload.stored) ELSE request
    /\ IF (IF IsChat THEN payload.hint # None /\ ChatTarget(payload.hint) = {}
           ELSE CompatibleTarget(payload.hint) = {})
       THEN End("no_target") /\ UNCHANGED targets
       ELSE at' = "calling" /\ targets' = Candidates /\ UNCHANGED result
    /\ UNCHANGED <<payload, endpoint, meta, log, failed>>
-----------------------------------------------------------------------------
(* An attempt.  The context of the endpoint, with its metadata, is new;    *)
(* the driver builds its request and sends it.                             *)
Build(r, e, m) == CASE IsChat /\ e.kind = "openai" -> BuildOpenAiChat(r, m, e.caps)
                    [] IsChat /\ e.kind = "anthropic" -> BuildAnthropicChat(r, m, e.caps)
                    [] payload.protocol = "openai_responses" -> BuildResponses(r, m, e.caps)
                    [] payload.protocol = "openai_embeddings" -> BuildEmbeddings(r)

Sent(i, wire, first) == Append(log, [endpoint |-> i, wire |-> wire, first |-> first, reply |-> None])

(* Mutant: the context of the last endpoint is used again.                 *)
AttemptInOldContext ==
    /\ at = "calling"
    /\ \E i \in targets :
         LET wire == Build(request, Pool[i], meta)
         IN  /\ endpoint' = i
             /\ targets' = targets \ {i}
             /\ IF wire = Invalid
                THEN at' = "failed" /\ failed' = [failed EXCEPT !.attempt = "invalid"] /\ UNCHANGED <<meta, log>>
                ELSE /\ at' = "sent" /\ log' = Sent(i, wire, TRUE)
                     /\ meta' = Record(meta, wire.original, wire.choice)
                     /\ UNCHANGED failed
    /\ UNCHANGED <<payload, request, result>>

Attempt ==
    /\ at = "calling"
    /\ \E i \in targets :
         LET wire == Build(request, Pool[i], NoMetadata)
         IN  /\ endpoint' = i
             /\ targets' = targets \ {i}
             /\ IF wire = Invalid
                THEN /\ at' = "failed" /\ failed' = [failed EXCEPT !.attempt = "invalid"]
                     /\ UNCHANGED <<meta, log>>
                ELSE /\ at' = "sent" /\ log' = Sent(i, wire, TRUE)
                     /\ meta' = Record(NoMetadata, wire.original, wire.choice)
                     /\ UNCHANGED failed
    /\ UNCHANGED <<payload, request, result>>

(* What an upstream may say: status 400 about the tool choice, which it    *)
(* does not take, that /v1/responses has to be used, or any other failure. *)
Refusals == {"tool_choice", "use_responses", "other"}

Replied(reply) == log' = [log EXCEPT ![Len(log)].reply = reply]

Answered ==
    /\ at = "sent"
    /\ Replied("ok") /\ End("answered")
    /\ UNCHANGED <<payload, request, targets, endpoint, meta, failed>>

(* The failure of a retry, the lack of a weaker choice, and every failure  *)
(* that is not about the tool choice end the attempt.                      *)
MayRetry(reply) ==
    /\ IsChat /\ reply = "tool_choice" /\ meta.forced = None
    /\ Weaker(meta.recorded, Pool[endpoint].kind) # None

Refused ==
    /\ at = "sent"
    /\ \E reply \in Refusals :
         /\ ~ MayRetry(reply)
         /\ Replied(reply) /\ at' = "failed" /\ failed' = [failed EXCEPT !.attempt = reply]
    /\ UNCHANGED <<payload, request, targets, endpoint, meta, result>>

(* send_with_tool_choice_retry and its streaming twin: the same endpoint   *)
(* is asked once more.                                                     *)
RetryWeaker ==
    /\ at = "sent" /\ MayRetry("tool_choice")
    /\ LET m == Override(meta, Weaker(meta.recorded, Pool[endpoint].kind))
           wire == Build(request, Pool[endpoint], m)
       IN  /\ log' = Append([log EXCEPT ![Len(log)].reply = "tool_choice"],
                            [endpoint |-> endpoint, wire |-> wire, first |-> FALSE, reply |-> None])
           /\ meta' = Record(m, wire.original, wire.choice)
    /\ UNCHANGED <<payload, at, request, targets, endpoint, failed, result>>

NextAttempt ==
    /\ at = "failed" /\ targets # {}
    /\ at' = "calling"
    /\ UNCHANGED <<payload, request, targets, endpoint, meta, log, failed, result>>
-----------------------------------------------------------------------------
(* The engine's call fails.  It wraps the error of the last attempt, when  *)
(* there was one, with the reports of all (finalize_request_failure).      *)
Wrapped(error) == [wrapped |-> TRUE, terminal |-> error]
Unwrapped == {[wrapped |-> FALSE, terminal |-> t] : t \in {"pool_not_found", "no_endpoint", "saturated"}}

(* resolve_openai_api_surface_for_request: the first endpoint that might   *)
(* serve decides, before the defaults of the model.                        *)
StripsTools ==
    LET overrides == SelectSeq(Pool, LAMBDA e : Compatible(e) /\ (payload.hint = None \/ Matches(e, payload.hint)))
    IN  IF overrides # <<>> /\ overrides[1].strips # None THEN overrides[1].strips ELSE payload.model # "gpt-5.5"

(* Only an error that is not wrapped shows its body.                       *)
Forbids(error) == ~ error.wrapped /\ error.terminal = "use_responses"
Whitelisted(error) == ~ error.wrapped /\ error.terminal = "tool_choice"

(* Mutant: tools go although the client asked for reasoning.               *)
ShouldStripAlways(r, error) ==
    /\ r.tools # None \/ r.choice # None
    /\ ~ Forbids(error)
    /\ StripsTools \/ Whitelisted(error)

(* should_retry_responses_without_tools                                    *)
ShouldStrip(r, error) ==
    /\ r.tools # None \/ r.choice # None
    /\ "reasoning" \notin r.extra
    /\ ~ Forbids(error)
    /\ StripsTools \/ Whitelisted(error)

(* should_preserve_stream_error                                            *)
ToReturn(stream, error) ==
    IF /\ stream # None
       /\ {stream.terminal, error.terminal} \intersect {"invalid", "pool_not_found", "endpoint_not_found"} # {}
    THEN stream ELSE error

WithoutTools(r) == [r EXCEPT !.tools = None, !.choice = None]

(* execute_openai_responses_with_compat asks again without streaming, and  *)
(* execute_openai_responses_via_core once more without tools.              *)
CallFails(error) ==
    /\ meta' = NoMetadata
    /\ IF payload.protocol = "openai_responses" /\ request.stream
       THEN /\ request' = [request EXCEPT !.stream = FALSE]
            /\ failed' = [failed EXCEPT !.stream = error]
            /\ at' = "calling" /\ targets' = Candidates /\ UNCHANGED result
       ELSE IF /\ payload.protocol = "openai_responses" /\ ~ failed.stripped
               /\ ShouldStrip(request, ToReturn(failed.stream, error))
       THEN /\ request' = [WithoutTools(request) EXCEPT !.stream = StreamFlag(payload, FALSE)]
            /\ failed' = [NoFailure EXCEPT !.stripped = TRUE]
            /\ at' = "calling" /\ targets' = Candidates /\ UNCHANGED result
       ELSE /\ End(ToReturn(failed.stream, error).terminal) /\ UNCHANGED <<request, failed, targets>>

EngineFails ==
    /\ at = "failed" /\ CallFails(Wrapped(failed.attempt))
    /\ UNCHANGED <<payload, endpoint, log>>

EngineRefuses ==
    /\ at = "calling" /\ targets = Candidates
    /\ \E error \in Unwrapped : (error.terminal = "no_endpoint" <=> targets = {}) /\ CallFails(error)
    /\ UNCHANGED <<payload, endpoint, log>>

Next == \/ Parse \/ Undispatched \/ Dispatch \/ Attempt \/ Answered \/ Refused \/ RetryWeaker
        \/ NextAttempt \/ EngineFails \/ EngineRefuses

Spec == Init /\ [][Next]_vars
-----------------------------------------------------------------------------
(* What the providers ask of a conversation.  OpenAI: the calls of an      *)
(* assistant message are answered by the tool messages right after it, one *)
(* each.  Anthropic joins the neighbours of one role; what a user says     *)
(* begins with the results of the calls before, all of them.               *)
Ids(blocks, type) == Each(LAMBDA b : b.id, SelectSeq(blocks, LAMBDA b : b.type = type))

OpenAiSound(messages) ==
    LET n == Len(messages)
        Answers(i) == LET tail == SubSeq(messages, i + 1, n)
                          stop == {j \in DOMAIN tail : tail[j].role # "tool"} \union {Len(tail) + 1}
                      IN  Each(LAMBDA m : m.answers, SubSeq(tail, 1, Min(stop) - 1))
    IN  \A i \in DOMAIN messages :
          /\ messages[i].role # "tool" => /\ ToSet(Answers(i)) = ToSet(messages[i].calls)
                                          /\ Len(Answers(i)) = Len(messages[i].calls)
          /\ messages[i].role = "tool" => i > 1

Turns(messages) ==
    FoldLeft(LAMBDA turns, m :
               IF turns # <<>> /\ Last(turns).role = m.role
               THEN [turns EXCEPT ![Len(turns)].blocks = @ \o m.blocks] ELSE Append(turns, m),
             <<>>, messages)

AnthropicSound(messages) ==
    LET turns == Turns(messages)
        Calls(i) == IF i \in DOMAIN turns /\ turns[i].role = "assistant" THEN Ids(turns[i].blocks, "tool_use") ELSE <<>>
        Results(i) == IF i \in DOMAIN turns THEN Ids(turns[i].blocks, "tool_result") ELSE <<>>
    IN  \A i \in 0 .. Len(turns) :
          /\ ToSet(Calls(i)) = ToSet(Results(i + 1)) /\ Len(Calls(i)) = Len(Results(i + 1))
          /\ i > 0 => \A j \in 1 .. Len(Results(i)) : turns[i].blocks[j].type = "tool_result"

(* What was said, in its order: system messages, reasoning and the place   *)
(* of a call among the texts of its message left out.                      *)
Said(messages) ==
    FlattenSeq(Each(LAMBDA m : CASE m.role = "assistant" ->
                                      SelectSeq(m.blocks, LAMBDA b : b.type \notin {"thinking", "tool_use"})
                                        \o SelectSeq(m.blocks, LAMBDA b : b.type = "tool_use")
                                 [] m.role # "assistant" -> m.blocks,
                    SelectSeq(messages, LAMBDA m : m.role # "system")))

AsBlocks(m) == AnthropicMessage(m.role, IF m.role = "tool" THEN <<ToolResult(m.answers)>>
                                        ELSE m.blocks \o Each(ToolUse, m.calls))

SoundIn(to, messages) == IF to = "openai" THEN OpenAiSound(messages) ELSE AnthropicSound(messages)
SaidIn(to, messages) == Said(IF to = "openai" THEN Each(AsBlocks, messages) ELSE messages)

(* Whatever the protocols of the client and of the upstream are, a sound   *)
(* conversation arrives as a sound one and says the same: the blocks of a  *)
(* user around a tool result, the calls of an assistant and the messages   *)
(* of a stored session keep their order, none is lost.  And no thinking    *)
(* goes to Anthropic under the signature that stands for none, not even    *)
(* out of a stored session (conversion/messages.rs).                       *)
ConversationKept ==
    \A i \in DOMAIN log :
      payload.protocol \in {"openai_chat", "anthropic_messages"} =>
        LET from == IF payload.protocol = "openai_chat" THEN "openai" ELSE "anthropic"
            sent == log[i].wire
            mine == payload.stored \o payload.messages
        IN  /\ SoundIn(from, mine) => SoundIn(sent.to, sent.messages)
            /\ SaidIn(sent.to, sent.messages) = SaidIn(from, mine)
            /\ sent.to = "anthropic" => ~ HasPlaceholder(sent.messages)

(* An endpoint that refuses the tool choice is asked once more and not     *)
(* again, with a weaker choice than the one it refused; no endpoint is     *)
(* asked for more than the client asked for; and what an endpoint is asked *)
(* first is not weakened by what another one refused before it             *)
(* (tool_choice_retry.rs, tool_choice_normalize.rs).                       *)
OneWeakerRetry ==
    IsChat =>
      /\ \A i \in DOMAIN log :
           /\ ~ log[i].first =>
                /\ log[i - 1].first /\ log[i - 1].endpoint = log[i].endpoint
                /\ log[i - 1].reply = "tool_choice"
                /\ Strength(log[i].wire.choice) < Strength(log[i - 1].wire.choice)
           /\ Strength(log[i].wire.choice) <= Strength(payload.choice)
      /\ \A i, j \in DOMAIN log :
           log[i].first /\ log[j].first /\ Pool[log[i].endpoint].caps = Pool[log[j].endpoint].caps
             /\ log[i].wire.to = log[j].wire.to
             => log[i].wire.choice = log[j].wire.choice

Tooled(wire) == wire.tools # None \/ wire.choice # None
Stage(wire) == (IF Tooled(wire) THEN 0 ELSE 2) + (IF wire.stream THEN 0 ELSE 1)

(* A Responses request that keeps failing is asked of every endpoint at    *)
(* most four times: streamed, completed, and the same without tools; tools *)
(* that were taken away do not come back, a client that asked for          *)
(* reasoning keeps them, nothing is asked after an answer, and only        *)
(* enabled endpoints that speak the protocol and match the hint are asked  *)
(* (responses.rs, responses_retry.rs, targeting.rs).                       *)
ToolsLeaveOnce ==
    payload.protocol = "openai_responses" =>
      /\ \A i, j \in DOMAIN log :
           i < j => /\ Stage(log[i].wire) <= Stage(log[j].wire)
                    /\ log[i].endpoint = log[j].endpoint => Stage(log[i].wire) # Stage(log[j].wire)
                    /\ log[i].reply # "ok"
      /\ payload.keys \intersect {"reasoning", "reasoning_effort"} # {} =>
           \A i, j \in DOMAIN log : Tooled(log[i].wire) = Tooled(log[j].wire)
      /\ \A i \in DOMAIN log :
           LET e == Pool[log[i].endpoint]
           IN  e.enabled /\ e.kind = "openai" /\ (payload.hint # None => Matches(e, payload.hint))

BothLimits(wire) == {"max_tokens", "max_completion_tokens"} \subseteq wire.fields

(* Four rules for the fields of a request, whatever a client or an         *)
(* embedder adds: none that begins with _ leaves; /v1/responses gets       *)
(* neither reasoning_effort nor thinking_budget; a Messages request has    *)
(* max_tokens, and never temperature beside top_p; and an OpenAI chat      *)
(* never has max_tokens beside max_completion_tokens, but for the one that *)
(* the driver adds for the think-tag encoding, which it does without       *)
(* looking for the other limit (openai/requests.rs:79, against             *)
(* CHANGELOG.md:215).  Of other fields an upstream may refuse it says      *)
(* nothing (merge_forwardable_extra, build_chat_request,                   *)
(* normalize_proxy_responses_request).                                     *)
FieldsLegal ==
    payload.protocol # "openai_embeddings" =>
      \A i \in DOMAIN log :
        LET wire == log[i].wire
        IN  /\ wire.fields \intersect GatewayOnly = {}
            /\ payload.protocol = "openai_responses" =>
                 wire.fields \intersect {"reasoning_effort", "thinking_budget"} = {}
            /\ wire.to = "anthropic" =>
                 "max_tokens" \in wire.fields /\ ~ ({"temperature", "top_p"} \subseteq wire.fields)
            /\ IsChat /\ wire.to = "openai" /\ BothLimits(wire) =>
                 payload.encoded /\ "max_tokens" \notin payload.keys

(* CHANGELOG.md:223: should_retry_responses_without_tools "refuses         *)
(* tool-stripping when [...] upstream directs callers to `/v1/responses`". *)
ToolsKeptWhenRedirected ==
    payload.protocol = "openai_responses" =>
      \A i \in DOMAIN log :
        i < Len(log) /\ log[i].reply = "use_responses" /\ Tooled(log[i].wire) => Tooled(log[i + 1].wire)

=============================================================================
