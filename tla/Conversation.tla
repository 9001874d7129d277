----------------------------- MODULE Conversation -----------------------------
(***************************************************************************)
(* The messages of a chat request in the two protocols and the conversions *)
(* between them (unigateway-core/src/conversion/messages.rs, blocks.rs;    *)
(* unigateway-protocol/src/requests.rs).                                   *)
(*                                                                         *)
(* A block is its type, the id of the tool call it makes or answers, and   *)
(* the signature of a thinking block; what a text says, names and          *)
(* arguments are left out, and so are empty texts, which are skipped.  An  *)
(* image has no form of its own here: it is forwarded as the client wrote  *)
(* it, in whichever protocol (convert_image_block_to_openai).  An OpenAI   *)
(* message has content blocks, the ids of its tool_calls, whether it has   *)
(* reasoning, and the tool_call_id of a tool message.                      *)
(***************************************************************************)
EXTENDS ToolChoice, SequencesExt

Block(type) == [type |-> type, id |-> None, sig |-> None]
Thinking(sig) == [Block("thinking") EXCEPT !.sig = sig]
ToolUse(id) == [Block("tool_use") EXCEPT !.id = id]
ToolResult(id) == [Block("tool_result") EXCEPT !.id = id]

AnthropicMessage(role, blocks) == [role |-> role, blocks |-> blocks]
OpenAiMessage(role, blocks, calls, reasoning) ==
    [role |-> role, blocks |-> blocks, calls |-> calls, reasoning |-> reasoning, answers |-> None]
ToolMessage(id) == [OpenAiMessage("tool", <<>>, <<>>, FALSE) EXCEPT !.answers = id]

Each(Op(_), s) == [i \in DOMAIN s |-> Op(s[i])]
Fails(s) == \E i \in DOMAIN s : s[i] = Invalid
OrInvalid(s) == IF Fails(s) THEN Invalid ELSE s
-----------------------------------------------------------------------------
(* The parsers of the two kinds of payload turn every message into core    *)
(* blocks, and refuse the payload when one cannot be turned.               *)
Role(role) == IF role \in {"system", "assistant", "tool"} THEN role ELSE "user"

CoreMessage(role, blocks) == IF blocks = Invalid THEN Invalid ELSE AnthropicMessage(Role(role), blocks)

(* openai_message_to_content_blocks                                        *)
OpenAiBlocks(m) ==
    IF m.role = "tool" THEN IF m.answers = None THEN Invalid ELSE <<ToolResult(m.answers)>>
    ELSE IF \/ \E i \in DOMAIN m.blocks : m.blocks[i].type \notin {"text", "image"}
            \/ \E i \in DOMAIN m.calls : m.calls[i] = None
    THEN Invalid
    ELSE (IF m.reasoning THEN <<Thinking(None)>> ELSE <<>>) \o m.blocks \o Each(ToolUse, m.calls)

OpenAiCore(messages) == OrInvalid(Each(LAMBDA m : CoreMessage(m.role, OpenAiBlocks(m)), messages))

(* anthropic_content_to_blocks                                             *)
AnthropicBlocks(m) ==
    IF \E i \in DOMAIN m.blocks :
         \/ m.blocks[i].type \notin {"text", "image", "thinking", "tool_use", "tool_result"}
         \/ m.blocks[i].type \in {"tool_use", "tool_result"} /\ m.blocks[i].id = None
    THEN Invalid ELSE m.blocks

AnthropicCore(messages, system) ==
    LET core == OrInvalid(Each(LAMBDA m : CoreMessage(m.role, AnthropicBlocks(m)), messages))
    IN  IF core = Invalid THEN Invalid
        ELSE (IF system = "text" THEN <<AnthropicMessage("system", <<Block("text")>>)>> ELSE <<>>) \o core
-----------------------------------------------------------------------------
(* Anthropic messages for an OpenAI-compatible upstream.  An assistant     *)
(* message keeps its texts and images, and lists its calls beside them; a  *)
(* tool result becomes a message of its own, between those of the blocks   *)
(* before and after it.                                                    *)
BlocksOf(m, types) == SelectSeq(m.blocks, LAMBDA b : b.type \in types)

AssistantToOpenAi(m) ==
    OpenAiMessage("assistant", BlocksOf(m, {"text", "image", "tool_result"}),
                  Each(LAMBDA b : b.id, BlocksOf(m, {"tool_use"})),
                  BlocksOf(m, {"thinking"}) # <<>>)

(* flush_user_blocks                                                       *)
FlushUser(acc, role) ==
    IF acc.user = <<>> THEN acc.done ELSE Append(acc.done, OpenAiMessage(role, acc.user, <<>>, FALSE))

(* Mutant: the blocks before a tool result wait for the end.               *)
UserToOpenAiLate(m) ==
    LET Add(acc, b) == IF b.type = "tool_result"
                       THEN [acc EXCEPT !.done = Append(@, ToolMessage(b.id))]
                       ELSE [acc EXCEPT !.user = Append(@, b)]
    IN  FlushUser(FoldLeft(Add, [done |-> <<>>, user |-> <<>>], m.blocks), m.role)

UserToOpenAi(m) ==
    LET Add(acc, b) == IF b.type = "tool_result"
                       THEN [done |-> Append(FlushUser(acc, m.role), ToolMessage(b.id)), user |-> <<>>]
                       ELSE [acc EXCEPT !.user = Append(@, b)]
    IN  FlushUser(FoldLeft(Add, [done |-> <<>>, user |-> <<>>], m.blocks), m.role)

ToOpenAiMessages(messages) ==
    FlattenSeq(Each(LAMBDA m : IF m.role = "assistant" THEN <<AssistantToOpenAi(m)>> ELSE UserToOpenAi(m),
                    messages))
-----------------------------------------------------------------------------
(* OpenAI messages for an Anthropic upstream.  Reasoning is left behind,   *)
(* system messages are gathered, and every tool message becomes a user     *)
(* message; an unknown role or kind of content is refused.                 *)
ToAnthropicContent(m) == m.blocks \o Each(ToolUse, m.calls)

ToAnthropicMessages(messages) ==
    IF \E i \in DOMAIN messages :
         \/ messages[i].role \notin {"system", "user", "assistant", "tool"}
         \/ /\ messages[i].role \in {"user", "assistant"}
            /\ \E j \in DOMAIN messages[i].blocks : messages[i].blocks[j].type \notin {"text", "image"}
    THEN Invalid
    ELSE Each(LAMBDA m : IF m.role = "tool" THEN AnthropicMessage("user", <<ToolResult(m.answers)>>)
                         ELSE AnthropicMessage(m.role, ToAnthropicContent(m)),
              SelectSeq(messages, LAMBDA m : m.role # "system"))

GatheredSystem(messages, fallback) ==
    IF \E i \in DOMAIN messages : messages[i].role = "system" /\ messages[i].blocks # <<>>
    THEN "text" ELSE fallback

(* The signature that stands for none, given to clients only.              *)
Placeholder(b) == b.type = "thinking" /\ b.sig = "placeholder"

(* validate_anthropic_request_messages, content_blocks_to_anthropic_request *)
HasPlaceholder(messages) ==
    \E i \in DOMAIN messages : \E j \in DOMAIN messages[i].blocks : Placeholder(messages[i].blocks[j])
-----------------------------------------------------------------------------
(* A request built from core messages, with no payload behind it: one      *)
(* result of a tool message is kept for OpenAI, none for Anthropic.        *)
CoreToOpenAi(m) ==
    LET results == BlocksOf(m, {"tool_result"})
    IN  IF m.role = "tool" /\ results # <<>> THEN ToolMessage(results[1].id)
        ELSE OpenAiMessage(m.role, BlocksOf(m, {"text", "image"}),
                           Each(LAMBDA b : b.id, BlocksOf(m, {"tool_use"})),
                           BlocksOf(m, {"thinking"}) # <<>>)

CoreForAnthropic(messages) == SelectSeq(messages, LAMBDA m : m.role \in {"user", "assistant"})
=============================================================================
