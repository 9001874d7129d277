---------------------------- MODULE CompletedBodies ----------------------------
(* The body a client gets of the same answer when it does not ask for a     *)
(* stream (unigateway-protocol responses/render.rs, unigateway-core         *)
(* conversion/{blocks,response}.rs), reduced to its text, its thinking, its *)
(* tool calls and why it stopped.  A message is what the upstream answers.  *)
EXTENDS AnthropicRenderer, OpenAiAdapter

Body(text, thinking, calls, stop) == [text |-> text, thinking |-> thinking, calls |-> calls, stop |-> stop]
Taken(call, id, name) == [id |-> id, name |-> name, input |-> Input(call.arguments)]
AsSent(call) == Taken(call, call.id, call.name)
Each(Op(_), seq) == [i \in DOMAIN seq |-> Op(seq[i])]

NormalizedText(setup, message) ==
    IF setup.encoding /\ message.reasoning = <<>> THEN SplitReasoning(message.content)
    ELSE [split |-> FALSE, thinking |-> message.reasoning, text |-> message.content]

ToolUse(call) == Taken(call, Named(call.id, "toolu_unknown"), Named(call.name, "tool"))

(* Openai content to blocks, thinking only under the policy that signs it.  *)
BlocksOfChoice(setup, message) ==
    LET normalized == NormalizedText(setup, message)
        calls == Each(ToolUse, message.calls)
    IN  Body(normalized.text, IF setup.policy = "placeholder" THEN normalized.thinking ELSE <<>>, calls,
             IF message.stop # None THEN StopReason(message.stop)
             ELSE IF calls = <<>> THEN "end_turn" ELSE "tool_use")

AnthropicBody(setup, message) ==
    IF setup.upstream = "anthropic"
    THEN Body(message.content, message.reasoning, Each(AsSent, message.calls), message.stop)
    ELSE BlocksOfChoice(setup, message)

(* The texts, and the thoughts, of several blocks are put on lines.         *)
NewLine == "newline"
OnLines(parts) == FlattenSeq([i \in DOMAIN parts |-> IF i = 1 THEN parts[i] ELSE <<NewLine>> \o parts[i]])

ChoiceOfBlocks(message) ==
    Body(OnLines(message.parts["text"]), OnLines(message.parts["thinking"]), Each(AsSent, message.calls),
         IF message.stop # None THEN FinishReason(message.stop)
         ELSE IF message.calls = <<>> THEN "stop" ELSE "tool_calls")

(* A message without a block does not count as one of Anthropic's, and its  *)
(* stop_reason is not looked at.                                            *)
FallbackBody(message) == Body(message.content, <<>>, <<>>, "stop")

OpenAiBody(setup, message) ==
    LET normalized == NormalizedText(setup, message)
    IN  IF setup.upstream = "anthropic"
        THEN IF message.blocks = 0 THEN FallbackBody(message) ELSE ChoiceOfBlocks(message)
        ELSE Body(normalized.text, normalized.thinking, Each(AsSent, message.calls), message.stop)

CompletedBody(setup, message) ==
    IF setup.client = "anthropic" THEN AnthropicBody(setup, message) ELSE OpenAiBody(setup, message)
=============================================================================
