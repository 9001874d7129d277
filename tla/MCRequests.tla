------------------------------ MODULE MCRequests ------------------------------
(* Conversations, tool choices, fields and Responses requests, each kind   *)
(* varied by itself, over a pool with endpoints of both protocols.         *)
EXTENDS Requests

Text(n) == [Block("text") EXCEPT !.id = n]
Tool(name) == [name |-> name, function |-> TRUE]

Endpoint(id, kind, enabled, caps, strips) ==
    [id |-> id, provider |-> kind, family |-> IF id = "spare" THEN "main" ELSE None,
     kind |-> kind, enabled |-> enabled, caps |-> caps, strips |-> strips]

MCPool == << Endpoint("main", "openai", TRUE, OpenAiDefault, None),
             Endpoint("mem", "openai", TRUE, MemtensorStyle, FALSE),
             Endpoint("claude", "anthropic", TRUE, AnthropicDefault, None),
             Endpoint("spare", "openai", TRUE, OpenAiDefault, None),
             Endpoint("off", "openai", FALSE, OpenAiDefault, None) >>

Request(protocol) ==
    [protocol |-> protocol, hint |-> None, stream |-> None, messages |-> <<>>, stored |-> <<>>,
     system |-> None, tools |-> None, choice |-> None, keys |-> {}, added |-> {}, roomy |-> FALSE,
     encoded |-> FALSE, model |-> "gpt"]

(* Conversations.  An OpenAI client's assistant calls two tools; the order *)
(* of their answers varies, and one may be missing.                        *)
User(n) == OpenAiMessage("user", <<Text(n)>>, <<>>, FALSE)
Calling(calls, reasoning) == OpenAiMessage("assistant", <<Text("a")>>, calls, reasoning)
OpenAiTalk ==
    { <<User("u")>> \o <<Calling(calls, reasoning)>> \o Each(ToolMessage, answers) \o last :
        calls \in {<<>>, <<"x">>, <<"x", "y">>}, reasoning \in BOOLEAN,
        answers \in {<<>>, <<"x">>, <<"x", "y">>, <<"y", "x">>},
        last \in {<<>>, <<User("v")>>, <<OpenAiMessage("developer", <<Text("d")>>, <<>>, FALSE)>>} }

AnthropicTalk ==
    { << AnthropicMessage("user", <<Text("u")>>),
         AnthropicMessage("assistant", thought \o <<Text("a")>> \o Each(ToolUse, calls)),
         AnthropicMessage("user", SetToSeq(before) \o Each(ToolResult, answers) \o after) >> :
        thought \in {<<>>, <<Thinking("genuine")>>, <<Thinking("placeholder")>>},
        calls \in {<<>>, <<"x">>, <<"x", "y">>},
        before \in {{}, {Text("b")}},
        answers \in {<<>>, <<"x">>, <<"y", "x">>, <<None>>},
        after \in {<<>>, <<Text("v")>>, <<Text("v"), Text("w")>>} }

OpenAiChat == { [Request("openai_chat") EXCEPT !.messages = talk, !.stored = kept, !.hint = hint] :
                  talk \in OpenAiTalk, hint \in {"spare", "claude"},
                  kept \in {<<>>, <<OpenAiMessage("system", <<Text("s")>>, <<>>, FALSE), User("k")>>} }

AnthropicChat == { [Request("anthropic_messages") EXCEPT !.messages = talk, !.stored = kept, !.system = system,
                                                         !.hint = hint] :
                     talk \in AnthropicTalk, system \in {None, "text", "blocks"}, hint \in {"spare", "claude"},
                     kept \in {<<>>, <<AnthropicMessage("user", <<Text("k")>>),
                                       AnthropicMessage("assistant", <<Thinking("placeholder"), Text("l")>>)>>} }

NeutralChat ==
    { [Request("neutral") EXCEPT !.messages = talk, !.keys = keys, !.added = added, !.hint = hint] :
        hint \in {"spare", "claude"},
        talk \in {<<AnthropicMessage("user", <<Text("u")>>)>>,
                  <<AnthropicMessage("user", <<Text("u")>>), AnthropicMessage("assistant", <<ToolUse("x")>>),
                    AnthropicMessage("tool", <<ToolResult("x")>>)>>},
        keys \in SUBSET {"temperature", "top_p"}, added \in SUBSET {"top_p", "_private"} }

(* Tool choices, hints and fields, over the shortest conversation.         *)
Short(protocol) == [Request(protocol) EXCEPT
    !.messages = <<IF protocol = "openai_chat" THEN User("u") ELSE AnthropicMessage("user", <<Text("u")>>)>>]

Named(choice) == [choice EXCEPT !.name = "f"]

ClientChoices ==
    {None} \union {Mode(m) : m \in {"auto", "none", "required", "any"}} \union {OfType(m) : m \in Modes}
           \union {Named(OfType("function")), Named(OfType("tool"))}

ToolSets == {None, <<Tool("f")>>, <<Tool("f"), Tool("g")>>, <<Tool("f"), [name |-> "s", function |-> FALSE]>>}

Choosing == { [Short(protocol) EXCEPT !.tools = tools, !.choice = choice, !.hint = hint] :
                protocol \in {"openai_chat", "anthropic_messages"}, tools \in ToolSets,
                choice \in ClientChoices,
                hint \in {"main", "mem", "claude"} }

Fields == { [Short(protocol) EXCEPT !.keys = keys, !.roomy = roomy, !.encoded = encoded, !.hint = hint,
                                    !.stream = stream] :
              protocol \in {"openai_chat", "anthropic_messages"},
              keys \in SUBSET {"temperature", "top_p", "max_tokens", "max_completion_tokens", "_private", "provider"},
              roomy \in BOOLEAN, encoded \in BOOLEAN, stream \in {None}, hint \in {"spare", "claude"} }

Hints == { [Short("openai_chat") EXCEPT !.hint = hint, !.stream = TRUE] :
             hint \in {None, "off", "nobody"} }

Responds(hint, tools, stream) ==
    [Request("openai_responses") EXCEPT !.hint = hint, !.tools = tools, !.stream = stream]

Responding == { [Responds(hint, tools, stream) EXCEPT !.choice = choice, !.keys = keys, !.model = model] :
                  tools \in {None, <<Tool("f")>>}, choice \in {None, Mode("required")}, stream \in {None, TRUE},
                  keys \in {{}, {"reasoning"}, {"reasoning_effort", "thinking_budget"}, {"_private"}},
                  hint \in {"spare", "mem", "claude"}, model \in {"gpt", "gpt-5.5"} }
                \union {Responds(None, None, None), Responds("main", <<Tool("f")>>, TRUE)}

Embedding == { [Request("openai_embeddings") EXCEPT !.hint = hint] : hint \in {None, "mem", "anthropic"} }

MCPayloads == OpenAiChat \union AnthropicChat \union NeutralChat \union Choosing \union Fields \union Hints
                \union Responding \union Embedding

Redirected == {Responds("spare", <<Tool("f")>>, stream) : stream \in {None, TRUE}}
===============================================================================
