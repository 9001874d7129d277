------------------------------ MODULE ToolChoice ------------------------------
(***************************************************************************)
(* What becomes of a request's tool_choice on its way to an endpoint       *)
(* (unigateway-core/src/capabilities.rs, conversion/tools.rs,              *)
(* conversion/tool_choice_normalize.rs).                                   *)
(*                                                                         *)
(* A choice is its mode, its form (OpenAI's strings, the objects of both), *)
(* and the name of the tool for the modes function (OpenAI) and tool       *)
(* (Anthropic).                                                            *)
(***************************************************************************)
EXTENDS Sequences

CONSTANTS None,      \* an optional value that is absent
          Invalid    \* GatewayError::InvalidRequest

(* ToolChoiceMode, and of those the ToolChoiceDowngradeTargets.            *)
Modes == {"auto", "none", "required", "any", "function", "tool"}
DowngradeTargets == {"auto", "none", "required", "any"}

Forms == {"string", "object"}

Mode(mode) == [mode |-> mode, form |-> "string", name |-> None]
OfType(mode) == [mode |-> mode, form |-> "object", name |-> None]

(* ToolCallingCapabilities, with the defaults of the drivers.              *)
OpenAiDefault == [modes |-> {"auto", "none"}, safe |-> TRUE,
                  downgrade |-> [m \in {"function", "required"} |-> "auto"]]
AnthropicDefault == [modes |-> {"auto", "none", "any", "required", "tool"}, safe |-> TRUE,
                     downgrade |-> [m \in {} |-> "auto"]]
MemtensorStyle == [modes |-> {"auto", "none", "required"}, safe |-> TRUE,
                   downgrade |-> [m \in {"function"} |-> "required"]]
-----------------------------------------------------------------------------
(* Between the protocols: any stands for required, tool for function.  A   *)
(* string is read with the names of one protocol, an object keeps some of  *)
(* the other's; what has no meaning left is refused.                       *)
ToAnthropicChoice(choice) ==
    CASE choice = None -> None
      [] choice # None /\ choice.form = "string" ->
           (CASE choice.mode \in {"auto", "none"} -> OfType(choice.mode)
              [] choice.mode = "required" -> OfType("any")
              [] OTHER -> Invalid)
      [] OTHER ->
           (CASE choice.mode = "function" /\ choice.name # None -> [choice EXCEPT !.mode = "tool"]
              [] choice.mode \in {"auto", "none", "any", "tool"} -> choice
              [] OTHER -> Invalid)

ToOpenAiChoice(choice) ==
    CASE choice = None -> None
      [] choice # None /\ choice.mode = "any" -> Mode("required")
      [] choice # None /\ choice.form = "string" ->
           IF choice.mode \in {"auto", "none", "required"} THEN choice ELSE Invalid
      [] OTHER ->
           (CASE choice.mode \in {"auto", "none"} -> Mode(choice.mode)
              [] choice.mode = "tool" /\ choice.name # None -> [choice EXCEPT !.mode = "function"]
              [] choice.mode = "function" -> choice
              [] OTHER -> Invalid)
-----------------------------------------------------------------------------
(* classify_*_tool_choice: what is not a mode of the upstream's protocol   *)
(* is sent as it is; a tool is named by an object.                         *)
Classified(protocol, choice) ==
    \/ choice.mode \in {"auto", "none", "required"}
    \/ choice.mode = "any" /\ protocol = "anthropic"
    \/ /\ choice.form = "object"
       /\ choice.mode = IF protocol = "openai" THEN "function" ELSE "tool"

(* A named tool may be given up when it is the only one declared.          *)
SafeDowngrade(choice, tools) ==
    choice.mode \in {"function", "tool"} => tools = <<choice.name>> /\ choice.name # None

Rendered(protocol, target) ==
    IF protocol = "openai" THEN Mode(IF target = "any" THEN "required" ELSE target)
    ELSE OfType(IF target = "required" THEN "any" ELSE target)

Normalize(choice, tools, caps, protocol) ==
    IF \/ choice = None
       \/ ~ Classified(protocol, choice)
       \/ choice.mode \in caps.modes
       \/ choice.mode \notin DOMAIN caps.downgrade
       \/ caps.safe /\ ~ SafeDowngrade(choice, tools)
    THEN choice
    ELSE Rendered(protocol, caps.downgrade[choice.mode])
-----------------------------------------------------------------------------
(* The endpoint's metadata, new for each attempt: recorded is what was     *)
(* sent in the place of the request's choice, forced the choice of the     *)
(* retry.                                                                  *)
NoMetadata == [recorded |-> None, forced |-> None]

(* record_tool_choice_normalization: nothing when nothing was changed.     *)
Record(meta, original, normalized) ==
    IF original = normalized \/ normalized = None THEN meta ELSE [meta EXCEPT !.recorded = normalized]

(* resolve_upstream_tool_choice: the choice to send.                       *)
Resolved(meta, choice, tools, caps, protocol) ==
    IF meta.forced # None THEN meta.forced ELSE Normalize(choice, tools, caps, protocol)

(* reactive_tool_choice_fallback: nothing for what is not classified.      *)
Weaker(current, protocol) ==
    CASE current = None -> None
      [] current # None /\ ~ Classified(protocol, current) -> None
      [] OTHER -> LET next == CASE current.mode = "tool" -> "any"
                                [] current.mode \in {"function", "any", "required"} -> "auto"
                                [] current.mode = "auto" -> "none"
                                [] OTHER -> None
                  IN  IF next = None THEN None ELSE IF protocol = "openai" THEN Mode(next) ELSE OfType(next)

(* apply_reactive_tool_choice_override                                     *)
Override(meta, next) == [meta EXCEPT !.forced = next]
=============================================================================
