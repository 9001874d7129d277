----------------------------- MODULE RequestProofs -----------------------------
(***************************************************************************)
(* The fields, the tool choices and the tools of a request, for every set  *)
(* of payloads and every pool: the invariant of Requests and three of its  *)
(* properties.                                                             *)
(***************************************************************************)
EXTENDS Requests, SequenceTheorems, TLAPS

-----------------------------------------------------------------------------
(* The invariant.  What an engine call is made for: a chat request is the  *)
(* client's through all of them, a Responses request has lost, by stages,  *)
(* its stream and its tools.                                               *)
Asked == Assembled(Parsed(payload), payload.stored)

Reasoned == payload.keys \intersect {"reasoning", "reasoning_effort"} # {}

RespondsFor(r) ==
    /\ r = [client |-> r.client, tools |-> r.tools, choice |-> r.choice, stream |-> r.stream, extra |-> r.extra]
    /\ r.stream \in BOOLEAN
    /\ r.extra = NormalizedFields(payload.keys \ RoutingHints)
    /\ \/ r.tools = payload.tools /\ r.choice = payload.choice
       \/ r.tools = None /\ r.choice = None /\ ~ Reasoned

CallFor(r) == IF IsChat THEN r = Asked /\ Parsed(payload) # Invalid
              ELSE payload.protocol = "openai_responses" => RespondsFor(r)

InCall == at \in {"calling", "sent", "failed"}

TheRequest ==
    /\ at = "parsed" => request = Parsed(payload) /\ request # Invalid
    /\ InCall => CallFor(request)

(* The history: entries of candidates, and the attempt that waits for its  *)
(* answer is the last.                                                     *)
Wires(l) == {l[i].wire : i \in DOMAIN l}
Entries(W) == [endpoint : DOMAIN Pool, wire : W, first : BOOLEAN, reply : {None, "ok"} \union Refusals]

TheLog ==
    /\ log \in Seq(Entries(Wires(log)))
    /\ at \in {"arrived", "parsed"} => log = <<>>
    /\ targets \subseteq Candidates
    /\ at = "sent" => /\ log # <<>> /\ log[Len(log)].endpoint = endpoint
                      /\ Build(request, Pool[endpoint], NoMetadata) # Invalid
    /\ \A i \in DOMAIN log : /\ log[i].endpoint \in Candidates
                             /\ i < Len(log) \/ at # "over" => log[i].reply # "ok"

Known == /\ payload \in Payloads
         /\ at \in {"arrived", "parsed", "calling", "sent", "failed", "over"}
         /\ TheRequest /\ TheLog

(* The fields of every request that was sent.                              *)
Legal(wire) ==
    /\ wire.fields \intersect GatewayOnly = {}
    /\ payload.protocol = "openai_responses" =>
         wire.fields \intersect {"reasoning_effort", "thinking_budget"} = {}
    /\ wire.to = "anthropic" =>
         "max_tokens" \in wire.fields /\ ~ ({"temperature", "top_p"} \subseteq wire.fields)
    /\ IsChat /\ wire.to = "openai" /\ BothLimits(wire) =>
         payload.encoded /\ "max_tokens" \notin payload.keys

AllLegal == payload.protocol # "openai_embeddings" => \A i \in DOMAIN log : Legal(log[i].wire)

(* The tool choices: the first of an endpoint is built in a new context,   *)
(* and the metadata is that of the last attempt.                           *)
Firsts ==
    \A i \in DOMAIN log :
      log[i].first => /\ log[i].wire = Build(Asked, Pool[log[i].endpoint], NoMetadata)
                      /\ log[i].wire # Invalid

Seconds ==
    \A i \in DOMAIN log :
      ~ log[i].first => /\ i > 1
                        /\ log[i - 1].first /\ log[i - 1].endpoint = log[i].endpoint
                        /\ log[i - 1].reply = "tool_choice"
                        /\ Strength(log[i].wire.choice) < Strength(log[i - 1].wire.choice)

Bounded == \A i \in DOMAIN log : Strength(log[i].wire.choice) \in 0 .. Strength(payload.choice)

MetaOfLast ==
    at = "sent" =>
      LET last == log[Len(log)]
      IN  IF last.first THEN meta = Record(NoMetadata, last.wire.original, last.wire.choice)
          ELSE meta.forced # None

Choosy == IsChat => Firsts /\ Seconds /\ Bounded /\ MetaOfLast

(* The stages of a Responses request: what was sent, in the history l, was *)
(* at an earlier stage than s, or at s and to an endpoint that is no       *)
(* longer left; no endpoint was asked twice at one stage.                  *)
InStages(l, s, left) ==
    \A i \in DOMAIN l : Stage(l[i].wire) <= s /\ (Stage(l[i].wire) = s => l[i].endpoint \notin left)

Climbing(l) ==
    \A i, j \in DOMAIN l :
      i < j => /\ Stage(l[i].wire) <= Stage(l[j].wire)
               /\ l[i].endpoint = l[j].endpoint => Stage(l[i].wire) # Stage(l[j].wire)

ToolsKept == Reasoned => \A i \in DOMAIN log : Tooled(log[i].wire) <=> Tooled(payload)

Staged ==
    payload.protocol = "openai_responses" =>
      /\ InCall => InStages(log, Stage(request), targets)
      /\ Climbing(log)
      /\ ToolsKept

RInv == Known /\ AllLegal /\ Choosy /\ Staged
-----------------------------------------------------------------------------
(* The history grows by one entry, or its last entry gets its reply.       *)
Grown(l, m, e) ==
    /\ m \in Seq(Entries(Wires(m))) /\ Len(l) \in Nat /\ DOMAIN l = 1 .. Len(l)
    /\ Len(m) = Len(l) + 1 /\ DOMAIN m = 1 .. Len(l) + 1
    /\ \A j \in 1 .. Len(l) : m[j] = l[j]
    /\ m[Len(l) + 1] = e

LEMMA LogAppended ==
    ASSUME NEW l, l \in Seq(Entries(Wires(l))), NEW i \in DOMAIN Pool, NEW w, NEW f \in BOOLEAN
    PROVE  LET e == [endpoint |-> i, wire |-> w, first |-> f, reply |-> None]
           IN  Grown(l, Append(l, e), e)
<1> DEFINE e == [endpoint |-> i, wire |-> w, first |-> f, reply |-> None]
           m == Append(l, e)
           W == Wires(l) \union {w}
<1>1. /\ Len(l) \in Nat /\ DOMAIN l = 1 .. Len(l)
      /\ \A j \in DOMAIN l : l[j] \in Entries(Wires(l))
  BY LenProperties, ElementOfSeq
<1>2. Entries(Wires(l)) \subseteq Entries(W) /\ e \in Entries(W)
  BY DEF Entries
<1>3. l \in Seq(Entries(W))
  BY <1>2, SeqMonotonic
<1>4. /\ m \in Seq(Entries(W)) /\ Len(m) = Len(l) + 1
      /\ \A j \in 1 .. Len(l) : m[j] = l[j]
      /\ m[Len(l) + 1] = e
  <2> HIDE DEF e, W
  <2> QED BY <1>2, <1>3, AppendProperties
<1>5. DOMAIN m = 1 .. Len(m)
  BY <1>4, LenProperties
<1> HIDE DEF m
<1>6. \A j \in 1 .. Len(m) : m[j] \in Entries(Wires(m))
  <2> SUFFICES ASSUME NEW j \in 1 .. Len(m) PROVE m[j] \in Entries(Wires(m))
    OBVIOUS
  <2>1. m[j] \in Entries(W)
    BY <1>4, ElementOfSeq
  <2>2. m[j].wire \in Wires(m)
    BY <1>5 DEF Wires
  <2> QED BY <2>1, <2>2 DEF Entries
<1>7. m \in Seq(Entries(Wires(m)))
  <2>1. m = [j \in 1 .. Len(m) |-> m[j]]
    BY <1>4, LenProperties
  <2>2. Len(m) \in Nat
    BY <1>1, <1>4
  <2>3. m \in [1 .. Len(m) -> Entries(Wires(m))]
    BY <1>6, <2>1
  <2> QED BY <2>2, <2>3, SeqDef
<1>8. Grown(l, m, e)
  BY <1>1, <1>4, <1>5, <1>7 DEF Grown
<1> QED BY <1>8 DEF m

ReplyTo(l, m, r) ==
    /\ m \in Seq(Entries(Wires(m))) /\ Len(l) \in Nat \ {0} /\ DOMAIN l = 1 .. Len(l)
    /\ Len(m) = Len(l) /\ DOMAIN m = 1 .. Len(l)
    /\ \A j \in 1 .. Len(l) : /\ j # Len(l) => m[j] = l[j]
                              /\ m[j].endpoint = l[j].endpoint /\ m[j].wire = l[j].wire
                              /\ m[j].first = l[j].first
    /\ m[Len(l)].reply = r

LEMMA LogReplied ==
    ASSUME NEW l, l \in Seq(Entries(Wires(l))), l # <<>>, NEW r \in {"ok"} \union Refusals
    PROVE  ReplyTo(l, [l EXCEPT ![Len(l)].reply = r], r)
<1> DEFINE m == [l EXCEPT ![Len(l)].reply = r]
           e == [l[Len(l)] EXCEPT !.reply = r]
<1>1. /\ Len(l) \in Nat \ {0} /\ DOMAIN l = 1 .. Len(l)
      /\ \A j \in DOMAIN l : l[j] \in Entries(Wires(l))
  BY LenProperties, ElementOfSeq, EmptySeq
<1>2. /\ e \in Entries(Wires(l)) /\ e.endpoint = l[Len(l)].endpoint /\ e.wire = l[Len(l)].wire
      /\ e.first = l[Len(l)].first /\ e.reply = r
  BY <1>1 DEF Entries
<1>3. m = [l EXCEPT ![Len(l)] = e]
  OBVIOUS
<1> HIDE DEF m, e
<1>4. /\ m \in Seq(Entries(Wires(l))) /\ Len(m) = Len(l)
      /\ \A j \in 1 .. Len(l) : m[j] = IF j = Len(l) THEN e ELSE l[j]
      /\ m[Len(l)] = e
  <2>1. Len(l) \in 1 .. Len(l)
    BY <1>1
  <2> QED BY <1>2, <1>3, <2>1, ExceptSeq
<1>5. DOMAIN m = 1 .. Len(l)
  BY <1>4, LenProperties
<1>6. \A j \in 1 .. Len(l) : /\ j # Len(l) => m[j] = l[j]
                             /\ m[j].endpoint = l[j].endpoint /\ m[j].wire = l[j].wire
                             /\ m[j].first = l[j].first
  BY <1>2, <1>4
<1>7. Wires(m) = Wires(l)
  BY <1>1, <1>5, <1>6 DEF Wires
<1>8. m[Len(l)].reply = r
  BY <1>2, <1>4
<1>9. ReplyTo(l, m, r)
  BY <1>1, <1>4, <1>5, <1>6, <1>7, <1>8 DEF ReplyTo
<1> QED BY <1>9 DEF m
-----------------------------------------------------------------------------
(* The tool choices and their strengths.                                   *)
LEMMA PayloadIs ==
    ASSUME NEW p \in Payloads
    PROVE  /\ p.protocol \in Chat \union {"openai_responses", "openai_embeddings"}
           /\ p.choice \in ToolChoices \union {None}
           /\ p.stream \in BOOLEAN \union {None}
           /\ p.encoded \in BOOLEAN
           /\ p.tools # None => Names(p.tools) # None
BY PayloadsShaped, NoneApart

LEMMA ModeIs ==
    ASSUME NEW m \in Modes
    PROVE  /\ Mode(m) \in ToolChoices /\ Mode(m).mode = m
           /\ OfType(m) \in ToolChoices /\ OfType(m).mode = m
BY DEF Mode, OfType, Forms, ToolChoices

LEMMA StrengthIs ==
    /\ Strength(None) = 1
    /\ \A c \in ToolChoices : /\ c # None /\ c.mode \in Modes
                              /\ Strength(c) \in 0 .. 3
                              /\ c.mode \in {"function", "tool"} => Strength(c) = 3
                              /\ c.mode \in {"any", "required"} => Strength(c) = 2
                              /\ c.mode = "auto" => Strength(c) = 1
                              /\ c.mode = "none" => Strength(c) = 0
<1>1. Strength(None) = 1
  BY DEF Strength
<1>2. ASSUME NEW c \in ToolChoices
      PROVE  /\ c # None /\ c.mode \in Modes
             /\ Strength(c) \in 0 .. 3
             /\ c.mode \in {"function", "tool"} => Strength(c) = 3
             /\ c.mode \in {"any", "required"} => Strength(c) = 2
             /\ c.mode = "auto" => Strength(c) = 1
             /\ c.mode = "none" => Strength(c) = 0
  <2>1. c # None /\ c.mode \in Modes
    BY NoneApart DEF ToolChoices
  <2> QED BY <2>1 DEF Strength, Modes
<1> QED BY <1>1, <1>2

LEMMA StrengthOfMode ==
    ASSUME NEW c \in ToolChoices
    PROVE  Strength(c) = Strength(Mode(c.mode))
BY StrengthIs, ModeIs DEF Modes

(* A conversion changes the mode into the equally strong one of the other. *)
LEMMA Renamed ==
    ASSUME NEW c \in ToolChoices, NEW m \in Modes
    PROVE  [c EXCEPT !.mode = m] \in ToolChoices /\ [c EXCEPT !.mode = m].mode = m
BY DEF ToolChoices

LEMMA ConvertedToOpenAi ==
    ASSUME NEW c \in ToolChoices \union {None}, ToOpenAiChoice(c) # Invalid
    PROVE  ToOpenAiChoice(c) \in ToolChoices \union {None} /\ Strength(ToOpenAiChoice(c)) = Strength(c)
<1> DEFINE d == ToOpenAiChoice(c)
<1>1. CASE d = c
  BY <1>1
<1>2. CASE c # None /\ d # c
  <2>1. c \in ToolChoices
    BY <1>2
  <2>2. \/ c.mode = "any" /\ d = Mode("required")
        \/ c.mode \in {"auto", "none"} /\ d = Mode(c.mode)
        \/ c.mode = "tool" /\ d = [c EXCEPT !.mode = "function"]
    BY <1>2 DEF ToOpenAiChoice
  <2>3. c.mode = "tool" /\ d = [c EXCEPT !.mode = "function"] => d \in ToolChoices /\ d.mode = "function"
    BY <2>1, Renamed DEF Modes
  <2> SUFFICES d \in ToolChoices /\ Strength(d) = Strength(c)
    OBVIOUS
  <2> HIDE DEF d
  <2>4. CASE d = Mode(c.mode) /\ c.mode \in {"auto", "none"}
    <3>1. d \in ToolChoices /\ d.mode = c.mode
      BY <2>4, ModeIs DEF Modes
    <3> QED BY <2>1, <2>4, <3>1, StrengthIs
  <2>5. CASE d = Mode("required") /\ c.mode = "any"
    <3>1. d \in ToolChoices /\ d.mode = "required"
      BY <2>5, ModeIs DEF Modes
    <3> QED BY <2>1, <2>5, <3>1, StrengthIs
  <2>6. CASE d \in ToolChoices /\ c.mode \in {"tool", "function"} /\ d.mode \in {"tool", "function"}
    BY <2>1, <2>6, StrengthIs
  <2> QED BY <2>2, <2>3, <2>4, <2>5, <2>6
<1>3. CASE c = None
  BY <1>3 DEF ToOpenAiChoice
<1> QED BY <1>1, <1>2, <1>3

LEMMA ConvertedToAnthropic ==
    ASSUME NEW c \in ToolChoices \union {None}, ToAnthropicChoice(c) # Invalid
    PROVE  ToAnthropicChoice(c) \in ToolChoices \union {None} /\ Strength(ToAnthropicChoice(c)) = Strength(c)
<1> DEFINE d == ToAnthropicChoice(c)
<1>1. CASE d = c
  BY <1>1
<1>2. CASE c # None /\ d # c
  <2>1. c \in ToolChoices
    BY <1>2
  <2>2. \/ c.mode = "required" /\ d = OfType("any")
        \/ c.mode \in {"auto", "none"} /\ d = OfType(c.mode)
        \/ c.mode = "function" /\ d = [c EXCEPT !.mode = "tool"]
    BY <1>2 DEF ToAnthropicChoice
  <2>3. c.mode = "function" /\ d = [c EXCEPT !.mode = "tool"] => d \in ToolChoices /\ d.mode = "tool"
    BY <2>1, Renamed DEF Modes
  <2> SUFFICES d \in ToolChoices /\ Strength(d) = Strength(c)
    OBVIOUS
  <2> HIDE DEF d
  <2>4. CASE d = OfType(c.mode) /\ c.mode \in {"auto", "none"}
    <3>1. d \in ToolChoices /\ d.mode = c.mode
      BY <2>4, ModeIs DEF Modes
    <3> QED BY <2>1, <2>4, <3>1, StrengthIs
  <2>5. CASE d = OfType("any") /\ c.mode = "required"
    <3>1. d \in ToolChoices /\ d.mode = "any"
      BY <2>5, ModeIs DEF Modes
    <3> QED BY <2>1, <2>5, <3>1, StrengthIs
  <2>6. CASE d \in ToolChoices /\ c.mode \in {"tool", "function"} /\ d.mode \in {"tool", "function"}
    BY <2>1, <2>6, StrengthIs
  <2> QED BY <2>2, <2>3, <2>4, <2>5, <2>6
<1>3. CASE c = None
  BY <1>3 DEF ToAnthropicChoice
<1> QED BY <1>1, <1>2, <1>3

(* What is normalized is no stronger than what it stands for, and never    *)
(* nothing.                                                                *)
LEMMA NormalizedIs ==
    ASSUME NEW c \in ToolChoices \union {None}, NEW caps, Weakens(caps), NEW tools, NEW protocol
    PROVE  LET n == Normalize(c, tools, caps, protocol)
           IN  /\ n \in ToolChoices \union {None} /\ (n = None <=> c = None)
               /\ Strength(n) \in 0 .. Strength(c)
<1> DEFINE n == Normalize(c, tools, caps, protocol)
<1>1. Strength(c) \in 0 .. 3
  BY StrengthIs
<1>2. CASE n = c
  BY <1>1, <1>2
<1>3. CASE n # c
  <2> DEFINE t == caps.downgrade[c.mode]
  <2>1. /\ c # None /\ c \in ToolChoices /\ c.mode \in DOMAIN caps.downgrade
        /\ n = Rendered(protocol, t)
    BY <1>3 DEF Normalize
  <2>2. t \in DowngradeTargets /\ Strength(Mode(t)) <= Strength(Mode(c.mode))
    BY <2>1 DEF Weakens
  <2> HIDE DEF t
  <2>3. Rendered(protocol, t) \in ToolChoices /\ Strength(Rendered(protocol, t)) = Strength(Mode(t))
    BY <2>2, ModeIs, StrengthIs DEF Rendered, DowngradeTargets, Modes
  <2>4. Strength(c) = Strength(Mode(c.mode))
    BY <2>1, StrengthOfMode
  <2> HIDE DEF n
  <2>5. n \in ToolChoices /\ n # None /\ c # None
    BY <2>1, <2>3, StrengthIs
  <2>6. Strength(n) \in 0 .. Strength(c)
    BY <2>1, <2>2, <2>3, <2>4, <2>5, <1>1, StrengthIs
  <2> QED BY <2>5, <2>6 DEF n
<1> QED BY <1>2, <1>3

(* The fallback is strictly weaker.                                        *)
LEMMA WeakerIs ==
    ASSUME NEW c \in ToolChoices \union {None}, NEW protocol, Weaker(c, protocol) # None
    PROVE  /\ c \in ToolChoices /\ Weaker(c, protocol) \in ToolChoices
           /\ Strength(Weaker(c, protocol)) \in 0 .. Strength(c) - 1
<1>1. c # None /\ c \in ToolChoices
  BY DEF Weaker
<1>2. \E next \in Modes :
        /\ Weaker(c, protocol) \in {Mode(next), OfType(next)}
        /\ \/ c.mode = "tool" /\ next = "any"
           \/ c.mode \in {"function", "any", "required"} /\ next = "auto"
           \/ c.mode = "auto" /\ next = "none"
  BY <1>1 DEF Weaker, Modes
<1> QED BY <1>1, <1>2, ModeIs, StrengthIs DEF Modes
-----------------------------------------------------------------------------
(* What is built for an endpoint.                                          *)
LEMMA AskedIs ==
    ASSUME IsChat, Parsed(payload) # Invalid
    PROVE  /\ Asked.client = payload.protocol /\ Asked.typed = Typed(payload)
           /\ Asked.tools = payload.tools /\ Asked.choice = payload.choice
           /\ Asked.encoded = payload.encoded
<1> DEFINE r == Parsed(payload)
       core == CASE payload.protocol = "openai_chat" -> OpenAiCore(payload.messages)
                 [] payload.protocol = "anthropic_messages" -> AnthropicCore(payload.messages, payload.system)
                 [] payload.protocol = "neutral" -> payload.messages
       raw == IF payload.protocol = "neutral" THEN None ELSE payload.messages
       system == IF payload.protocol = "openai_chat" THEN None ELSE payload.system
       stream == StreamFlag(payload, payload.protocol = "anthropic_messages")
       extra == IF payload.protocol = "neutral" THEN payload.added ELSE Extra(payload)
<1>1. r = ChatRequest(payload)
  BY DEF Parsed, IsChat, Chat
<1>2. r = [client |-> payload.protocol, core |-> core, raw |-> raw, system |-> system,
           tools |-> payload.tools, choice |-> payload.choice, stream |-> stream,
           typed |-> Typed(payload), roomy |-> payload.roomy, encoded |-> payload.encoded,
           extra |-> extra]
  BY <1>1, Zenon DEF ChatRequest
<1> HIDE DEF r, core, raw, system, stream, extra
<1>3. r.client = payload.protocol /\ r.typed = Typed(payload)
      /\ r.tools = payload.tools /\ r.choice = payload.choice /\ r.encoded = payload.encoded
  BY <1>2
<1>4. \A x : LET q == [r EXCEPT !.raw = x]
             IN q.client = r.client /\ q.typed = r.typed /\ q.tools = r.tools /\ q.choice = r.choice
                /\ q.encoded = r.encoded
  BY <1>2
<1>5. Asked = r \/ \E x : Asked = [r EXCEPT !.raw = x]
  BY DEF Asked, Assembled, r
<1> QED BY <1>3, <1>4, <1>5

LEMMA TypedFields == \A p \in Payloads : Typed(p) = p.keys \intersect KnownFields
                                          /\ Typed(p) \intersect GatewayOnly = {}
BY DEF Typed, KnownFields, GatewayOnly

LEMMA OpenAiFieldsLegal ==
    ASSUME NEW r, NEW keys, r.typed = keys \intersect KnownFields, r.encoded \in BOOLEAN
    PROVE  /\ OpenAiFields(r) \intersect GatewayOnly = {}
           /\ {"max_tokens", "max_completion_tokens"} \subseteq OpenAiFields(r) =>
                r.encoded /\ "max_tokens" \notin keys
BY DEF OpenAiFields, Forwardable, GatewayOnly, KnownFields

LEMMA AnthropicFieldsLegal ==
    ASSUME NEW r, r.typed \intersect GatewayOnly = {}
    PROVE  /\ AnthropicFields(r) \intersect GatewayOnly = {}
           /\ "max_tokens" \in AnthropicFields(r)
           /\ ~ ({"temperature", "top_p"} \subseteq AnthropicFields(r))
BY DEF AnthropicFields, Forwardable, GatewayOnly

LEMMA ResponsesFieldsLegal ==
    ASSUME NEW extra
    PROVE  /\ NormalizedFields(Forwardable(extra)) \intersect GatewayOnly = {}
           /\ NormalizedFields(Forwardable(extra)) \intersect {"reasoning_effort", "thinking_budget"} = {}
BY DEF NormalizedFields, Forwardable, GatewayOnly

(* A chat request: what was built in a new context can be built with any   *)
(* metadata, and is legal; the metadata decides the choice only.           *)
LEMMA BuiltChat ==
    ASSUME payload \in Payloads, IsChat, Parsed(payload) # Invalid, NEW i \in DOMAIN Pool, NEW m,
           Build(Asked, Pool[i], NoMetadata) # Invalid
    PROVE  LET w == Build(Asked, Pool[i], m)
           IN  /\ Legal(w)
               /\ m = NoMetadata => w.choice \in ToolChoices \union {None}
                                    /\ Strength(w.choice) \in 0 .. Strength(payload.choice)
               /\ m.forced # None => w.choice = m.forced
<1> DEFINE e == Pool[i]
           w == Build(Asked, e, m)
<1>1. /\ Asked.client = payload.protocol /\ Asked.typed \intersect GatewayOnly = {}
      /\ Asked.typed = payload.keys \intersect KnownFields
      /\ Asked.encoded = payload.encoded /\ payload.encoded \in BOOLEAN
      /\ Asked.choice = payload.choice /\ payload.choice \in ToolChoices \union {None}
  BY AskedIs, TypedFields, PayloadIs
<1>2. e.kind \in {"openai", "anthropic"} /\ Weakens(e.caps) /\ payload.protocol # "openai_responses"
  BY PoolShaped DEF IsChat, Chat
<1>3. NoMetadata.forced = None
  BY DEF NoMetadata
<1>4. ASSUME NEW c \in ToolChoices \union {None}, Strength(c) = Strength(payload.choice),
             NEW tools, NEW protocol, w.choice = Resolved(m, c, tools, e.caps, protocol)
      PROVE  /\ m = NoMetadata => w.choice \in ToolChoices \union {None}
                                  /\ Strength(w.choice) \in 0 .. Strength(payload.choice)
             /\ m.forced # None => w.choice = m.forced
  <2>1. m = NoMetadata => w.choice = Normalize(c, tools, e.caps, protocol)
    BY <1>3, <1>4 DEF Resolved
  <2>2. m.forced # None => w.choice = m.forced
    BY <1>4 DEF Resolved
  <2> QED BY <1>2, <1>4, <2>1, <2>2, NormalizedIs
<1>5. CASE e.kind = "openai"
  <2> DEFINE c == ToOpenAiChoice(payload.choice)
  <2>1. Build(Asked, e, NoMetadata) = BuildOpenAiChat(Asked, NoMetadata, e.caps)
        /\ w = BuildOpenAiChat(Asked, m, e.caps)
    BY <1>5 DEF Build, IsChat, Chat
  <2>2. c # Invalid
    BY <2>1, <1>1 DEF BuildOpenAiChat
  <2>3. w = [to |-> "openai", messages |-> OpenAiChatMessages(Asked), system |-> None,
             tools |-> Names(Asked.tools), original |-> c,
             choice |-> Resolved(m, c, Names(Asked.tools), e.caps, "openai"),
             stream |-> Asked.stream, fields |-> OpenAiFields(Asked)]
    BY <2>1, <2>2, <1>1 DEF BuildOpenAiChat
  <2>4. /\ w.to = "openai" /\ w.fields = OpenAiFields(Asked)
        /\ w.choice = Resolved(m, c, Names(Asked.tools), e.caps, "openai")
    BY <2>3
  <2>5. c \in ToolChoices \union {None} /\ Strength(c) = Strength(payload.choice)
    BY <1>1, <2>2, ConvertedToOpenAi
  <2>6. Legal(w)
    BY <1>1, <1>2, <2>4, OpenAiFieldsLegal DEF Legal, BothLimits
  <2> HIDE DEF c, w, e
  <2>7. /\ m = NoMetadata => w.choice \in ToolChoices \union {None}
                             /\ Strength(w.choice) \in 0 .. Strength(payload.choice)
        /\ m.forced # None => w.choice = m.forced
    BY <1>4, <2>4, <2>5
  <2> QED BY <2>6, <2>7 DEF w, e
<1>6. CASE e.kind = "anthropic"
  <2> DEFINE c == IF Asked.client = "openai_chat" THEN ToAnthropicChoice(Asked.choice) ELSE Asked.choice
             tools == IF Asked.client = "openai_chat" THEN FunctionTools(Asked.tools) ELSE Names(Asked.tools)
             system == IF Asked.client = "openai_chat" THEN GatheredSystem(Asked.raw, FallbackSystem(Asked))
                       ELSE FallbackSystem(Asked)
  <2>1. Build(Asked, e, NoMetadata) = BuildAnthropicChat(Asked, NoMetadata, e.caps)
        /\ w = BuildAnthropicChat(Asked, m, e.caps)
    BY <1>6 DEF Build, IsChat, Chat
  <2>2. Invalid \notin {AnthropicChatMessages(Asked), tools, c}
    BY <2>1, Zenon DEF BuildAnthropicChat
  <2>3. w = [to |-> "anthropic", messages |-> AnthropicChatMessages(Asked), system |-> system,
             tools |-> tools, original |-> c,
             choice |-> Resolved(m, c, tools, e.caps, "anthropic"),
             stream |-> Asked.stream, fields |-> AnthropicFields(Asked)]
    BY <2>1, <2>2, Zenon DEF BuildAnthropicChat
  <2>4. c \in ToolChoices \union {None} /\ Strength(c) = Strength(payload.choice)
    BY <1>1, <2>2, ConvertedToAnthropic
  <2> HIDE DEF c, tools, system, e, w
  <2>5. /\ w.to = "anthropic" /\ w.fields = AnthropicFields(Asked)
        /\ w.choice = Resolved(m, c, tools, e.caps, "anthropic")
    BY <2>3
  <2>6. Legal(w)
    BY <1>1, <1>2, <2>5, AnthropicFieldsLegal DEF Legal
  <2>7. /\ m = NoMetadata => w.choice \in ToolChoices \union {None}
                             /\ Strength(w.choice) \in 0 .. Strength(payload.choice)
        /\ m.forced # None => w.choice = m.forced
    BY <1>4, <2>4, <2>5
  <2> QED BY <2>6, <2>7 DEF w, e
<1> QED BY <1>2, <1>5, <1>6

LEMMA BuiltTo ==
    ASSUME IsChat, NEW r, NEW i \in DOMAIN Pool, NEW w,
           w = Build(r, Pool[i], NoMetadata), w # Invalid
    PROVE  w.to = Pool[i].kind
<1>1. CASE Pool[i].kind = "openai"
  <2>1. w = BuildOpenAiChat(r, NoMetadata, Pool[i].caps)
    BY <1>1 DEF Build, Chat, IsChat
  <2> QED BY <1>1, <2>1 DEF BuildOpenAiChat
<1>2. CASE Pool[i].kind = "anthropic"
  <2>1. w = BuildAnthropicChat(r, NoMetadata, Pool[i].caps)
    BY <1>2 DEF Build, Chat, IsChat
  <2> QED BY <1>2, <2>1 DEF BuildAnthropicChat
<1> QED BY <1>1, <1>2, PoolShaped

(* A Responses request: what is built has the stage of the request.        *)
LEMMA StageIs ==
    ASSUME NEW w
    PROVE  /\ Stage(w) \in 0 .. 3
           /\ w.stream = TRUE => Stage(w) = IF Tooled(w) THEN 0 ELSE 2
           /\ w.stream = FALSE => Stage(w) = IF Tooled(w) THEN 1 ELSE 3
BY DEF Stage

LEMMA BuiltResponses ==
    ASSUME payload \in Payloads, payload.protocol = "openai_responses", RespondsFor(request),
           NEW i \in DOMAIN Pool
    PROVE  LET w == Build(request, Pool[i], NoMetadata)
           IN  /\ Legal(w)
               /\ Tooled(w) <=> Tooled(request)
               /\ Stage(w) = Stage(request)
<1> DEFINE w == Build(request, Pool[i], NoMetadata)
           n == Normalize(request.choice, Names(request.tools), Pool[i].caps, "openai")
<1>1. w = [to |-> "openai", tools |-> Names(request.tools), original |-> request.choice,
           choice |-> n, stream |-> request.stream,
           fields |-> NormalizedFields(Forwardable(request.extra))]
  BY DEF Build, IsChat, Chat, BuildResponses, Resolved, NoMetadata
<1>2. Weakens(Pool[i].caps)
  BY PoolShaped
<1>3. /\ request.tools # None => Names(request.tools) # None
      /\ request.choice \in ToolChoices \union {None}
  BY PayloadIs DEF RespondsFor
<1>4. request.tools = None => Names(request.tools) = None
  BY DEF Names
<1>5. n = None <=> request.choice = None
  BY <1>2, <1>3, NormalizedIs
<1> HIDE DEF n, w
<1>6. /\ w.tools = Names(request.tools) /\ w.choice = n /\ w.stream = request.stream
      /\ w.to = "openai" /\ w.fields = NormalizedFields(Forwardable(request.extra))
  BY <1>1
<1>7. Tooled(w) <=> Tooled(request)
  BY <1>3, <1>4, <1>5, <1>6 DEF Tooled
<1>8. Stage(w) = Stage(request)
  BY <1>6, <1>7 DEF Stage
<1>9. Legal(w)
  BY <1>6, ResponsesFieldsLegal DEF Legal, IsChat, Chat
<1> QED BY <1>7, <1>8, <1>9 DEF w
-----------------------------------------------------------------------------
(* The steps, by what they do to the history.                              *)
SentTo(i) ==
    LET w == Build(request, Pool[i], NoMetadata)
    IN  /\ at = "calling" /\ at' = "sent"
        /\ i \in targets /\ i \in Candidates /\ endpoint' = i /\ targets' = targets \ {i}
        /\ w # Invalid /\ meta' = Record(NoMetadata, w.original, w.choice)
        /\ Grown(log, log', [endpoint |-> i, wire |-> w, first |-> TRUE, reply |-> None])
        /\ UNCHANGED <<payload, request>>

Gets(r) ==
    /\ at = "sent" /\ at' = IF r = "ok" THEN "over" ELSE "failed"
    /\ ReplyTo(log, log', r)
    /\ UNCHANGED <<payload, request, targets, endpoint, meta>>

AskedAgain ==
    LET m == Override(meta, Weaker(meta.recorded, Pool[endpoint].kind))
        w == Build(request, Pool[endpoint], m)
    IN  /\ at = "sent" /\ MayRetry("tool_choice") /\ meta' = Record(m, w.original, w.choice)
        /\ \E l : /\ ReplyTo(log, l, "tool_choice")
                  /\ Grown(l, log', [endpoint |-> endpoint, wire |-> w, first |-> FALSE, reply |-> None])
        /\ UNCHANGED <<payload, at, request, targets, endpoint>>

(* A new call, of a Responses request, is at a later stage.                *)
Renewed ==
    /\ InCall /\ at' = "calling"
    /\ payload.protocol = "openai_responses" /\ RespondsFor(request')
    /\ Stage(request) < Stage(request')

Quiet ==
    /\ log' = log /\ payload' = payload /\ at # "over" /\ targets' \subseteq Candidates
    /\ \/ at' = "over"
       \/ log = <<>> /\ at' = "parsed" /\ request' = Parsed(payload) /\ request' # Invalid
       \/ log = <<>> /\ at' = "calling" /\ CallFor(request')
       \/ InCall /\ at' \in {"calling", "failed"} /\ request' = request /\ targets' \subseteq targets
       \/ Renewed

LEMMA CandidatesIs ==
    /\ Candidates \subseteq DOMAIN Pool
    /\ \A i \in Candidates : Pool[i].enabled
    /\ payload.protocol = "openai_responses" =>
         \A i \in Candidates : /\ Pool[i].kind = "openai"
                               /\ payload.hint # None => Matches(Pool[i], payload.hint)
BY DEF Candidates, ChatTarget, CompatibleTarget, Compatible, IsChat, Chat

LEMMA DispatchedIs ==
    ASSUME Known, at = "parsed"
    PROVE  CallFor(IF IsChat THEN Assembled(request, payload.stored) ELSE request)
<1>1. request = Parsed(payload) /\ request # Invalid /\ payload \in Payloads
  BY DEF Known, TheRequest
<1>2. CASE IsChat
  BY <1>1, <1>2 DEF CallFor, Asked
<1>3. CASE payload.protocol = "openai_responses"
  <2>1. ~ IsChat
    BY <1>3 DEF IsChat, Chat
  <2>2. request = [client |-> payload.protocol, tools |-> payload.tools, choice |-> payload.choice,
                   stream |-> StreamFlag(payload, FALSE),
                   extra |-> NormalizedFields(payload.keys \ RoutingHints)]
    BY <1>1, <1>3 DEF Parsed, Chat, ResponsesRequest
  <2>3. StreamFlag(payload, FALSE) \in BOOLEAN
    BY <1>1, PayloadIs DEF StreamFlag
  <2>4. RespondsFor(request)
    <3> DEFINE flag == StreamFlag(payload, FALSE)
               extra == NormalizedFields(payload.keys \ RoutingHints)
    <3> HIDE DEF flag, extra
    <3>1. request = [client |-> payload.protocol, tools |-> payload.tools, choice |-> payload.choice,
                     stream |-> flag, extra |-> extra]
      BY <2>2 DEF flag, extra
    <3>2. flag \in BOOLEAN
      BY <2>3 DEF flag
    <3>3. /\ request = [client |-> request.client, tools |-> request.tools, choice |-> request.choice,
                        stream |-> request.stream, extra |-> request.extra]
          /\ request.stream \in BOOLEAN /\ request.extra = extra
          /\ request.tools = payload.tools /\ request.choice = payload.choice
      BY <3>1, <3>2
    <3> QED BY <3>3 DEF RespondsFor, extra
  <2> QED BY <2>1, <2>4 DEF CallFor
<1>4. CASE ~ IsChat /\ payload.protocol # "openai_responses"
  BY <1>4 DEF CallFor
<1> QED BY <1>2, <1>3, <1>4

LEMMA CallFailsInto ==
    ASSUME Known, InCall, NEW error, CallFails(error), payload' = payload
    PROVE  /\ at' = "over" \/ Renewed
           /\ targets' \subseteq Candidates
<1>1. targets \subseteq Candidates
  BY DEF Known, TheLog
<1> DEFINE Streaming == payload.protocol = "openai_responses" /\ request.stream
           Stripping == /\ payload.protocol = "openai_responses" /\ ~ failed.stripped
                        /\ ShouldStrip(request, ToReturn(failed.stream, error))
<1>2. payload.protocol = "openai_responses" => RespondsFor(request)
  BY DEF Known, TheRequest, CallFor, IsChat, Chat
<1>3. CASE Streaming
  <2>1. request' = [request EXCEPT !.stream = FALSE] /\ at' = "calling" /\ targets' = Candidates
    BY <1>3 DEF CallFails
  <2>2. /\ request' = [client |-> request.client, tools |-> request.tools, choice |-> request.choice,
                       stream |-> FALSE, extra |-> request.extra]
        /\ request.stream = TRUE
    BY <1>2, <1>3, <2>1 DEF RespondsFor
  <2>3. RespondsFor(request')
    BY <1>2, <1>3, <2>2 DEF RespondsFor
  <2>4. Stage(request) < Stage(request')
    BY <2>2 DEF Stage, Tooled
  <2> QED BY <1>3, <2>1, <2>3, <2>4 DEF Renewed
<1>4. CASE ~ Streaming /\ Stripping
  <2> DEFINE flag == StreamFlag(payload, FALSE)
  <2>1. /\ request' = [WithoutTools(request) EXCEPT !.stream = flag]
        /\ at' = "calling" /\ targets' = Candidates
    BY <1>4 DEF CallFails
  <2>2. flag \in BOOLEAN
    BY PayloadIs DEF StreamFlag, Known
  <2> HIDE DEF flag
  <2>3. /\ request' = [client |-> request.client, tools |-> None, choice |-> None,
                       stream |-> flag, extra |-> request.extra]
        /\ request.stream = FALSE
    BY <1>2, <1>4, <2>1 DEF RespondsFor, WithoutTools
  <2>4. ~ Reasoned /\ Tooled(request)
    <3>1. "reasoning" \notin request.extra /\ Tooled(request)
      BY <1>4 DEF ShouldStrip, Tooled
    <3>2. request.extra = NormalizedFields(payload.keys \ RoutingHints)
      BY <1>2, <1>4 DEF RespondsFor
    <3> QED BY <3>1, <3>2 DEF NormalizedFields, RoutingHints, Reasoned
  <2>5. RespondsFor(request')
    BY <1>2, <1>4, <2>2, <2>3, <2>4 DEF RespondsFor
  <2>6. Stage(request) < Stage(request')
    BY <2>2, <2>3, <2>4 DEF Stage, Tooled
  <2> QED BY <1>4, <2>1, <2>5, <2>6 DEF Renewed
<1>5. CASE ~ Streaming /\ ~ Stripping
  BY <1>1, <1>5 DEF CallFails, End
<1> QED BY <1>3, <1>4, <1>5

LEMMA Moves ==
    ASSUME Known, Next
    PROVE  \/ Quiet
           \/ \E i \in DOMAIN Pool : SentTo(i)
           \/ \E r \in {"ok"} \union Refusals : Gets(r)
           \/ AskedAgain
<1>1. /\ targets \subseteq Candidates /\ log \in Seq(Entries(Wires(log)))
      /\ at \in {"arrived", "parsed"} => log = <<>>
      /\ at = "sent" => log # <<>> /\ endpoint \in Candidates
  <2>1. at = "sent" => Len(log) \in DOMAIN log
    BY LenProperties, EmptySeq DEF Known, TheLog
  <2> QED BY <2>1 DEF Known, TheLog
<1>2. CASE Parse
  BY <1>1, <1>2 DEF Parse, Quiet, End
<1>3. CASE Undispatched
  BY <1>1, <1>3 DEF Undispatched, Quiet, End
<1>4. CASE Dispatch
  <2>1. CallFor(request')
    BY <1>4, DispatchedIs DEF Dispatch
  <2> QED BY <1>1, <1>4, <2>1 DEF Dispatch, Quiet, End
<1>5. CASE Attempt
  <2>1. PICK i \in targets :
          LET w == Build(request, Pool[i], NoMetadata)
          IN  /\ endpoint' = i /\ targets' = targets \ {i}
              /\ IF w = Invalid THEN at' = "failed" /\ log' = log
                 ELSE /\ at' = "sent" /\ log' = Sent(i, w, TRUE)
                      /\ meta' = Record(NoMetadata, w.original, w.choice)
    BY <1>5, Zenon DEF Attempt
  <2> DEFINE w == Build(request, Pool[i], NoMetadata)
             e == [endpoint |-> i, wire |-> w, first |-> TRUE, reply |-> None]
  <2>2. i \in Candidates /\ i \in DOMAIN Pool
    BY <1>1, CandidatesIs
  <2>3. at = "calling" /\ UNCHANGED <<payload, request>>
    BY <1>5 DEF Attempt
  <2>4. CASE w = Invalid
    <3> HIDE DEF w
    <3>1. at' = "failed" /\ log' = log /\ targets' \subseteq targets
      BY <2>1, <2>4 DEF w
    <3> QED BY <1>1, <2>3, <3>1 DEF Quiet, InCall
  <2>5. CASE w # Invalid
    <3>1. log' = Append(log, e)
      BY <2>1, <2>5 DEF Sent
    <3>2. Grown(log, log', e)
      <4> HIDE DEF w
      <4> QED BY <1>1, <2>2, <3>1, LogAppended
    <3>3. SentTo(i)
      <4> HIDE DEF e
      <4>1. /\ at' = "sent" /\ meta' = Record(NoMetadata, w.original, w.choice)
            /\ endpoint' = i /\ targets' = targets \ {i}
        BY <2>1, <2>5
      <4> HIDE DEF w
      <4> QED BY <2>2, <2>3, <2>5, <3>2, <4>1 DEF SentTo, w, e
    <3> QED BY <2>2, <3>3
  <2> QED BY <2>4, <2>5
<1>6. CASE Answered
  <2>1. ReplyTo(log, log', "ok")
    BY <1>1, <1>6, LogReplied DEF Answered, Replied
  <2>2. Gets("ok")
    BY <1>6, <2>1 DEF Answered, Gets, End
  <2> QED BY <2>2
<1>7. CASE Refused
  <2>1. PICK r \in Refusals : Replied(r) /\ at' = "failed"
    BY <1>7 DEF Refused
  <2>2. ReplyTo(log, log', r) /\ r # "ok"
    BY <1>1, <1>7, <2>1, LogReplied DEF Refused, Replied, Refusals
  <2>3. Gets(r)
    BY <1>7, <2>1, <2>2 DEF Refused, Gets
  <2> QED BY <2>3
<1>8. CASE RetryWeaker
  <2> DEFINE m == Override(meta, Weaker(meta.recorded, Pool[endpoint].kind))
             w == Build(request, Pool[endpoint], m)
             l == [log EXCEPT ![Len(log)].reply = "tool_choice"]
             e == [endpoint |-> endpoint, wire |-> w, first |-> FALSE, reply |-> None]
  <2>1. /\ at = "sent" /\ MayRetry("tool_choice") /\ log' = Append(l, e)
        /\ meta' = Record(m, w.original, w.choice)
        /\ UNCHANGED <<payload, at, request, targets, endpoint>>
    BY <1>8 DEF RetryWeaker
  <2> HIDE DEF w, m
  <2>2. ReplyTo(log, l, "tool_choice")
    BY <1>1, <2>1, LogReplied DEF Refusals
  <2> HIDE DEF l
  <2>3. l \in Seq(Entries(Wires(l)))
    BY <2>2 DEF ReplyTo
  <2>4. Grown(l, log', e)
    BY <1>1, <2>1, <2>3, LogAppended, CandidatesIs
  <2> QED BY <2>1, <2>2, <2>4 DEF AskedAgain, m, w
<1>9. CASE NextAttempt
  BY <1>1, <1>9 DEF NextAttempt, Quiet, InCall
<1>10. CASE EngineFails
  <2>1. InCall /\ payload' = payload /\ log' = log /\ at # "over"
    BY <1>10 DEF EngineFails, InCall
  <2>2. (at' = "over" \/ Renewed) /\ targets' \subseteq Candidates
    BY <1>10, <2>1, CallFailsInto DEF EngineFails
  <2> QED BY <2>1, <2>2 DEF Quiet
<1>11. CASE EngineRefuses
  <2>1. InCall /\ payload' = payload /\ log' = log /\ at # "over"
    BY <1>11 DEF EngineRefuses, InCall
  <2>2. (at' = "over" \/ Renewed) /\ targets' \subseteq Candidates
    BY <1>11, <2>1, CallFailsInto DEF EngineRefuses
  <2> QED BY <2>1, <2>2 DEF Quiet
<1> QED BY <1>2, <1>3, <1>4, <1>5, <1>6, <1>7, <1>8, <1>9, <1>10, <1>11 DEF Next

(* What depends on the payload alone stays.                                *)
LEMMA PayloadStays ==
    ASSUME payload' = payload
    PROVE  /\ IsChat' <=> IsChat
           /\ Candidates' = Candidates /\ Asked' = Asked
           /\ \A r, e, m : Build(r, e, m)' = Build(r, e, m)
           /\ \A w : Legal(w)' <=> Legal(w)
           /\ Reasoned' <=> Reasoned
           /\ \A r : RespondsFor(r)' <=> RespondsFor(r)
           /\ \A r : CallFor(r)' <=> CallFor(r)
BY DEF IsChat, Candidates, Asked, Build, Legal, Reasoned, RespondsFor, CallFor, ChatTarget, CompatibleTarget
-----------------------------------------------------------------------------
(* What is known is kept.                                                  *)
Places == {"arrived", "parsed", "calling", "sent", "failed", "over"}

LEMMA LogOfGrown ==
    ASSUME NEW l, NEW m, NEW i \in Candidates, NEW w, NEW f, NEW e,
           e = [endpoint |-> i, wire |-> w, first |-> f, reply |-> None], Grown(l, m, e),
           \A j \in DOMAIN l : l[j].endpoint \in Candidates /\ l[j].reply # "ok"
    PROVE  /\ m # <<>> /\ m[Len(m)].endpoint = i
           /\ \A j \in DOMAIN m : m[j].endpoint \in Candidates /\ m[j].reply # "ok"
<1>1. /\ Len(l) \in Nat /\ DOMAIN l = 1 .. Len(l) /\ DOMAIN m = 1 .. Len(l) + 1
      /\ Len(m) = Len(l) + 1 /\ m[Len(l) + 1] = e
      /\ \A j \in 1 .. Len(l) : m[j] = l[j]
  BY DEF Grown
<1>2. e.endpoint = i /\ e.reply = None /\ None # "ok"
  BY NoneApart
<1>3. m # <<>>
  BY <1>1, EmptySeq
<1>4. \A j \in DOMAIN m : j \in DOMAIN l \/ j = Len(l) + 1
  BY <1>1
<1> QED BY <1>1, <1>2, <1>3, <1>4

LEMMA KnownStep == Known /\ [Next]_vars => Known'
<1> SUFFICES ASSUME Known, [Next]_vars PROVE Known'
  OBVIOUS
<1>1. /\ payload \in Payloads /\ at \in Places /\ targets \subseteq Candidates
      /\ log \in Seq(Entries(Wires(log)))
      /\ at # "over" => \A i \in DOMAIN log : log[i].endpoint \in Candidates /\ log[i].reply # "ok"
      /\ \A i \in DOMAIN log : /\ log[i].endpoint \in Candidates
                               /\ i < Len(log) \/ at # "over" => log[i].reply # "ok"
      /\ InCall => CallFor(request)
  BY DEF Known, TheLog, TheRequest, Places
<1>2. CASE UNCHANGED vars
  <2>1. /\ payload' = payload /\ at' = at /\ request' = request /\ targets' = targets
        /\ endpoint' = endpoint /\ log' = log
    BY <1>2 DEF vars
  <2>2. Entries(Wires(log))' = Entries(Wires(log))
    BY <2>1 DEF Entries, Wires
  <2> QED BY <2>1, <2>2, PayloadStays DEF Known, TheRequest, TheLog, InCall
<1>3. CASE Quiet
  <2>1. /\ log' = log /\ payload' = payload /\ at # "over" /\ targets' \subseteq Candidates
        /\ at' \in Places \ {"sent", "arrived"}
        /\ at' = "parsed" => log = <<>> /\ request' = Parsed(payload) /\ request' # Invalid
    BY <1>3 DEF Quiet, Places, Renewed
  <2>2. at' \in {"calling", "failed"} => CallFor(request')
    <3>1. Renewed => CallFor(request')
      BY DEF Renewed, CallFor, IsChat, Chat
    <3> QED BY <1>1, <1>3, <3>1 DEF Quiet
  <2>3. Entries(Wires(log))' = Entries(Wires(log))
    BY <2>1 DEF Entries, Wires
  <2>4. TheRequest'
    BY <2>1, <2>2, PayloadStays DEF TheRequest, InCall, Places
  <2>5. TheLog'
    BY <1>1, <2>1, <2>3, PayloadStays DEF TheLog
  <2> QED BY <1>1, <2>1, <2>4, <2>5 DEF Known, Places
<1>4. CASE \E i \in DOMAIN Pool : SentTo(i)
  <2>1. PICK i \in DOMAIN Pool : SentTo(i)
    BY <1>4
  <2> DEFINE w == Build(request, Pool[i], NoMetadata)
             e == [endpoint |-> i, wire |-> w, first |-> TRUE, reply |-> None]
  <2>2. /\ at = "calling" /\ at' = "sent" /\ i \in Candidates /\ endpoint' = i
        /\ targets' = targets \ {i} /\ w # Invalid /\ Grown(log, log', e)
        /\ payload' = payload /\ request' = request
    BY <2>1 DEF SentTo
  <2>3. Build(request, Pool[endpoint], NoMetadata)' # Invalid
    BY <2>2, PayloadStays
  <2> HIDE DEF w, e
  <2>4. /\ log' # <<>> /\ log'[Len(log')].endpoint = i
        /\ \A j \in DOMAIN log' : log'[j].endpoint \in Candidates /\ log'[j].reply # "ok"
    <3> USE DEF e
    <3> QED BY <1>1, <2>2, LogOfGrown
  <2>5. log' \in Seq(Entries(Wires(log)'))
    BY <2>2 DEF Grown, Wires
  <2>6. Entries(Wires(log)') = Entries(Wires(log))'
    BY DEF Entries
  <2>7. TheLog'
    BY <1>1, <2>2, <2>3, <2>4, <2>5, <2>6, PayloadStays DEF TheLog
  <2>8. TheRequest'
    BY <1>1, <2>2, PayloadStays DEF TheRequest, InCall
  <2> QED BY <1>1, <2>2, <2>7, <2>8 DEF Known, Places
<1>5. CASE \E r \in {"ok"} \union Refusals : Gets(r)
  <2>1. PICK r \in {"ok"} \union Refusals : Gets(r)
    BY <1>5
  <2>2. /\ at = "sent" /\ at' = (IF r = "ok" THEN "over" ELSE "failed") /\ ReplyTo(log, log', r)
        /\ payload' = payload /\ request' = request /\ targets' = targets
    BY <2>1 DEF Gets
  <2>3. log' \in Seq(Entries(Wires(log)))'
    BY <2>2 DEF ReplyTo, Entries, Wires
  <2>4. ASSUME NEW j \in DOMAIN log'
        PROVE  /\ log'[j].endpoint \in Candidates
               /\ j < Len(log') \/ at' # "over" => log'[j].reply # "ok"
    <3>1. /\ DOMAIN log = 1 .. Len(log) /\ DOMAIN log' = 1 .. Len(log) /\ Len(log') = Len(log)
          /\ Len(log) \in Nat /\ log'[Len(log)].reply = r
          /\ \A k \in 1 .. Len(log) : /\ k # Len(log) => log'[k] = log[k]
                                      /\ log'[k].endpoint = log[k].endpoint
      BY <2>2 DEF ReplyTo
    <3>2. log'[j].endpoint \in Candidates
      BY <1>1, <3>1
    <3>3. j # Len(log) => log'[j].reply # "ok"
      BY <1>1, <2>2, <3>1
    <3>4. j = Len(log) /\ at' # "over" => log'[j].reply # "ok"
      BY <2>2, <3>1
    <3>5. Len(log') = Len(log) /\ Len(log) \in Nat /\ j \in 1 .. Len(log)
      BY <3>1
    <3>6. j < Len(log') => j # Len(log)
      BY <3>5
    <3> QED BY <3>2, <3>3, <3>4, <3>6
  <2>5. TheLog'
    BY <1>1, <2>2, <2>3, <2>4, PayloadStays DEF TheLog
  <2>6. TheRequest'
    BY <1>1, <2>2, PayloadStays DEF TheRequest, InCall
  <2> QED BY <1>1, <2>2, <2>5, <2>6 DEF Known, Places
<1>6. CASE AskedAgain
  <2> DEFINE m == Override(meta, Weaker(meta.recorded, Pool[endpoint].kind))
             w == Build(request, Pool[endpoint], m)
             e == [endpoint |-> endpoint, wire |-> w, first |-> FALSE, reply |-> None]
  <2>1. /\ at = "sent" /\ at' = at /\ payload' = payload /\ request' = request
        /\ targets' = targets /\ endpoint' = endpoint
        /\ \E l : ReplyTo(log, l, "tool_choice") /\ Grown(l, log', e)
    BY <1>6 DEF AskedAgain
  <2> HIDE DEF w, e
  <2>2. PICK l : ReplyTo(log, l, "tool_choice") /\ Grown(l, log', e)
    BY <2>1
  <2>3. \A j \in DOMAIN l : l[j].endpoint \in Candidates /\ l[j].reply # "ok"
    BY <1>1, <2>1, <2>2 DEF ReplyTo
  <2>4. endpoint \in Candidates /\ Build(request, Pool[endpoint], NoMetadata) # Invalid
    <3>1. Len(log) \in Nat \ {0} /\ DOMAIN log = 1 .. Len(log)
      BY <2>2 DEF ReplyTo
    <3>2. Len(log) \in DOMAIN log
      BY <3>1
    <3> QED BY <2>1, <3>2 DEF Known, TheLog
  <2>5. /\ log' # <<>> /\ log'[Len(log')].endpoint = endpoint
        /\ \A j \in DOMAIN log' : log'[j].endpoint \in Candidates /\ log'[j].reply # "ok"
    <3> USE DEF e
    <3> QED BY <2>2, <2>3, <2>4, LogOfGrown
  <2>6. log' \in Seq(Entries(Wires(log)))'
    BY <2>2 DEF Grown, Entries, Wires
  <2>7. Build(request, Pool[endpoint], NoMetadata)' # Invalid
    BY <2>1, <2>4, PayloadStays
  <2>8. TheLog'
    BY <1>1, <2>1, <2>5, <2>6, <2>7, PayloadStays DEF TheLog
  <2>9. TheRequest'
    BY <1>1, <2>1, PayloadStays DEF TheRequest, InCall
  <2> QED BY <1>1, <2>1, <2>8, <2>9 DEF Known, Places
<1> QED BY <1>2, <1>3, <1>4, <1>5, <1>6, Moves
-----------------------------------------------------------------------------
(* Every request that is sent is legal.                                    *)
LEMMA SentLegal ==
    ASSUME Known, InCall, payload.protocol # "openai_embeddings", NEW i \in DOMAIN Pool,
           Build(request, Pool[i], NoMetadata) # Invalid
    PROVE  Legal(Build(request, Pool[i], NoMetadata))
<1>1. payload \in Payloads /\ CallFor(request)
  BY DEF Known, TheRequest
<1>2. CASE IsChat
  BY <1>1, <1>2, BuiltChat DEF CallFor
<1>3. CASE ~ IsChat
  <2>1. payload.protocol = "openai_responses"
    BY <1>1, <1>3, PayloadIs DEF IsChat
  <2> QED BY <1>1, <1>3, <2>1, BuiltResponses DEF CallFor
<1> QED BY <1>2, <1>3

(* What every wire satisfies is kept when the new one does.                *)
LEMMA WiresGrown ==
    ASSUME NEW l, NEW m, NEW e, Grown(l, m, e)
    PROVE  \A j \in DOMAIN m : (j \in DOMAIN l /\ m[j] = l[j]) \/ (j = Len(l) + 1 /\ m[j] = e)
<1>1. /\ Len(l) \in Nat /\ DOMAIN l = 1 .. Len(l) /\ DOMAIN m = 1 .. Len(l) + 1
      /\ m[Len(l) + 1] = e /\ \A j \in 1 .. Len(l) : m[j] = l[j]
  BY DEF Grown
<1>2. \A j \in 1 .. Len(l) + 1 : j \in 1 .. Len(l) \/ j = Len(l) + 1
  BY <1>1
<1> QED BY <1>1, <1>2

LEMMA LegalStep == Known /\ AllLegal /\ [Next]_vars => AllLegal'
<1> SUFFICES ASSUME Known, AllLegal, [Next]_vars PROVE AllLegal'
  OBVIOUS
<1>0. payload' = payload
  BY Moves DEF vars, Quiet, SentTo, Gets, AskedAgain
<1> SUFFICES ASSUME payload.protocol # "openai_embeddings", NEW j \in DOMAIN log'
             PROVE  Legal(log'[j].wire)
  BY <1>0 DEF AllLegal, Legal, IsChat
<1>1. CASE log' = log
  BY <1>1 DEF AllLegal
<1>2. CASE \E i \in DOMAIN Pool : SentTo(i)
  <2>1. PICK i \in DOMAIN Pool : SentTo(i)
    BY <1>2
  <2> DEFINE w == Build(request, Pool[i], NoMetadata)
             e == [endpoint |-> i, wire |-> w, first |-> TRUE, reply |-> None]
  <2>2. /\ InCall /\ w # Invalid /\ Grown(log, log', e) /\ payload' = payload /\ e.wire = w
    BY <2>1 DEF SentTo, InCall
  <2>3. Legal(w)
    BY <2>2, SentLegal
  <2> HIDE DEF w, e
  <2>4. (j \in DOMAIN log /\ log'[j] = log[j]) \/ log'[j] = e
    BY <2>2, WiresGrown
  <2> QED BY <2>2, <2>3, <2>4 DEF AllLegal
<1>3. CASE \E r \in {"ok"} \union Refusals : Gets(r)
  <2>1. payload' = payload /\ j \in DOMAIN log /\ log'[j].wire = log[j].wire
    BY <1>3 DEF Gets, ReplyTo
  <2> QED BY <2>1 DEF AllLegal
<1>4. CASE AskedAgain
  <2> DEFINE m == Override(meta, Weaker(meta.recorded, Pool[endpoint].kind))
             w == Build(request, Pool[endpoint], m)
             e == [endpoint |-> endpoint, wire |-> w, first |-> FALSE, reply |-> None]
  <2>1. /\ at = "sent" /\ payload' = payload /\ IsChat /\ e.wire = w
        /\ \E l : ReplyTo(log, l, "tool_choice") /\ Grown(l, log', e)
    BY <1>4 DEF AskedAgain, MayRetry
  <2>2. PICK l : ReplyTo(log, l, "tool_choice") /\ Grown(l, log', e)
    BY <2>1
  <2>3. /\ request = Asked /\ Parsed(payload) # Invalid /\ payload \in Payloads
        /\ Build(request, Pool[endpoint], NoMetadata) # Invalid
        /\ log # <<>> /\ log[Len(log)].endpoint = endpoint
        /\ \A k \in DOMAIN log : log[k].endpoint \in Candidates
    BY <2>1 DEF Known, TheRequest, TheLog, InCall, CallFor
  <2>4. Len(log) \in Nat \ {0} /\ DOMAIN log = 1 .. Len(log)
    BY <2>2 DEF ReplyTo
  <2>5. endpoint \in DOMAIN Pool
    BY <2>3, <2>4, CandidatesIs
  <2>6. Legal(w)
    BY <2>1, <2>3, <2>5, BuiltChat
  <2> HIDE DEF w, e
  <2>7. (j \in DOMAIN l /\ log'[j] = l[j]) \/ log'[j] = e
    BY <2>2, WiresGrown
  <2>8. j \in DOMAIN l => j \in DOMAIN log /\ l[j].wire = log[j].wire
    BY <2>2 DEF ReplyTo
  <2> QED BY <2>1, <2>6, <2>7, <2>8 DEF AllLegal
<1>5. [Next]_vars => log' = log \/ Next
  BY DEF vars
<1>6. Quiet => log' = log
  BY DEF Quiet
<1> QED BY <1>1, <1>2, <1>3, <1>4, <1>5, <1>6, Moves
-----------------------------------------------------------------------------
(* The tool choices.                                                       *)
LEMMA Before ==
    ASSUME NEW n \in Nat, NEW j \in 1 .. n, j > 1
    PROVE  j - 1 \in 1 .. n /\ j - 1 # n
OBVIOUS

LEMMA UpTo == \A n \in Nat : \A j \in 1 .. n + 1 : j \in 1 .. n \/ j = n + 1
OBVIOUS

LEMMA RecordIs ==
    ASSUME NEW original, NEW normalized
    PROVE  LET q == Record(NoMetadata, original, normalized)
           IN  /\ q = [recorded |-> q.recorded, forced |-> None]
               /\ q.recorded = None \/ q.recorded = normalized
BY DEF Record, NoMetadata

LEMMA OverriddenIs ==
    ASSUME NEW q, q = [recorded |-> q.recorded, forced |-> None], NEW next, NEW original, NEW normalized
    PROVE  /\ Override(q, next).forced = next
           /\ Record(Override(q, next), original, normalized).forced = next
<1>1. Override(q, next) = [recorded |-> q.recorded, forced |-> next]
  BY DEF Override
<1> QED BY <1>1 DEF Record

LEMMA FirstsStep ==
    ASSUME Known, IsChat, Firsts, NEW i \in DOMAIN Pool, SentTo(i)
    PROVE  /\ Firsts'
           /\ Strength(Build(request, Pool[i], NoMetadata).choice) \in 0 .. Strength(payload.choice)
<1> DEFINE w == Build(request, Pool[i], NoMetadata)
           e == [endpoint |-> i, wire |-> w, first |-> TRUE, reply |-> None]
<1>1. /\ InCall /\ w # Invalid /\ Grown(log, log', e) /\ payload' = payload
      /\ e.wire = w /\ e.endpoint = i
  BY DEF SentTo, InCall
<1>2. request = Asked /\ Parsed(payload) # Invalid /\ payload \in Payloads
  BY <1>1 DEF Known, TheRequest, CallFor
<1>3. Strength(w.choice) \in 0 .. Strength(payload.choice)
  BY <1>1, <1>2, BuiltChat
<1>4. w = Build(Asked, Pool[i], NoMetadata)
  BY <1>2
<1> HIDE DEF w, e
<1>5. ASSUME NEW j \in DOMAIN log', log'[j].first
      PROVE  /\ log'[j].wire = Build(Asked, Pool[log'[j].endpoint], NoMetadata)
             /\ log'[j].wire # Invalid
  <2>1. (j \in DOMAIN log /\ log'[j] = log[j]) \/ log'[j] = e
    BY <1>1, WiresGrown
  <2> QED BY <1>1, <1>4, <1>5, <2>1 DEF Firsts
<1>6. Firsts'
  BY <1>1, <1>5 DEF Firsts, Build, IsChat, Asked
<1> QED BY <1>3, <1>6 DEF w

LEMMA ChoosySent ==
    ASSUME Known, IsChat, Choosy, NEW i \in DOMAIN Pool, SentTo(i)
    PROVE  Firsts' /\ Seconds' /\ Bounded' /\ MetaOfLast'
<1> DEFINE w == Build(request, Pool[i], NoMetadata)
           e == [endpoint |-> i, wire |-> w, first |-> TRUE, reply |-> None]
<1>1. /\ Grown(log, log', e) /\ payload' = payload /\ e.wire = w /\ e.first
      /\ meta' = Record(NoMetadata, w.original, w.choice)
  BY DEF SentTo
<1>2. Firsts' /\ Strength(w.choice) \in 0 .. Strength(payload.choice)
  BY FirstsStep DEF Choosy
<1> HIDE DEF w, e
<1>3. \A j \in DOMAIN log' : (j \in DOMAIN log /\ log'[j] = log[j]) \/ log'[j] = e
  BY <1>1, WiresGrown
<1>4. /\ Len(log) \in Nat /\ DOMAIN log = 1 .. Len(log) /\ Len(log') = Len(log) + 1
      /\ log'[Len(log) + 1] = e /\ \A j \in 1 .. Len(log) : log'[j] = log[j]
  BY <1>1 DEF Grown
<1>5. Seconds'
  <2> SUFFICES ASSUME NEW j \in DOMAIN log', ~ log'[j].first
               PROVE  /\ j > 1 /\ log'[j - 1].first /\ log'[j - 1].endpoint = log'[j].endpoint
                      /\ log'[j - 1].reply = "tool_choice"
                      /\ Strength(log'[j].wire.choice) < Strength(log'[j - 1].wire.choice)
    BY DEF Seconds
  <2>1. j \in DOMAIN log /\ log'[j] = log[j]
    BY <1>1, <1>3
  <2>2. /\ j > 1 /\ log[j - 1].first /\ log[j - 1].endpoint = log[j].endpoint
        /\ log[j - 1].reply = "tool_choice"
        /\ Strength(log[j].wire.choice) < Strength(log[j - 1].wire.choice)
    BY <2>1 DEF Choosy, Seconds
  <2>3. j - 1 \in 1 .. Len(log)
    BY <1>4, <2>1, <2>2
  <2> QED BY <1>4, <2>1, <2>2, <2>3
<1>6. Bounded'
  <2>1. \A j \in DOMAIN log' : Strength(log'[j].wire.choice) \in 0 .. Strength(payload.choice)
    BY <1>1, <1>2, <1>3 DEF Choosy, Bounded
  <2> QED BY <1>1, <2>1 DEF Bounded
<1>7. MetaOfLast'
  BY <1>1, <1>4 DEF MetaOfLast
<1> QED BY <1>2, <1>5, <1>6, <1>7

LEMMA ChoosyAnswered ==
    ASSUME Known, IsChat, Choosy, NEW r \in {"ok"} \union Refusals, Gets(r)
    PROVE  Firsts' /\ Seconds' /\ Bounded' /\ MetaOfLast'
<1>1. ReplyTo(log, log', r) /\ payload' = payload /\ at' # "sent"
  BY DEF Gets
<1>2. /\ Len(log) \in Nat /\ DOMAIN log = 1 .. Len(log) /\ DOMAIN log' = 1 .. Len(log)
      /\ \A j \in 1 .. Len(log) : /\ j # Len(log) => log'[j] = log[j]
                                  /\ log'[j].endpoint = log[j].endpoint /\ log'[j].wire = log[j].wire
                                  /\ log'[j].first = log[j].first
  BY <1>1 DEF ReplyTo
<1>3. Firsts'
  <2>1. \A j \in DOMAIN log' :
          log'[j].first => /\ log'[j].wire = Build(Asked, Pool[log'[j].endpoint], NoMetadata)
                           /\ log'[j].wire # Invalid
    BY <1>2 DEF Choosy, Firsts
  <2> QED BY <1>1, <2>1 DEF Firsts, Build, IsChat, Asked
<1>4. Seconds'
  <2> SUFFICES ASSUME NEW j \in 1 .. Len(log), ~ log'[j].first
               PROVE  /\ j > 1 /\ log'[j - 1].first /\ log'[j - 1].endpoint = log'[j].endpoint
                      /\ log'[j - 1].reply = "tool_choice"
                      /\ Strength(log'[j].wire.choice) < Strength(log'[j - 1].wire.choice)
    BY <1>2 DEF Seconds
  <2>1. /\ j > 1 /\ log[j - 1].first /\ log[j - 1].endpoint = log[j].endpoint
        /\ log[j - 1].reply = "tool_choice"
        /\ Strength(log[j].wire.choice) < Strength(log[j - 1].wire.choice)
    BY <1>2 DEF Choosy, Seconds
  <2>2. j - 1 \in 1 .. Len(log) /\ j - 1 # Len(log)
    <3>1. Len(log) \in Nat /\ j > 1
      BY <1>2, <2>1
    <3> QED BY <3>1, Before
  <2> QED BY <1>2, <2>1, <2>2
<1>5. Bounded'
  BY <1>1, <1>2 DEF Choosy, Bounded
<1>6. MetaOfLast'
  BY <1>1 DEF MetaOfLast
<1> QED BY <1>3, <1>4, <1>5, <1>6

LEMMA ChoosyAgain ==
    ASSUME Known, IsChat, Choosy, AskedAgain
    PROVE  Firsts' /\ Seconds' /\ Bounded' /\ MetaOfLast'
<1> DEFINE weaker == Weaker(meta.recorded, Pool[endpoint].kind)
           m == Override(meta, weaker)
           w == Build(request, Pool[endpoint], m)
           e == [endpoint |-> endpoint, wire |-> w, first |-> FALSE, reply |-> None]
<1>1. /\ at = "sent" /\ payload' = payload /\ meta.forced = None /\ weaker # None
      /\ meta' = Record(m, w.original, w.choice)
      /\ e.wire = w /\ ~ e.first /\ e.endpoint = endpoint
      /\ \E l : ReplyTo(log, l, "tool_choice") /\ Grown(l, log', e)
  BY DEF AskedAgain, MayRetry
<1>2. PICK l : ReplyTo(log, l, "tool_choice") /\ Grown(l, log', e)
  BY <1>1
<1> DEFINE n == Len(log)
<1>3. /\ n \in Nat \ {0} /\ DOMAIN log = 1 .. n /\ Len(l) = n /\ DOMAIN l = 1 .. n
      /\ \A j \in 1 .. n : /\ j # n => l[j] = log[j]
                           /\ l[j].endpoint = log[j].endpoint /\ l[j].wire = log[j].wire
                           /\ l[j].first = log[j].first
      /\ l[n].reply = "tool_choice"
  BY <1>2 DEF ReplyTo
<1>4. /\ DOMAIN log' = 1 .. n + 1 /\ Len(log') = n + 1 /\ log'[n + 1] = e
      /\ \A j \in 1 .. n : log'[j] = l[j]
  BY <1>2, <1>3 DEF Grown
<1>5. n \in DOMAIN log
  <2>1. n \in Nat \ {0} /\ DOMAIN log = 1 .. n
    BY <1>3
  <2> HIDE DEF n
  <2> QED BY <2>1
<1>6. /\ request = Asked /\ Parsed(payload) # Invalid /\ payload \in Payloads
      /\ Build(request, Pool[endpoint], NoMetadata) # Invalid
      /\ log[n].endpoint = endpoint /\ endpoint \in DOMAIN Pool
  BY <1>1, <1>5, CandidatesIs DEF Known, TheRequest, TheLog, InCall, CallFor
(* It is the first attempt of the endpoint that was refused.               *)
<1>7. /\ log[n].first /\ meta = Record(NoMetadata, log[n].wire.original, log[n].wire.choice)
      /\ log[n].wire = Build(Asked, Pool[endpoint], NoMetadata)
  BY <1>1, <1>5, <1>6 DEF Choosy, Firsts, MetaOfLast
<1>8. log[n].wire.choice \in ToolChoices \union {None}
  BY <1>6, <1>7, BuiltChat
<1>9. /\ meta = [recorded |-> meta.recorded, forced |-> None]
      /\ meta.recorded = None \/ meta.recorded = log[n].wire.choice
  BY <1>7, RecordIs
<1>10. meta.recorded = log[n].wire.choice
  BY <1>1, <1>9 DEF Weaker
<1>11. Strength(weaker) \in 0 .. Strength(log[n].wire.choice) - 1
  BY <1>1, <1>8, <1>10, WeakerIs
<1>12. m.forced = weaker /\ meta'.forced = weaker
  BY <1>1, <1>9, OverriddenIs
<1>13. w.choice = weaker
  BY <1>1, <1>6, <1>12, BuiltChat
<1> HIDE DEF weaker, m, w, e
<1>14. n \in Nat /\ \A j \in 1 .. n + 1 : j \in 1 .. n \/ j = n + 1
  <2>1. n \in Nat
    BY <1>3
  <2> HIDE DEF n
  <2> QED BY <2>1, UpTo
<1>15. Firsts'
  <2>1. ASSUME NEW j \in 1 .. n + 1, log'[j].first
        PROVE  /\ log'[j].wire = Build(Asked, Pool[log'[j].endpoint], NoMetadata)
               /\ log'[j].wire # Invalid
    <3>1. j \in 1 .. n
      BY <1>1, <1>4, <1>14, <2>1
    <3>2. /\ j \in DOMAIN log /\ log[j].first
          /\ log'[j].wire = log[j].wire /\ log'[j].endpoint = log[j].endpoint
      BY <1>3, <1>4, <2>1, <3>1
    <3> QED BY <3>2 DEF Choosy, Firsts
  <2> QED BY <1>1, <1>4, <2>1 DEF Firsts, Build, IsChat, Asked
<1>16. Seconds'
  <2> SUFFICES ASSUME NEW j \in 1 .. n + 1, ~ log'[j].first
               PROVE  /\ j > 1 /\ log'[j - 1].first /\ log'[j - 1].endpoint = log'[j].endpoint
                      /\ log'[j - 1].reply = "tool_choice"
                      /\ Strength(log'[j].wire.choice) < Strength(log'[j - 1].wire.choice)
    BY <1>4 DEF Seconds
  <2>1. CASE j = n + 1
    <3>1. n \in Nat \ {0}
      BY <1>3
    <3> HIDE DEF n
    <3>2. n \in 1 .. n /\ j - 1 = n /\ j > 1
      BY <2>1, <3>1
    <3> USE DEF n
    <3>3. /\ log'[n].first /\ log'[n].endpoint = endpoint /\ log'[n].reply = "tool_choice"
          /\ log'[n].wire = log[n].wire
      BY <1>3, <1>4, <1>6, <1>7, <3>2
    <3>4. log'[j].endpoint = endpoint /\ log'[j].wire.choice = weaker
      BY <1>1, <1>4, <1>13, <2>1
    <3>5. Strength(log[n].wire.choice) \in 0 .. 3
      BY <1>8, StrengthIs
    <3>6. Strength(weaker) < Strength(log[n].wire.choice)
      BY <1>11, <3>5
    <3> QED BY <3>2, <3>3, <3>4, <3>6
  <2>2. CASE j # n + 1
    <3>1. j \in 1 .. n /\ log'[j] = l[j] /\ ~ log[j].first
      BY <1>3, <1>4, <1>14, <2>2
    <3>2. /\ j > 1 /\ log[j - 1].first /\ log[j - 1].endpoint = log[j].endpoint
          /\ log[j - 1].reply = "tool_choice"
          /\ Strength(log[j].wire.choice) < Strength(log[j - 1].wire.choice)
      BY <1>3, <3>1 DEF Choosy, Seconds
    <3>3. j - 1 \in 1 .. n /\ j - 1 # n
      BY <1>14, <3>1, <3>2, Before
    <3>4. log'[j - 1] = log[j - 1]
      BY <1>3, <1>4, <3>3
    <3>5. log'[j].endpoint = log[j].endpoint /\ log'[j].wire = log[j].wire
      BY <1>3, <3>1
    <3> QED BY <3>2, <3>4, <3>5
  <2> QED BY <2>1, <2>2
<1>17. Bounded'
  <2>1. Strength(log[n].wire.choice) \in 0 .. Strength(payload.choice)
    BY <1>5 DEF Choosy, Bounded
  <2>2. Strength(weaker) \in 0 .. Strength(payload.choice)
    <3>1. Strength(payload.choice) \in 0 .. 3
      BY <1>6, PayloadIs, StrengthIs
    <3> QED BY <1>11, <2>1, <3>1
  <2>3. \A j \in 1 .. n + 1 : Strength(log'[j].wire.choice) \in 0 .. Strength(payload.choice)
    <3>1. \A j \in 1 .. n : /\ log'[j].wire = log[j].wire
                            /\ Strength(log[j].wire.choice) \in 0 .. Strength(payload.choice)
      BY <1>3, <1>4 DEF Choosy, Bounded
    <3>2. log'[n + 1].wire.choice = weaker
      BY <1>1, <1>4, <1>13
    <3> QED BY <1>14, <2>2, <3>1, <3>2
  <2> QED BY <1>1, <1>4, <2>3 DEF Bounded
<1>18. MetaOfLast'
  BY <1>1, <1>4, <1>12 DEF MetaOfLast
<1> QED BY <1>15, <1>16, <1>17, <1>18

LEMMA ChoosyStep == Known /\ Choosy /\ [Next]_vars => Choosy'
<1> SUFFICES ASSUME Known, Choosy, [Next]_vars PROVE Choosy'
  OBVIOUS
<1>1. payload' = payload
  BY Moves DEF vars, Quiet, SentTo, Gets, AskedAgain
<1> SUFFICES ASSUME IsChat PROVE Firsts' /\ Seconds' /\ Bounded' /\ MetaOfLast'
  BY <1>1 DEF Choosy, IsChat
<1>2. CASE log' = log /\ (at' # "sent" \/ (at' = at /\ meta' = meta))
  <2>1. Firsts /\ Seconds /\ Bounded /\ MetaOfLast
    BY DEF Choosy
  <2>2. Firsts'
    <3>1. \A j \in DOMAIN log' :
            log'[j].first => /\ log'[j].wire = Build(Asked, Pool[log'[j].endpoint], NoMetadata)
                             /\ log'[j].wire # Invalid
      BY <1>2, <2>1 DEF Firsts
    <3> QED BY <1>1, <3>1 DEF Firsts, Build, IsChat, Asked
  <2>3. Seconds'
    BY <1>2, <2>1 DEF Seconds
  <2>4. Bounded'
    BY <1>1, <1>2, <2>1 DEF Bounded
  <2>5. MetaOfLast'
    BY <1>2, <2>1 DEF MetaOfLast
  <2> QED BY <2>2, <2>3, <2>4, <2>5
<1>3. UNCHANGED vars \/ Quiet => log' = log /\ (at' # "sent" \/ (at' = at /\ meta' = meta))
  BY DEF vars, Quiet, Renewed
<1> QED BY <1>2, <1>3, Moves, ChoosySent, ChoosyAnswered, ChoosyAgain
-----------------------------------------------------------------------------
(* The stages of a Responses request.                                      *)
LEMMA StageOfSent ==
    ASSUME Known, payload.protocol = "openai_responses", NEW i \in DOMAIN Pool, SentTo(i)
    PROVE  LET w == Build(request, Pool[i], NoMetadata)
           IN  /\ Stage(w) = Stage(request) /\ Stage(request) \in 0 .. 3
               /\ Reasoned => (Tooled(w) <=> Tooled(payload))
<1>1. payload \in Payloads /\ RespondsFor(request)
  BY DEF Known, TheRequest, SentTo, InCall, CallFor, IsChat, Chat
<1>2. Reasoned => request.tools = payload.tools /\ request.choice = payload.choice
  BY <1>1 DEF RespondsFor
<1>3. Reasoned => (Tooled(request) <=> Tooled(payload))
  BY <1>2 DEF Tooled
<1> QED BY <1>1, <1>3, BuiltResponses, StageIs

LEMMA StagedSent ==
    ASSUME Known, Staged, payload.protocol = "openai_responses", NEW i \in DOMAIN Pool, SentTo(i)
    PROVE  /\ InStages(log', Stage(request'), targets') /\ Climbing(log') /\ ToolsKept'
<1> DEFINE w == Build(request, Pool[i], NoMetadata)
           e == [endpoint |-> i, wire |-> w, first |-> TRUE, reply |-> None]
           s == Stage(request)
<1>1. /\ Grown(log, log', e) /\ payload' = payload /\ request' = request /\ e.wire = w /\ e.endpoint = i
      /\ InCall /\ targets' = targets \ {i} /\ i \in targets
  BY DEF SentTo, InCall
<1>2. Stage(w) = s /\ s \in 0 .. 3 /\ (Reasoned => (Tooled(w) <=> Tooled(payload)))
  BY StageOfSent
<1>3. /\ InStages(log, s, targets) /\ Climbing(log) /\ ToolsKept
  BY <1>1 DEF Staged
<1>4. /\ Len(log) \in Nat /\ DOMAIN log = 1 .. Len(log) /\ DOMAIN log' = 1 .. Len(log) + 1
      /\ log'[Len(log) + 1] = e /\ \A j \in 1 .. Len(log) : log'[j] = log[j]
  BY <1>1 DEF Grown
<1>5. \A j \in DOMAIN log' : (j \in DOMAIN log /\ log'[j] = log[j]) \/ (j = Len(log) + 1 /\ log'[j] = e)
  BY <1>1, WiresGrown
<1> HIDE DEF w, e, s
<1>6. InStages(log', s, targets')
  <2> SUFFICES ASSUME NEW j \in DOMAIN log'
               PROVE  Stage(log'[j].wire) <= s /\ (Stage(log'[j].wire) = s => log'[j].endpoint \notin targets')
    BY DEF InStages
  <2>1. CASE j \in DOMAIN log /\ log'[j] = log[j]
    BY <1>1, <1>3, <2>1 DEF InStages
  <2>2. CASE log'[j] = e
    BY <1>1, <1>2, <2>2
  <2> QED BY <1>5, <2>1, <2>2
<1>7. Climbing(log')
  <2> SUFFICES ASSUME NEW j \in DOMAIN log', NEW k \in DOMAIN log', j < k
               PROVE  /\ Stage(log'[j].wire) <= Stage(log'[k].wire)
                      /\ log'[j].endpoint = log'[k].endpoint => Stage(log'[j].wire) # Stage(log'[k].wire)
    BY DEF Climbing
  <2>1. j \in DOMAIN log /\ log'[j] = log[j]
    <3>1. Len(log) \in Nat /\ j \in 1 .. Len(log) + 1 /\ k \in 1 .. Len(log) + 1
      BY <1>4
    <3>2. j # Len(log) + 1
      BY <3>1
    <3> QED BY <1>5, <3>2
  <2>2. CASE k \in DOMAIN log /\ log'[k] = log[k]
    BY <1>3, <2>1, <2>2 DEF Climbing
  <2>3. CASE log'[k] = e
    BY <1>1, <1>2, <1>3, <2>1, <2>3 DEF InStages
  <2> QED BY <1>5, <2>2, <2>3
<1>8. ToolsKept'
  <2>1. Reasoned => \A j \in DOMAIN log' : Tooled(log'[j].wire) <=> Tooled(payload)
    BY <1>1, <1>2, <1>3, <1>5 DEF ToolsKept
  <2> QED BY <1>1, <2>1 DEF ToolsKept, Reasoned
<1> QED BY <1>1, <1>6, <1>7, <1>8 DEF s

LEMMA StagedAnswered ==
    ASSUME Known, Staged, payload.protocol = "openai_responses", NEW r \in {"ok"} \union Refusals, Gets(r)
    PROVE  /\ InStages(log', Stage(request'), targets') /\ Climbing(log') /\ ToolsKept'
<1>1. /\ ReplyTo(log, log', r) /\ payload' = payload /\ request' = request /\ targets' = targets /\ InCall
  BY DEF Gets, InCall
<1>2. /\ DOMAIN log' = DOMAIN log
      /\ \A j \in DOMAIN log : log'[j].endpoint = log[j].endpoint /\ log'[j].wire = log[j].wire
  BY <1>1 DEF ReplyTo
<1>3. /\ InStages(log, Stage(request), targets) /\ Climbing(log) /\ ToolsKept
  BY <1>1 DEF Staged
<1>4. InStages(log', Stage(request), targets)
  BY <1>2, <1>3 DEF InStages
<1>5. Climbing(log')
  BY <1>2, <1>3 DEF Climbing
<1>6. ToolsKept'
  BY <1>1, <1>2, <1>3 DEF ToolsKept, Reasoned
<1> QED BY <1>1, <1>4, <1>5, <1>6

LEMMA StagedStep == Known /\ Staged /\ [Next]_vars => Staged'
<1> SUFFICES ASSUME Known, Staged, [Next]_vars PROVE Staged'
  OBVIOUS
<1>1. payload' = payload
  BY Moves DEF vars, Quiet, SentTo, Gets, AskedAgain
<1> SUFFICES ASSUME payload.protocol = "openai_responses"
             PROVE  /\ InCall' => InStages(log', Stage(request'), targets')
                    /\ Climbing(log') /\ ToolsKept'
  BY <1>1 DEF Staged, InStages, Climbing, Stage, Tooled
<1>2. Climbing(log) /\ ToolsKept /\ (InCall => InStages(log, Stage(request), targets))
  BY DEF Staged
<1>3. CASE UNCHANGED vars
  BY <1>2, <1>3 DEF vars, InCall, ToolsKept, Reasoned
<1>4. CASE Quiet
  <2>1. log' = log /\ ToolsKept'
    BY <1>1, <1>2, <1>4 DEF Quiet, ToolsKept, Reasoned
  <2>2. CASE at' = "over" \/ at' = "parsed"
    BY <1>2, <2>1, <2>2 DEF InCall
  <2>3. CASE log = <<>>
    BY <1>2, <2>1, <2>3 DEF InStages
  <2>4. CASE InCall /\ request' = request /\ targets' \subseteq targets
    BY <1>2, <2>1, <2>4 DEF InStages
  <2>5. CASE Renewed
    <3>1. InCall /\ Stage(request) < Stage(request')
      BY <2>5 DEF Renewed
    <3>2. /\ Stage(request) \in 0 .. 3 /\ Stage(request') \in 0 .. 3
          /\ \A j \in DOMAIN log : Stage(log[j].wire) \in 0 .. 3
      BY StageIs
    <3>3. \A j \in DOMAIN log : Stage(log[j].wire) <= Stage(request') /\ Stage(log[j].wire) # Stage(request')
      BY <1>2, <3>1, <3>2 DEF InStages
    <3> QED BY <1>2, <2>1, <3>3 DEF InStages
  <2> QED BY <1>4, <2>2, <2>3, <2>4, <2>5 DEF Quiet
<1>5. ~ AskedAgain
  BY DEF AskedAgain, MayRetry, IsChat, Chat
<1> QED BY <1>3, <1>4, <1>5, Moves, StagedSent, StagedAnswered
-----------------------------------------------------------------------------
LEMMA RInit == Init => RInv
<1> SUFFICES ASSUME Init PROVE RInv
  OBVIOUS
<1>1. log = <<>> /\ DOMAIN log = {} /\ at = "arrived" /\ payload \in Payloads /\ targets = {}
  BY DEF Init
<1>2. log \in Seq(Entries(Wires(log)))
  BY <1>1
<1>3. Known
  BY <1>1, <1>2 DEF Known, TheRequest, TheLog, InCall
<1>4. AllLegal /\ Choosy /\ Staged
  BY <1>1 DEF AllLegal, Choosy, Firsts, Seconds, Bounded, MetaOfLast, Staged, InCall, Climbing, ToolsKept
<1> QED BY <1>3, <1>4 DEF RInv

(* The invariant holds, for all payloads and every pool.                   *)
THEOREM RequestsInvariant == Spec => []RInv
<1>1. RInv /\ [Next]_vars => RInv'
  BY KnownStep, LegalStep, ChoosyStep, StagedStep DEF RInv
<1> QED BY RInit, <1>1, PTL DEF Spec

(* Whatever fields a client or an embedder adds, no request leaves the     *)
(* gateway with fields the upstream refuses or is not to see.              *)
THEOREM FieldsStayLegal == Spec => []FieldsLegal
<1>1. RInv => FieldsLegal
  BY DEF RInv, AllLegal, Legal, FieldsLegal
<1> QED BY <1>1, RequestsInvariant, PTL

(* An endpoint is asked at most once more, with a weaker tool choice, and  *)
(* never for more than the client asked for; the first attempts do not     *)
(* depend on what was refused before them.                                 *)
THEOREM RetriesWeaken == Spec => []OneWeakerRetry
<1>1. RInv => OneWeakerRetry
  <2> SUFFICES ASSUME RInv, IsChat PROVE OneWeakerRetry
    BY DEF OneWeakerRetry
  <2>1. /\ Known /\ Firsts /\ Seconds /\ Bounded /\ payload \in Payloads
    BY DEF RInv, Choosy, Known
  <2>2. ASSUME NEW i \in DOMAIN log
        PROVE  /\ ~ log[i].first =>
                    /\ log[i - 1].first /\ log[i - 1].endpoint = log[i].endpoint
                    /\ log[i - 1].reply = "tool_choice"
                    /\ Strength(log[i].wire.choice) < Strength(log[i - 1].wire.choice)
               /\ Strength(log[i].wire.choice) <= Strength(payload.choice)
    <3>1. Strength(log[i].wire.choice) \in 0 .. Strength(payload.choice) /\ Strength(payload.choice) \in 0 .. 3
      BY <2>1, PayloadIs, StrengthIs DEF Bounded
    <3>2. Strength(log[i].wire.choice) <= Strength(payload.choice)
      BY <3>1
    <3> QED BY <2>1, <3>2 DEF Seconds
  <2>3. ASSUME NEW i \in DOMAIN log, NEW j \in DOMAIN log, log[i].first, log[j].first,
               Pool[log[i].endpoint].caps = Pool[log[j].endpoint].caps, log[i].wire.to = log[j].wire.to
        PROVE  log[i].wire.choice = log[j].wire.choice
    <3>1. /\ log[i].wire = Build(Asked, Pool[log[i].endpoint], NoMetadata) /\ log[i].wire # Invalid
          /\ log[j].wire = Build(Asked, Pool[log[j].endpoint], NoMetadata) /\ log[j].wire # Invalid
      BY <2>1, <2>3 DEF Firsts
    <3>2. log[i].endpoint \in DOMAIN Pool /\ log[j].endpoint \in DOMAIN Pool
      BY <2>1, CandidatesIs DEF Known, TheLog
    <3>3. log[i].wire.to = Pool[log[i].endpoint].kind /\ log[j].wire.to = Pool[log[j].endpoint].kind
      BY <3>1, <3>2, BuiltTo
    <3>4. log[i].wire = log[j].wire
      BY <2>3, <3>1, <3>3 DEF Build
    <3> QED BY <3>4
  <2> QED BY <2>2, <2>3 DEF OneWeakerRetry
<1> QED BY <1>1, RequestsInvariant, PTL

(* A Responses request goes through its stages once: no endpoint is asked  *)
(* twice at one, tools do not come back, and reasoning keeps them.         *)
THEOREM ToolsLeaveForGood == Spec => []ToolsLeaveOnce
<1>1. RInv => ToolsLeaveOnce
  <2> SUFFICES ASSUME RInv, payload.protocol = "openai_responses" PROVE ToolsLeaveOnce
    BY DEF ToolsLeaveOnce
  <2>1. Known /\ Climbing(log) /\ ToolsKept
    BY DEF RInv, Staged
  <2>2. /\ DOMAIN log = 1 .. Len(log) /\ Len(log) \in Nat
        /\ \A i \in DOMAIN log : log[i].endpoint \in Candidates /\ (i < Len(log) => log[i].reply # "ok")
    BY <2>1, LenProperties DEF Known, TheLog
  <2>3. \A i, j \in DOMAIN log :
          i < j => /\ Stage(log[i].wire) <= Stage(log[j].wire)
                   /\ log[i].endpoint = log[j].endpoint => Stage(log[i].wire) # Stage(log[j].wire)
                   /\ log[i].reply # "ok"
    <3>1. \A i, j \in DOMAIN log : i < j => log[i].reply # "ok"
      BY <2>2
    <3> QED BY <2>1, <3>1 DEF Climbing
  <2>4. Reasoned => \A i, j \in DOMAIN log : Tooled(log[i].wire) = Tooled(log[j].wire)
    <3>1. Reasoned => \A i \in DOMAIN log : Tooled(log[i].wire) <=> Tooled(payload)
      BY <2>1 DEF ToolsKept
    <3>2. \A w : Tooled(w) \in BOOLEAN
      BY DEF Tooled
    <3> QED BY <3>1, <3>2
  <2>5. \A i \in DOMAIN log :
          LET e == Pool[log[i].endpoint]
          IN  e.enabled /\ e.kind = "openai" /\ (payload.hint # None => Matches(e, payload.hint))
    BY <2>2, CandidatesIs
  <2> QED BY <2>3, <2>4, <2>5 DEF ToolsLeaveOnce, Reasoned
<1> QED BY <1>1, RequestsInvariant, PTL
=============================================================================
