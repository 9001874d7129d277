------------------------------- MODULE ToolCalls -------------------------------
(* The arguments of tool calls, and the calls an OpenAI-compatible upstream *)
(* streams in fragments (unigateway-core conversion/tool_calls.rs).         *)
(*                                                                          *)
(* Arguments are sequences of characters.  A quote opens and closes a JSON  *)
(* string, and there is none inside: decoding takes the two away.           *)
EXTENDS Integers, SequencesExt, FiniteSetsExt

CONSTANT None

Quote == "quote"
Empty == <<"{", "}">>

Drop(s, n) == SubSeq(s, n + 1, Len(s))
Nothing == [start |-> None, delta |-> None, stop |-> None]

(* Upstreams send fragments, or everything so far: what is there already is *)
(* not appended again.                                                      *)
Overlap(existing, incoming) ==
    Max({n \in 0..Min({Len(existing), Len(incoming)}) :
            IsSuffix(SubSeq(incoming, 1, n), existing)})

(* Mutant: every fragment is appended.                                      *)
MergePlain(existing, incoming) == existing \o incoming

Merge(existing, incoming) ==
    IF IsPrefix(existing, incoming) THEN incoming
    ELSE IF IsPrefix(incoming, existing) \/ IsSuffix(incoming, existing) THEN existing
    ELSE existing \o Drop(incoming, Overlap(existing, incoming))

RECURSIVE Normalize(_, _)
Normalize(raw, previous) ==
    CASE raw = <<>>                            -> previous
      [] IsStrictPrefix(Empty, raw)            -> Normalize(Drop(raw, 2), previous)
      [] raw # <<>> /\ Head(raw) = Quote       ->
            IF Len(raw) > 1 /\ SelectInSeq(Tail(raw), LAMBDA ch : ch = Quote) = Len(raw) - 1
            THEN IF Len(raw) = 2 THEN <<>> ELSE Normalize(SubSeq(raw, 2, Len(raw) - 1), previous)
            ELSE previous
      [] OTHER                                 -> raw

(* Text that is one JSON object; no object here has another inside.         *)
IsObject(text) ==
    /\ Len(text) > 1 /\ Head(text) = "{" /\ Last(text) = "}"
    /\ \A i \in 2..Len(text) - 1 : text[i] \notin {"{", "}", Quote}

(* What a whole call's arguments stand for: what is no object stands for {}. *)
Input(arguments) ==
    LET parsed == Normalize(arguments, arguments)
    IN  IF IsObject(parsed) THEN parsed ELSE Empty
-----------------------------------------------------------------------------
Unknown == [id |-> None, name |-> None, raw |-> <<>>, arguments |-> <<>>, emitted |-> 0,
            index |-> None, started |-> FALSE, stopped |-> FALSE]

Named(given, known) == IF given # None THEN given ELSE known

Sent(pending, call) == IF call.arguments = None THEN pending.raw ELSE Merge(pending.raw, call.arguments)

(* A fragment of a call: the block opens when id and name are known, and    *)
(* what was not sent yet of the arguments goes out.                         *)
Apply(pending, next, call) ==
    LET p == [pending EXCEPT !.index = IF @ = None THEN next ELSE @,
                             !.id = Named(call.id, @), !.name = Named(call.name, @),
                             !.raw = Sent(pending, call),
                             !.arguments = IF call.arguments = None THEN @
                                           ELSE Normalize(Sent(pending, call), @)]
        starts == ~ p.started /\ p.id # None /\ p.name # None
        sends == (p.started \/ starts) /\ p.emitted < Len(p.arguments)
    IN  [pending |-> [p EXCEPT !.started = @ \/ starts, !.emitted = IF sends THEN Len(p.arguments) ELSE @],
         next    |-> IF pending.index = None THEN next + 1 ELSE next,
         update  |-> [start |-> IF starts THEN [id |-> p.id, name |-> p.name] ELSE None,
                      delta |-> IF sends THEN Drop(p.arguments, p.emitted) ELSE None,
                      stop  |-> None]]

(* The end of a call.  One that never got its id or its name is sent with   *)
(* placeholders, one without anything is not sent.                          *)
Flush(p) ==
    LET blank == p.id = None /\ p.name = None /\ p.arguments = <<>>
        sends == ~ p.started /\ p.emitted < Len(p.arguments)
    IN  IF p.stopped THEN [pending |-> p, update |-> Nothing]
        ELSE IF ~ p.started /\ blank THEN [pending |-> [p EXCEPT !.started = TRUE], update |-> Nothing]
        ELSE [pending |-> [p EXCEPT !.started = TRUE, !.stopped = TRUE,
                                    !.emitted = IF sends THEN Len(p.arguments) ELSE @],
              update  |-> [start |-> IF p.started THEN None
                                     ELSE [id |-> Named(p.id, "toolu_unknown"), name |-> Named(p.name, "tool")],
                           delta |-> IF sends THEN Drop(p.arguments, p.emitted) ELSE None,
                           stop  |-> p.index]]
=============================================================================
