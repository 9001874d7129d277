---------------------------- MODULE SessionContract ----------------------------
(* What a session store promises about one key: it holds at most one        *)
(* prefix; a prefix replaces another only with a higher epoch; a held       *)
(* prefix may be forgotten, and only then does any epoch get in again.      *)
EXTENDS Integers

CONSTANTS Prefixes, None
VARIABLE held

Init == held = None

Create == held = None /\ held' \in Prefixes

Replace == /\ held # None
           /\ held' \in {p \in Prefixes : p.epoch > held.epoch}

Forget == held # None /\ held' = None

Next == Create \/ Replace \/ Forget

Spec == Init /\ [][Next]_held
=============================================================================
