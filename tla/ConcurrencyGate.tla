--------------------------- MODULE ConcurrencyGate ---------------------------
(***************************************************************************)
(* What the adaptive concurrency controller of one endpoint promises the   *)
(* engine: an attempt that is let in holds one slot until it gives it      *)
(* back, and never more than Capacity attempts hold a slot.  How the       *)
(* capacity adapts below Capacity is left open here; module Aimd says it.  *)
(***************************************************************************)
EXTENDS Naturals, FiniteSets

CONSTANTS Threads,    \* the attempts that may ask for a slot
          Capacity    \* the most slots ever out at once

VARIABLE holders      \* the attempts that hold a slot

Init == holders = {}

Admit(t) == /\ t \notin holders
            /\ Cardinality(holders) < Capacity
            /\ holders' = holders \union {t}

Leave(t) == /\ t \in holders
            /\ holders' = holders \ {t}

Next == \E t \in Threads : Admit(t) \/ Leave(t)

Spec == Init /\ [][Next]_holders

=============================================================================
