---------------------------------- MODULE Lists ----------------------------------
(***************************************************************************)
(* Filters and sorts of lists by their positions, the form in which the    *)
(* provers can reason about them.                                          *)
(***************************************************************************)
EXTENDS Integers, FiniteSets, SequencesExt

(* The elements of a finite set in the order of a total relation.          *)
Arrange(S, before) ==
    LET Rank(i) == Cardinality({j \in S : <<j, i>> \in before})
    IN  [n \in 1 .. Cardinality(S) |-> CHOOSE i \in S : Rank(i) = n]

(* The entries of a list at the positions in S, as `before` orders them.   *)
Arranged(list, S, before) ==
    LET order == Arrange(S, before) IN [n \in DOMAIN order |-> list[order[n]]]

Pick(list, S) == Arranged(list, S, {e \in S \X S : e[1] <= e[2]})
=============================================================================
