------------------------------- MODULE MCAimd -------------------------------
(* Model-checking instance of Aimd: the attempts are interchangeable.      *)
EXTENDS Aimd, TLC

Attempts == Permutations(Threads)
=============================================================================
