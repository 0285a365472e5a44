------------------------------- MODULE MCBank -------------------------------
(* Small instances of Bank: the people and their exercises are alike. *)
EXTENDS Bank, TLC

People == Permutations(Teacher) \cup Permutations(Added)
=============================================================================
