----------------------------- MODULE MCRunStore -----------------------------
(* Small instances of RunStore. *)
EXTENDS RunStore, TLC

Subjects == Permutations(Workspace)
=============================================================================
