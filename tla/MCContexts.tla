----------------------------- MODULE MCContexts -----------------------------
(* A small instance of Contexts: two jobs of one subject and one of another *)
(* in a registry that holds one.                                            *)
EXTENDS Contexts, TLC

CONSTANTS w1, w2, j1, j2, j3

TwoHomes == j1 :> w1 @@ j2 :> w1 @@ j3 :> w2
FewWrites == w1 :> 2 @@ w2 :> 1
=============================================================================
