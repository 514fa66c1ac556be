---------------------------- MODULE MC_Accounts ----------------------------
(* Two users, two requests in progress, one token. *)
EXTENDS Accounts, TLC

Symmetry == Permutations(Tasks)
=============================================================================
