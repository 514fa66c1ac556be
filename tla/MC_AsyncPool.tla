--------------------------- MODULE MC_AsyncPool ---------------------------
(* Three tasks compete for at most two connections. *)
EXTENDS AsyncPool

Perms == Permutations(Clients)
=============================================================================
