------------------------ MODULE MC_ServiceDatabase ------------------------
(* Two threads and at most two connections. *)
EXTENDS ServiceDatabase
=============================================================================
