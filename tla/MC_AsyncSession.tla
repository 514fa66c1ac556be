-------------------------- MODULE MC_AsyncSession --------------------------
(* Two sessions over a pool of one connection.  A pool of one size never uses *)
(* its sizer's idle streak, which is kept at zero.                            *)
EXTENDS AsyncSession

MCSpec == SessionInit /\ [][SessionNext /\ streak' = 0]_allVars

MCFairSpec == MCSpec /\ SessionFairness
=============================================================================
