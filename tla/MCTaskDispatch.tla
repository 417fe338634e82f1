--------------------------- MODULE MCTaskDispatch ---------------------------
(***************************************************************************)
(* Instances of TaskDispatch: one or two agents and tasks.                *)
(***************************************************************************)
EXTENDS TaskDispatch, TLC

CONSTANTS a1, a2, t1, t2
=============================================================================
