---------------------------- MODULE MCGapRecovery ----------------------------
(* Model checking of GapRecovery; the bounds are in the configurations. *)
EXTENDS GapRecovery
=============================================================================
