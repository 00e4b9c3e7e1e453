--------------------------- MODULE MCControlPlane ---------------------------
(* Small instances of the operator control plane.                           *)
EXTENDS ControlPlane
=============================================================================
