--------------------------- MODULE MCControlPlane ---------------------------
(***************************************************************************)
(* Small instances of ControlPlane for TLC.                                *)
(***************************************************************************)
EXTENDS ControlPlane, TLC

CONSTANTS p1, p2, p3, q

OneSurge == [kind |-> "int", val |-> 1]
HalfSurge == [kind |-> "percent", val |-> 50]
=============================================================================
