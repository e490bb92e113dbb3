---------------------------- MODULE MCAdmission ----------------------------
(***************************************************************************)
(* A small instance of Admission for TLC: the PRR of p1 names one of the   *)
(* two containers.                                                         *)
(***************************************************************************)
EXTENDS Admission

CONSTANTS p1, p2, p3, q, main, sidecar

OneSurge == [kind |-> "int", val |-> 1]
NamesMain == [p \in Pod |-> IF p \in Reporting THEN {main} ELSE {}]
=============================================================================
