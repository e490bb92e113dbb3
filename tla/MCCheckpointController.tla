---------------------- MODULE MCCheckpointController ----------------------
(***************************************************************************)
(* A small instance of CheckpointController for TLC.                       *)
(***************************************************************************)
EXTENDS CheckpointController

CONSTANTS a, b
=============================================================================
