---------------------------- MODULE MCNodeAgent ----------------------------
(***************************************************************************)
(* A small instance of NodeAgent for TLC.  Buckets start at 0, 2 and 6 and *)
(* end at 14; 3 and 7 lie in different ones and 20 beyond the last.  The   *)
(* PRR starts empty, corrupt, or with a checkpoint of an older build whose *)
(* histograms had other options.                                           *)
(***************************************************************************)
EXTENDS NodeAgent

CONSTANT a

OldBuild == Encode(AddSample(New("older build"), 3, Unit, Epoch))
Leftovers == {NoPayload, Corrupt, OldBuild}
=============================================================================
