--------------------------- MODULE MCRecommender ---------------------------
(***************************************************************************)
(* Small instances of Recommender for TLC.  2007 is the least number of    *)
(* milli-cores that does not survive (n / 1000.0) * 1000, and the only one *)
(* that these inputs reach.                                                *)
(***************************************************************************)
EXTENDS Recommender

CONSTANTS r1, r2
SomeMargins == {-5, 15}
=============================================================================
