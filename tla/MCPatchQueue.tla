---------------------------- MODULE MCPatchQueue ----------------------------
(***************************************************************************)
(* Four patches of three nodes: b and c are of the same priority, though c *)
(* has the larger delta, on the larger node; b and d scale down; the node  *)
(* of c reports no memory.  The priorities are 3/2, 1/2, 1/2 and 1/4.      *)
(***************************************************************************)
EXTENDS PatchQueue

CONSTANTS a, b, c, d

FourPatches == {a, b, c, d}
CPU == [p \in FourPatches |-> CASE p = a -> 3 [] p = b -> -1 [] p = c -> 4 [] p = d -> 0]
Memory == [p \in FourPatches |-> CASE p \in {a, b} -> 0 [] p = c -> 1 [] p = d -> -4]
TotalCPUs == [p \in FourPatches |-> CASE p \in {a, b} -> 2 [] p = c -> 8 [] p = d -> 4]
TotalMemories == [p \in FourPatches |-> CASE p \in {a, b} -> 4 [] p = c -> 0 [] p = d -> 16]
=============================================================================
