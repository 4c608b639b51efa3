---------------------------- MODULE MCFat32Tree ----------------------------
(***************************************************************************)
(* The volume of module MCFat32, with fewer paths and writes and one write *)
(* that fails, for the refinement.                                         *)
(***************************************************************************)
EXTENDS Fat32Tree, TLC

CONSTANTS A, B

MCNames == {A, B}
MCPaths == {<<A>>, <<B>>, <<A, B>>, <<B, A>>, <<A, B, A>>, <<B, A, B>>}
NameSymmetry == Permutations(MCNames)
=============================================================================
