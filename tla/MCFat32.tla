------------------------------ MODULE MCFat32 ------------------------------
(***************************************************************************)
(* A small volume for TLC: three clusters of three slots (room for a       *)
(* directory in a directory, or for a directory of two clusters), two      *)
(* interchangeable names, paths of up to three segments, sizes in a word   *)
(* of 16 so that the rounding of a size near its top wraps.                *)
(***************************************************************************)
EXTENDS Fat32Layout, TLC

CONSTANTS A, B

MCNames == {A, B}
MCPaths == {<<A>>, <<B>>, <<A, A>>, <<A, B>>, <<B, A>>, <<B, B>>, <<A, B, A>>, <<B, A, B>>}
MCReadPaths == MCPaths \cup {<<>>}
NameSymmetry == Permutations(MCNames)
=============================================================================
