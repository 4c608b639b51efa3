--------------------------- MODULE MCFat32Returns ---------------------------
(***************************************************************************)
(* Clusters of two slots, which the dots of a directory fill, and a third  *)
(* name: a directory takes a second cluster and fills it too, and the      *)
(* search for a slot goes through both.                                    *)
(***************************************************************************)
EXTENDS Fat32Properties

CONSTANTS A, B, C

MCNames == {A, B, C}
MCPaths == {<<A>>, <<A, A>>, <<A, B>>, <<A, C>>}
=============================================================================
