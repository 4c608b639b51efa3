------------------------------ MODULE MCVolume ------------------------------
(***************************************************************************)
(* Volumes of up to nine sectors of two table entries, with every small    *)
(* value of the fields of a boot sector, in sector numbers of 16 of which  *)
(* the ports can take the first nine; tables too short for the clusters,   *)
(* copies out of the ports' reach, and partitions that pass the last       *)
(* sector number, are among them.                                          *)
(***************************************************************************)
EXTENDS Volume

CONSTANTS MaxTotal

MCMbrs == {<<[fat32 |-> FALSE, lba |-> 1], [fat32 |-> TRUE, lba |-> lba]>> : lba \in {0, 1, 5, 8}}
MCBoots == [fat32 : BOOLEAN, sectors_per_cluster : {1, 2, 3}, reserved : {0, 1}, fat_count : {0, 1, 2},
            sectors_per_fat : {0, 1, 2}, total : {0} \cup 5 .. MaxTotal, root_cluster : {1, 2, 4}]
=============================================================================
