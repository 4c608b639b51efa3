----------------------------- MODULE Fat32Mount -----------------------------
(***************************************************************************)
(* Mounting (kernel/fs/fat32/fat32.cpp): which partition is taken, which   *)
(* boot sectors are accepted, and where the allocation tables and the      *)
(* clusters then lie.  Sector numbers are those of 32 bits.                *)
(***************************************************************************)
EXTENDS Integers, Sequences, FiniteSets

CONSTANTS Word,        \* 2^32
          PerSector    \* table entries in a sector (128)

ASSUME WordAssumption == Word \in Nat \ {0} /\ PerSector \in Nat \ {0}

Lba == 0 .. Word - 1
NotMounted == [mounted |-> FALSE]

is_power_of_two(value) == value \in {1, 2, 4, 8, 16, 32, 64, 128}

(* Mutant: the data begin behind the first copy of the table.              *)
MetadataOfOneCopy(boot) == boot.reserved + boot.sectors_per_fat

(* The fields of the struct, from those of the boot sector.  fat32 says    *)
(* that the signature, the sector size and the fields that only FAT12 and  *)
(* FAT16 have are as they should be.                                       *)
Metadata(boot) == boot.reserved + boot.fat_count * boot.sectors_per_fat

ClusterCount(boot) == (boot.total - Metadata(boot)) \div boot.sectors_per_cluster

Geometry(partition_lba, boot) ==
  [mounted             |-> TRUE,
   partition_lba       |-> partition_lba,
   fat_start_lba       |-> partition_lba + boot.reserved,
   data_start_lba      |-> partition_lba + Metadata(boot),
   sectors_per_fat     |-> boot.sectors_per_fat,
   fat_count           |-> boot.fat_count,
   root_cluster        |-> boot.root_cluster,
   cluster_count       |-> ClusterCount(boot),
   sectors_per_cluster |-> boot.sectors_per_cluster]

fat32_mount(partition_lba, boot) ==
  IF /\ boot.fat32
     /\ is_power_of_two(boot.sectors_per_cluster)
     /\ boot.reserved # 0 /\ boot.fat_count # 0 /\ boot.sectors_per_fat # 0
     /\ boot.total # 0 /\ boot.root_cluster >= 2
     /\ Metadata(boot) < boot.total
     /\ ClusterCount(boot) # 0 /\ boot.root_cluster <= ClusterCount(boot) + 1
     /\ partition_lba + Metadata(boot) \in Lba
  THEN Geometry(partition_lba, boot) ELSE NotMounted

(* fat32_mount_primary_ata: the first of the four partitions that has the  *)
(* type of a FAT32 one.                                                    *)
fat32_mount_primary_ata(mbr, boot) ==
  LET fits == {i \in DOMAIN mbr : mbr[i].fat32}
  IN IF \A i \in fits : (\A j \in fits : i <= j) => mbr[i].lba = 0 THEN NotMounted
     ELSE fat32_mount(mbr[CHOOSE i \in fits : \A j \in fits : i <= j].lba, boot)
-----------------------------------------------------------------------------
(* Where things are on a mounted volume g.                                 *)
ClustersOf(g) == 2 .. g.cluster_count + 1

(* fat32_cluster_lba, and the sectors behind it: none when it leaves the   *)
(* 32 bits.                                                                *)
fat32_cluster_lba(g, cluster) == g.data_start_lba + (cluster - 2) * g.sectors_per_cluster
SectorsOf(g, cluster) ==
  IF fat32_cluster_lba(g, cluster) \notin Lba THEN {}
  ELSE {(fat32_cluster_lba(g, cluster) + i) % Word : i \in 0 .. g.sectors_per_cluster - 1}

(* The sector of a table copy that holds the entry of a cluster.           *)
FatSector(cluster) == cluster \div PerSector
FatLba(g, copy, cluster) == g.fat_start_lba + copy * g.sectors_per_fat + FatSector(cluster)
=============================================================================
