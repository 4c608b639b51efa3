---------------------------- MODULE VolumeProofs ----------------------------
(***************************************************************************)
(* Proofs about mounting, and about writing an entry of the allocation     *)
(* table: for every boot sector, any number of copies, every size of the   *)
(* parts, and a drive that takes its time and fails whenever it likes.     *)
(***************************************************************************)
EXTENDS Volume, FiniteSetTheorems, TLAPS

(* What mounting leaves behind, and nothing changes any more.              *)
Mounted == \E mbr \in Mbrs, boot \in Boots :
             filesystem = fat32_mount_primary_ata(mbr, boot) /\ volume = boot

(* What the numbers in it have to do with one another.                     *)
Sizes(g, total) ==
  /\ g.partition_lba \in Nat /\ g.sectors_per_fat \in Nat \ {0} /\ g.fat_count \in Nat \ {0}
  /\ g.fat_start_lba \in Nat /\ g.partition_lba < g.fat_start_lba
  /\ g.data_start_lba = g.fat_start_lba + g.fat_count * g.sectors_per_fat
  /\ g.data_start_lba \in Lba
  /\ g.sectors_per_cluster \in Nat \ {0} /\ g.cluster_count \in Nat \ {0} /\ total \in Nat
  /\ g.data_start_lba + g.cluster_count * g.sectors_per_cluster <= g.partition_lba + total
  /\ g.root_cluster \in ClustersOf(g)
-----------------------------------------------------------------------------
(* Products and quotients.                                                 *)

LEMMA Division ==
  ASSUME NEW s \in Nat \ {0}, NEW a \in Nat
  PROVE  /\ a \div s \in Nat /\ a % s \in 0 .. s - 1
         /\ a = (a \div s) * s + (a % s) /\ (a \div s) * s <= a
  OBVIOUS

LEMMA Scaled ==
  ASSUME NEW s \in Nat, NEW p \in Nat, NEW q \in Nat
  PROVE  /\ p * s \in Nat /\ (p + 1) * s = p * s + s
         /\ p <= q => p * s <= q * s
         /\ p < q => p * s + s <= q * s
  <1>1. p < q => (p + 1) * s <= q * s
    OBVIOUS
  <1> QED BY <1>1

LEMMA MountedSizes ==
  ASSUME Mounted, filesystem.mounted
  PROVE  Sizes(filesystem, volume.total)
  <1>1. PICK mbr \in Mbrs, boot \in Boots :
          filesystem = fat32_mount_primary_ata(mbr, boot) /\ volume = boot
    BY DEF Mounted
  <1> DEFINE fits == {i \in DOMAIN mbr : mbr[i].fat32}
             first == CHOOSE i \in fits : \A j \in fits : i <= j
             lba == mbr[first].lba
  <1>2. ~NotMounted.mounted
    BY DEF NotMounted
  <1>3. ~(\A i \in fits : (\A j \in fits : i <= j) => mbr[i].lba = 0)
    BY <1>1, <1>2 DEF fat32_mount_primary_ata
  <1>4. filesystem = fat32_mount(lba, boot)
    BY <1>1, <1>3 DEF fat32_mount_primary_ata
  <1>5. lba \in Nat
    <2>1. first \in fits
      BY <1>3
    <2>2. mbr \in Seq([fat32 : BOOLEAN, lba : Nat])
      BY DriveAssumption
    <2>3. \A S, m : m \in Seq(S) => \A i \in DOMAIN m : m[i] \in S
      OBVIOUS
    <2>4. first \in DOMAIN mbr
      BY <2>1
    <2> HIDE DEF first
    <2>5. mbr[first] \in [fat32 : BOOLEAN, lba : Nat]
      BY <2>2, <2>3, <2>4
    <2> QED BY <2>5
  <1> HIDE DEF lba
  <1>6. /\ is_power_of_two(boot.sectors_per_cluster)
        /\ boot.reserved # 0 /\ boot.fat_count # 0 /\ boot.sectors_per_fat # 0
        /\ boot.total # 0 /\ boot.root_cluster >= 2
        /\ Metadata(boot) < boot.total
        /\ ClusterCount(boot) # 0 /\ boot.root_cluster <= ClusterCount(boot) + 1
        /\ lba + Metadata(boot) \in Lba
        /\ filesystem = Geometry(lba, boot)
    BY <1>2, <1>4 DEF fat32_mount
  <1>7. /\ boot.sectors_per_cluster \in Nat /\ boot.reserved \in Nat /\ boot.fat_count \in Nat
        /\ boot.sectors_per_fat \in Nat /\ boot.total \in Nat /\ boot.root_cluster \in Nat
    BY DriveAssumption
  <1>8. boot.sectors_per_cluster \in Nat \ {0}
    BY <1>6, <1>7 DEF is_power_of_two
  <1>9. Metadata(boot) \in Nat /\ Metadata(boot) = boot.reserved + boot.fat_count * boot.sectors_per_fat
        /\ boot.fat_count * boot.sectors_per_fat \in Nat
    BY <1>7, Scaled DEF Metadata
  <1>10. boot.total - Metadata(boot) \in Nat
    BY <1>6, <1>7, <1>9
  <1>11. /\ ClusterCount(boot) \in Nat
         /\ ClusterCount(boot) * boot.sectors_per_cluster \in Nat
         /\ ClusterCount(boot) * boot.sectors_per_cluster <= boot.total - Metadata(boot)
    BY <1>8, <1>10, Division, Scaled DEF ClusterCount
  <1>12. /\ filesystem.partition_lba = lba /\ filesystem.fat_start_lba = lba + boot.reserved
         /\ filesystem.data_start_lba = lba + Metadata(boot)
         /\ filesystem.sectors_per_fat = boot.sectors_per_fat /\ filesystem.fat_count = boot.fat_count
         /\ filesystem.root_cluster = boot.root_cluster /\ filesystem.cluster_count = ClusterCount(boot)
         /\ filesystem.sectors_per_cluster = boot.sectors_per_cluster
    BY <1>6 DEF Geometry
  <1>13. lba + Metadata(boot) + ClusterCount(boot) * boot.sectors_per_cluster <= lba + boot.total
    BY <1>5, <1>7, <1>9, <1>10, <1>11
  <1>14. lba + Metadata(boot) = (lba + boot.reserved) + boot.fat_count * boot.sectors_per_fat
    BY <1>5, <1>7, <1>9
  <1>15. boot.root_cluster \in 2 .. ClusterCount(boot) + 1
    BY <1>6, <1>7, <1>11
  <1> QED BY <1>1, <1>5, <1>6, <1>7, <1>8, <1>11, <1>12, <1>13, <1>14, <1>15 DEF Sizes, ClustersOf
-----------------------------------------------------------------------------
(* The parts of the volume in their order: the reserved sectors, the       *)
(* copies of the table, the clusters.                                      *)

PartStart(g, j) ==
  IF j = 0 THEN g.partition_lba
  ELSE IF j <= g.fat_count THEN g.fat_start_lba + (j - 1) * g.sectors_per_fat
  ELSE g.data_start_lba + (j - 1 - g.fat_count) * g.sectors_per_cluster
PartOf(g, j) == PartStart(g, j) .. PartStart(g, j + 1) - 1
Parts(g) == {g.partition_lba .. g.fat_start_lba - 1} \cup {CopyOf(g, k) : k \in 0 .. g.fat_count - 1}
               \cup {SectorsOf(g, c) : c \in ClustersOf(g)}

LEMMA StartsAre ==
  ASSUME NEW g, NEW total, Sizes(g, total)
  PROVE  /\ PartStart(g, 0) = g.partition_lba
         /\ \A j \in 1 .. g.fat_count + 1 :
              PartStart(g, j) = g.fat_start_lba + (j - 1) * g.sectors_per_fat
         /\ \A j \in g.fat_count + 1 .. 1 + g.fat_count + g.cluster_count :
              PartStart(g, j) = g.data_start_lba + (j - 1 - g.fat_count) * g.sectors_per_cluster
  <1> USE DEF Sizes
  <1>1. PartStart(g, 0) = g.partition_lba
    BY DEF PartStart
  <1>2. ASSUME NEW j \in 1 .. g.fat_count
        PROVE  PartStart(g, j) = g.fat_start_lba + (j - 1) * g.sectors_per_fat
    BY DEF PartStart
  <1>3. ASSUME NEW j \in g.fat_count + 1 .. 1 + g.fat_count + g.cluster_count
        PROVE  PartStart(g, j) = g.data_start_lba + (j - 1 - g.fat_count) * g.sectors_per_cluster
    <2>1. j # 0 /\ ~(j <= g.fat_count)
      OBVIOUS
    <2> QED BY <2>1 DEF PartStart
  <1>4. PartStart(g, g.fat_count + 1) = g.fat_start_lba + (g.fat_count + 1 - 1) * g.sectors_per_fat
    <2>1. PartStart(g, g.fat_count + 1) = g.data_start_lba + (g.fat_count + 1 - 1 - g.fat_count) * g.sectors_per_cluster
      BY <1>3
    <2>2. g.fat_count + 1 - 1 - g.fat_count = 0 /\ g.fat_count + 1 - 1 = g.fat_count
      OBVIOUS
    <2>3. 0 * g.sectors_per_cluster = 0
      OBVIOUS
    <2> QED BY <2>1, <2>2, <2>3
  <1>5. \A j \in 1 .. g.fat_count + 1 : j \in 1 .. g.fat_count \/ j = g.fat_count + 1
    OBVIOUS
  <1> QED BY <1>1, <1>2, <1>3, <1>4, <1>5

(* They follow one another without a gap, and end inside the partition.    *)
LEMMA StartsAscend ==
  ASSUME NEW g, NEW total, Sizes(g, total)
  PROVE  /\ \A j \in 0 .. 1 + g.fat_count + g.cluster_count :
              PartStart(g, j) \in Nat /\ g.partition_lba <= PartStart(g, j)
                                      /\ PartStart(g, j) <= g.partition_lba + total
         /\ \A i, j \in 0 .. 1 + g.fat_count + g.cluster_count : i < j => PartStart(g, i) < PartStart(g, j)
  <1> DEFINE n == 1 + g.fat_count + g.cluster_count
             m == g.fat_count + 1
             spf == g.sectors_per_fat
             spc == g.sectors_per_cluster
             S == [j \in 0 .. n |-> PartStart(g, j)]
  <1>1. /\ g.fat_count \in Nat \ {0} /\ g.cluster_count \in Nat \ {0} /\ spf \in Nat \ {0} /\ spc \in Nat \ {0}
        /\ g.partition_lba \in Nat /\ g.fat_start_lba \in Nat /\ g.data_start_lba \in Nat /\ total \in Nat
        /\ g.partition_lba < g.fat_start_lba
        /\ g.data_start_lba + g.cluster_count * spc <= g.partition_lba + total
    BY DEF Sizes, Lba
  <1>2. /\ S[0] = g.partition_lba
        /\ \A j \in 1 .. m : S[j] = g.fat_start_lba + (j - 1) * spf
        /\ \A j \in m .. n : S[j] = g.data_start_lba + (j - 1 - g.fat_count) * spc
    <2>1. /\ \A j \in 1 .. m : j \in 0 .. n
          /\ \A j \in m .. n : j \in 0 .. n
          /\ 0 \in 0 .. n
      BY <1>1
    <2>2. \A j \in 0 .. n : S[j] = PartStart(g, j)
      OBVIOUS
    <2> HIDE DEF S
    <2> QED BY <2>1, <2>2, StartsAre
  <1> HIDE DEF S, spf, spc
  <1>3. \A i, j \in 1 .. m : i < j => S[i] < S[j] /\ S[i] \in Nat /\ S[j] \in Nat
    <2> SUFFICES ASSUME NEW i \in 1 .. m, NEW j \in 1 .. m, i < j
                 PROVE  S[i] < S[j] /\ S[i] \in Nat /\ S[j] \in Nat
      OBVIOUS
    <2> DEFINE x == (i - 1) * spf
               y == (j - 1) * spf
    <2>1. i - 1 \in Nat /\ j - 1 \in Nat /\ i - 1 < j - 1
      BY <1>1
    <2>2. x + spf <= y /\ x \in Nat /\ y \in Nat
      BY <1>1, <2>1, Scaled
    <2>3. S[i] = g.fat_start_lba + x /\ S[j] = g.fat_start_lba + y
      BY <1>2
    <2> HIDE DEF x, y
    <2> QED BY <1>1, <2>2, <2>3
  <1>4. \A i, j \in m .. n : i < j => S[i] < S[j] /\ S[i] \in Nat /\ S[j] \in Nat
    <2> SUFFICES ASSUME NEW i \in m .. n, NEW j \in m .. n, i < j
                 PROVE  S[i] < S[j] /\ S[i] \in Nat /\ S[j] \in Nat
      OBVIOUS
    <2>1. /\ i - 1 - g.fat_count \in Nat /\ j - 1 - g.fat_count \in Nat
          /\ i - 1 - g.fat_count < j - 1 - g.fat_count
      BY <1>1
    <2>2. /\ (i - 1 - g.fat_count) * spc + spc <= (j - 1 - g.fat_count) * spc
          /\ (i - 1 - g.fat_count) * spc \in Nat /\ (j - 1 - g.fat_count) * spc \in Nat
      BY <1>1, <2>1, Scaled
    <2> QED BY <1>1, <1>2, <2>2
  <1>5. S[0] \in Nat /\ S[1] = g.fat_start_lba /\ S[0] < S[1]
    <2>1. (1 - 1) * spf = 0 /\ 1 \in 1 .. m
      BY <1>1
    <2> QED BY <1>1, <1>2, <2>1
  <1>6. \A j \in 0 .. n : S[j] \in Nat
    <2>1. \A j \in 0 .. n : \/ j = 0 \/ j = 1
                            \/ j \in 1 .. m /\ 1 \in 1 .. m /\ 1 < j
                            \/ j \in m .. n /\ m \in m .. n /\ m < j
      BY <1>1
    <2> QED BY <1>1, <1>3, <1>4, <1>5, <2>1
  <1>7. \A i, j \in 0 .. n : i < j => S[i] < S[j]
    <2> SUFFICES ASSUME NEW i \in 0 .. n, NEW j \in 0 .. n, i < j PROVE S[i] < S[j]
      OBVIOUS
    <2>1. CASE i # 0 /\ j <= m
      BY <1>1, <1>3, <2>1
    <2>2. CASE i >= m
      BY <1>1, <1>4, <2>2
    <2>3. CASE i # 0 /\ i < m /\ m < j
      <3>1. S[i] < S[m] /\ S[m] < S[j]
        BY <1>1, <1>3, <1>4, <2>3
      <3> QED BY <1>1, <1>6, <3>1
    <2>4. CASE i = 0 /\ j <= m
      <3>1. j = 1 \/ S[1] < S[j]
        BY <1>1, <1>3, <2>4
      <3> QED BY <1>1, <1>5, <1>6, <2>4, <3>1
    <2>5. CASE i = 0 /\ m < j
      <3>1. S[1] < S[m] /\ S[m] < S[j]
        BY <1>1, <1>3, <1>4, <2>5
      <3> QED BY <1>1, <1>5, <1>6, <2>5, <3>1
    <2> QED BY <1>1, <2>1, <2>2, <2>3, <2>4, <2>5
  <1>8. S[n] <= g.partition_lba + total
    <2>1. n - 1 - g.fat_count = g.cluster_count /\ n \in m .. n
      BY <1>1
    <2>2. S[n] = g.data_start_lba + (n - 1 - g.fat_count) * spc
      BY <1>2, <2>1
    <2> QED BY <1>1, <2>1, <2>2
  <1>9. \A j \in 0 .. n : S[0] <= S[j] /\ S[j] <= S[n]
    <2> SUFFICES ASSUME NEW j \in 0 .. n PROVE S[0] <= S[j] /\ S[j] <= S[n]
      OBVIOUS
    <2>1. j = 0 \/ S[0] < S[j]
      BY <1>1, <1>7
    <2>2. j = n \/ S[j] < S[n]
      BY <1>1, <1>7
    <2>3. n \in 0 .. n /\ 0 \in 0 .. n
      BY <1>1
    <2> QED BY <1>6, <2>1, <2>2, <2>3
  <1>10. \A j \in 0 .. n : S[j] = PartStart(g, j)
    BY DEF S
  <1>11. n \in 0 .. n
    BY <1>1
  <1>12. \A j \in 0 .. n : S[j] \in Nat /\ g.partition_lba <= S[j] /\ S[j] <= g.partition_lba + total
    BY <1>1, <1>2, <1>6, <1>8, <1>9, <1>11
  <1> QED BY <1>7, <1>10, <1>12

(* These are the parts.                                                    *)
LEMMA PartsAre ==
  ASSUME NEW g, NEW total, Sizes(g, total), g.partition_lba + total <= Word
  PROVE  Parts(g) = {PartOf(g, j) : j \in 0 .. g.fat_count + g.cluster_count}
  <1> DEFINE n == g.fat_count + g.cluster_count
  <1>1. /\ g.fat_count \in Nat \ {0} /\ g.cluster_count \in Nat \ {0}
        /\ g.sectors_per_fat \in Nat \ {0} /\ g.sectors_per_cluster \in Nat \ {0}
        /\ g.partition_lba \in Nat /\ g.fat_start_lba \in Nat /\ g.data_start_lba \in Nat /\ total \in Nat
        /\ Word \in Nat
    BY WordAssumption DEF Sizes, Lba
  <1>2. PartOf(g, 0) = g.partition_lba .. g.fat_start_lba - 1
    <2>1. 0 + 1 \in 1 .. g.fat_count + 1 /\ 0 + 1 - 1 = 0 /\ 0 * g.sectors_per_fat = 0
      BY <1>1
    <2>2. PartStart(g, 0 + 1) = g.fat_start_lba + (0 + 1 - 1) * g.sectors_per_fat
      BY <2>1, StartsAre
    <2>3. PartStart(g, 0 + 1) = g.fat_start_lba
      BY <1>1, <2>1, <2>2
    <2>4. PartStart(g, 0) = g.partition_lba
      BY StartsAre
    <2> QED BY <2>3, <2>4, Zenon DEF PartOf
  <1>3. \A k \in 0 .. g.fat_count - 1 : PartOf(g, k + 1) = CopyOf(g, k)
    <2> SUFFICES ASSUME NEW k \in 0 .. g.fat_count - 1 PROVE PartOf(g, k + 1) = CopyOf(g, k)
      OBVIOUS
    <2>1. k \in Nat /\ k + 1 \in 1 .. g.fat_count + 1 /\ k + 1 + 1 \in 1 .. g.fat_count + 1
          /\ k + 1 - 1 = k /\ k + 1 + 1 - 1 = k + 1
      BY <1>1
    <2>2. PartStart(g, k + 1) = g.fat_start_lba + k * g.sectors_per_fat
      BY <2>1, StartsAre
    <2>3. PartStart(g, k + 1 + 1) = g.fat_start_lba + (k + 1) * g.sectors_per_fat
      BY <2>1, StartsAre
    <2>4. (k + 1) * g.sectors_per_fat = k * g.sectors_per_fat + g.sectors_per_fat /\ k * g.sectors_per_fat \in Nat
      BY <1>1, <2>1, Scaled
    <2>5. PartStart(g, k + 1 + 1) - 1 = g.fat_start_lba + k * g.sectors_per_fat + g.sectors_per_fat - 1
      BY <1>1, <2>3, <2>4
    <2> QED BY <2>2, <2>5, Zenon DEF PartOf, CopyOf
  <1>4. \A c \in ClustersOf(g) : c - 1 + g.fat_count \in g.fat_count + 1 .. n
                                 /\ PartOf(g, c - 1 + g.fat_count) = SectorsOf(g, c)
    <2> SUFFICES ASSUME NEW c \in ClustersOf(g)
                 PROVE  c - 1 + g.fat_count \in g.fat_count + 1 .. n
                        /\ PartOf(g, c - 1 + g.fat_count) = SectorsOf(g, c)
      OBVIOUS
    <2> DEFINE j == c - 1 + g.fat_count
               f == fat32_cluster_lba(g, c)
               s == g.sectors_per_cluster
    <2>1. /\ c \in Nat /\ c - 2 \in Nat /\ j \in g.fat_count + 1 .. n /\ j + 1 \in g.fat_count + 1 .. 1 + n
          /\ j \in g.fat_count + 1 .. 1 + n
          /\ j - 1 - g.fat_count = c - 2 /\ (j + 1) - 1 - g.fat_count = c - 2 + 1
      BY <1>1 DEF ClustersOf
    <2>2. (c - 2 + 1) * s = (c - 2) * s + s /\ (c - 2) * s \in Nat
      BY <1>1, <2>1, Scaled
    <2>3. 1 + n = 1 + g.fat_count + g.cluster_count
      BY <1>1
    <2>4. PartStart(g, j) = g.data_start_lba + (c - 2) * s
      BY <2>1, <2>3, StartsAre
    <2>5. PartStart(g, j + 1) = g.data_start_lba + (c - 2 + 1) * s
      <3>1. j + 1 \in g.fat_count + 1 .. 1 + g.fat_count + g.cluster_count
        BY <2>1, <2>3
      <3>2. \A k \in g.fat_count + 1 .. 1 + g.fat_count + g.cluster_count :
              PartStart(g, k) = g.data_start_lba + (k - 1 - g.fat_count) * s
        BY StartsAre
      <3> QED BY <2>1, <3>1, <3>2, Zenon
    <2>6. f \in Nat /\ PartStart(g, j) = f /\ PartStart(g, j + 1) = f + s
      BY <1>1, <2>2, <2>4, <2>5 DEF fat32_cluster_lba
    <2>7. PartOf(g, j) = PartStart(g, j) .. PartStart(g, j + 1) - 1
      BY DEF PartOf
    <2>8. PartOf(g, j) = f .. (f + s) - 1
      BY <2>6, <2>7, Zenon
    <2>9. f + s <= Word
      <3>1. j + 1 \in 0 .. 1 + g.fat_count + g.cluster_count
        BY <1>1, <2>1
      <3>2. PartStart(g, j + 1) <= g.partition_lba + total
        BY <3>1, StartsAscend
      <3> QED BY <1>1, <2>6, <3>2
    <2> HIDE DEF j, f, s
    <2>10. s \in Nat \ {0}
      BY <1>1 DEF s
    <2>11. f \in Lba
      BY <1>1, <2>6, <2>9, <2>10 DEF Lba
    <2>12. SectorsOf(g, c) = {(f + i) % Word : i \in 0 .. s - 1}
      BY <2>11 DEF SectorsOf, f, s
    <2>13. \A i \in 0 .. s - 1 : (f + i) % Word = f + i
      BY <1>1, <2>6, <2>9, <2>10, WordAssumption
    <2>14. SectorsOf(g, c) = {f + i : i \in 0 .. s - 1}
      BY <2>12, <2>13
    <2>15. {f + i : i \in 0 .. s - 1} = f .. f + s - 1
      <3>1. \A x \in f .. f + s - 1 : x - f \in 0 .. s - 1 /\ x = f + (x - f)
        BY <2>6, <2>10
      <3>2. \A i \in 0 .. s - 1 : f + i \in f .. f + s - 1
        BY <2>6, <2>10
      <3> QED BY <3>1, <3>2
    <2>16. PartOf(g, j) = f .. f + s - 1
      BY <2>6, <2>10, <2>8
    <2> QED BY <2>1, <2>14, <2>15, <2>16 DEF j
  <1>5. ASSUME NEW x \in Parts(g) PROVE x \in {PartOf(g, j) : j \in 0 .. n}
    <2>1. CASE x = g.partition_lba .. g.fat_start_lba - 1
      BY <1>1, <1>2, <2>1
    <2>2. ASSUME NEW k \in 0 .. g.fat_count - 1, x = CopyOf(g, k) PROVE x \in {PartOf(g, j) : j \in 0 .. n}
      <3>1. k + 1 \in 0 .. n
        BY <1>1
      <3> QED BY <1>3, <2>2, <3>1
    <2>3. ASSUME NEW c \in ClustersOf(g), x = SectorsOf(g, c) PROVE x \in {PartOf(g, j) : j \in 0 .. n}
      <3>1. \A j \in g.fat_count + 1 .. n : j \in 0 .. n
        BY <1>1
      <3> QED BY <1>4, <2>3, <3>1
    <2> QED BY <2>1, <2>2, <2>3 DEF Parts
  <1>6. ASSUME NEW j \in 0 .. n PROVE PartOf(g, j) \in Parts(g)
    <2>1. CASE j = 0
      BY <1>2, <2>1 DEF Parts
    <2>2. CASE j \in 1 .. g.fat_count
      <3>1. j - 1 \in 0 .. g.fat_count - 1 /\ (j - 1) + 1 = j
        BY <1>1, <2>2
      <3> QED BY <1>3, <3>1 DEF Parts
    <2>3. CASE j \in g.fat_count + 1 .. n
      <3>1. j + 1 - g.fat_count \in ClustersOf(g) /\ (j + 1 - g.fat_count) - 1 + g.fat_count = j
        BY <1>1, <2>3 DEF ClustersOf
      <3> QED BY <1>4, <3>1 DEF Parts
    <2> QED BY <1>1, <2>1, <2>2, <2>3
  <1> QED BY <1>5, <1>6

(* So they do not overlap, and none of them is empty or counted twice.     *)
LEMMA PartsSound ==
  ASSUME NEW g, NEW total, Sizes(g, total), g.partition_lba + total <= Word
  PROVE  /\ UNION Parts(g) \subseteq g.partition_lba .. g.partition_lba + total - 1
         /\ \A a, b \in Parts(g) : a # b => a \cap b = {}
         /\ Cardinality(Parts(g)) = 1 + g.fat_count + g.cluster_count
  <1> DEFINE n == g.fat_count + g.cluster_count
             S == [j \in 0 .. n + 1 |-> PartStart(g, j)]
             P == [j \in 0 .. n |-> PartOf(g, j)]
  <1>1. n \in Nat /\ 1 + n = 1 + g.fat_count + g.cluster_count /\ n + 1 = 1 + g.fat_count + g.cluster_count
        /\ g.partition_lba \in Nat /\ total \in Nat
    BY DEF Sizes
  <1>2. Parts(g) = {P[j] : j \in 0 .. n}
    BY PartsAre
  <1>3. \A j \in 0 .. n + 1 : S[j] \in Nat /\ g.partition_lba <= S[j] /\ S[j] <= g.partition_lba + total
    BY <1>1, StartsAscend
  <1>4. \A i, j \in 0 .. n + 1 : i < j => S[i] < S[j]
    BY <1>1, StartsAscend
  <1>5. \A j \in 0 .. n : P[j] = S[j] .. S[j + 1] - 1
    <2>1. \A j \in 0 .. n : j \in 0 .. n + 1 /\ j + 1 \in 0 .. n + 1
      BY <1>1
    <2> QED BY <2>1 DEF PartOf
  <1> HIDE DEF n, S, P
  <1>6. \A j \in 0 .. n : S[j] \in P[j] /\ P[j] \subseteq g.partition_lba .. g.partition_lba + total - 1
    <2> SUFFICES ASSUME NEW j \in 0 .. n
                 PROVE  S[j] \in P[j] /\ P[j] \subseteq g.partition_lba .. g.partition_lba + total - 1
      OBVIOUS
    <2>1. j \in 0 .. n + 1 /\ j + 1 \in 0 .. n + 1 /\ j < j + 1
      BY <1>1
    <2>2. S[j] < S[j + 1] /\ S[j] \in Nat /\ S[j + 1] \in Nat /\ g.partition_lba <= S[j]
          /\ S[j + 1] <= g.partition_lba + total
      BY <1>3, <1>4, <2>1
    <2>3. P[j] = S[j] .. S[j + 1] - 1
      BY <1>5
    <2>4. \A a, b, l, h \in Nat : l <= a /\ a < b /\ b <= h => a \in a .. b - 1 /\ a .. b - 1 \subseteq l .. h - 1
      OBVIOUS
    <2>5. g.partition_lba + total \in Nat
      BY <1>1
    <2>6. /\ S[j] \in S[j] .. S[j + 1] - 1
          /\ S[j] .. S[j + 1] - 1 \subseteq g.partition_lba .. g.partition_lba + total - 1
      BY ONLY <1>1, <2>2, <2>4, <2>5
    <2> QED BY ONLY <2>3, <2>6, Zenon
  <1>7. \A i, j \in 0 .. n : i < j => P[i] \cap P[j] = {}
    <2> SUFFICES ASSUME NEW i \in 0 .. n, NEW j \in 0 .. n, i < j, NEW x \in P[i], x \in P[j] PROVE FALSE
      OBVIOUS
    <2>1. i + 1 \in 0 .. n + 1 /\ j \in 0 .. n + 1 /\ i \in 0 .. n + 1 /\ j + 1 \in 0 .. n + 1
          /\ (i + 1 = j \/ i + 1 < j)
      BY <1>1
    <2>2. S[i + 1] <= S[j] /\ S[i + 1] \in Nat /\ S[j] \in Nat /\ S[i] \in Nat /\ S[j + 1] \in Nat
      BY <1>3, <1>4, <2>1
    <2>3. x \in S[i] .. S[i + 1] - 1 /\ x \in S[j] .. S[j + 1] - 1
      BY <1>5
    <2> QED BY <2>2, <2>3
  <1>8. \A i, j \in 0 .. n : i # j => P[i] \cap P[j] = {}
    <2>1. \A i, j \in 0 .. n : i # j => i < j \/ j < i
      BY <1>1
    <2> QED BY <1>7, <2>1
  <1>9. Cardinality(Parts(g)) = n + 1
    <2> DEFINE f == [k \in 1 .. n + 1 |-> P[k - 1]]
    <2>1. f \in [1 .. n + 1 -> Parts(g)]
      <3>1. \A k \in 1 .. n + 1 : k - 1 \in 0 .. n
        BY <1>1
      <3> QED BY <1>2, <3>1
    <2>2. f \in Injection(1 .. n + 1, Parts(g))
      <3>1. ASSUME NEW i \in 1 .. n + 1, NEW j \in 1 .. n + 1, f[i] = f[j] PROVE i = j
        <4>1. i - 1 \in 0 .. n /\ j - 1 \in 0 .. n /\ (i - 1 = j - 1 => i = j)
          BY <1>1
        <4>2. P[i - 1] = P[j - 1]
          BY <3>1
        <4> QED BY <1>6, <1>8, <4>1, <4>2
      <3> QED BY <2>1, <3>1 DEF Injection, IsInjective
    <2>3. f \in Surjection(1 .. n + 1, Parts(g))
      <3>1. ASSUME NEW x \in Parts(g) PROVE \E k \in 1 .. n + 1 : f[k] = x
        <4>1. PICK j \in 0 .. n : x = P[j]
          BY <1>2
        <4>2. j + 1 \in 1 .. n + 1 /\ (j + 1) - 1 = j
          BY <1>1
        <4>3. f[j + 1] = x
          BY <4>1, <4>2
        <4> QED BY <4>2, <4>3
      <3> QED BY <2>1, <3>1 DEF Surjection
    <2>4. ExistsBijection(1 .. n + 1, Parts(g))
      BY <2>2, <2>3 DEF ExistsBijection, Bijection
    <2> QED BY <1>1, <2>4, FS_CountingElements
  <1>10. UNION Parts(g) \subseteq g.partition_lba .. g.partition_lba + total - 1
    BY <1>2, <1>6
  <1>11. \A a, b \in Parts(g) : a # b => a \cap b = {}
    BY <1>2, <1>8
  <1> QED BY <1>1, <1>9, <1>10, <1>11

-----------------------------------------------------------------------------
(* Where the entries of the table are.                                     *)

LEMMA EntriesApart ==
  ASSUME NEW g, NEW total, Sizes(g, total),
         NEW k \in 0 .. g.fat_count - 1, NEW l \in 0 .. g.fat_count - 1, NEW c \in Nat, NEW d \in Nat,
         FatSector(c) < g.sectors_per_fat, FatSector(d) < g.sectors_per_fat
  PROVE  /\ FatLba(g, k, c) \in Nat /\ FatLba(g, k, c) \in CopyOf(g, k)
         /\ c % PerSector \in 0 .. PerSector - 1
         /\ k < l => FatLba(g, k, c) < FatLba(g, l, d)
         /\ FatLba(g, k, c) = FatLba(g, k, d) /\ c % PerSector = d % PerSector => c = d
  <1> DEFINE x == k * g.sectors_per_fat
             y == l * g.sectors_per_fat
             s == FatSector(c)
             t == FatSector(d)
  <1>1. /\ g.fat_start_lba \in Nat /\ g.sectors_per_fat \in Nat \ {0} /\ g.fat_count \in Nat
        /\ k \in Nat /\ l \in Nat
    BY DEF Sizes
  <1>2. x \in Nat /\ y \in Nat /\ (k < l => x + g.sectors_per_fat <= y)
    BY <1>1, Scaled
  <1>3. /\ s \in Nat /\ t \in Nat /\ s < g.sectors_per_fat /\ t < g.sectors_per_fat
        /\ c % PerSector \in 0 .. PerSector - 1
        /\ c = s * PerSector + (c % PerSector) /\ d = t * PerSector + (d % PerSector)
    BY Division, WordAssumption DEF FatSector
  <1>4. /\ FatLba(g, k, c) = g.fat_start_lba + x + s /\ FatLba(g, k, d) = g.fat_start_lba + x + t
        /\ FatLba(g, l, d) = g.fat_start_lba + y + t
        /\ CopyOf(g, k) = g.fat_start_lba + x .. g.fat_start_lba + x + g.sectors_per_fat - 1
    BY DEF FatLba, CopyOf
  <1> HIDE DEF x, y, s, t
  <1>5. s = t /\ c % PerSector = d % PerSector => c = d
    BY <1>3
  <1>6. s \in Nat /\ t \in Nat /\ s < g.sectors_per_fat /\ t < g.sectors_per_fat
    BY <1>3
  <1> DEFINE a == g.fat_start_lba
             n == g.sectors_per_fat
  <1>7. FatLba(g, k, c) \in Nat /\ FatLba(g, k, c) \in CopyOf(g, k)
    <2>1. FatLba(g, k, c) = a + x + s /\ CopyOf(g, k) = a + x .. a + x + n - 1
      BY <1>4
    <2>2. a \in Nat /\ x \in Nat /\ s \in Nat /\ n \in Nat /\ s < n
      BY <1>1, <1>2, <1>6
    <2> HIDE DEF a, n
    <2>3. a + x + s \in Nat /\ a + x + s \in a + x .. a + x + n - 1
      BY ONLY <2>2
    <2> QED BY ONLY <2>1, <2>3, Zenon
  <1>8. k < l => FatLba(g, k, c) < FatLba(g, l, d)
    <2>1. FatLba(g, k, c) = a + x + s /\ FatLba(g, l, d) = a + y + t
      BY <1>4
    <2>2. a \in Nat /\ x \in Nat /\ y \in Nat /\ s \in Nat /\ t \in Nat /\ n \in Nat /\ s < n
          /\ (k < l => x + n <= y)
      BY <1>1, <1>2, <1>6
    <2> HIDE DEF a, n
    <2>3. k < l => a + x + s < a + y + t
      BY ONLY <2>2
    <2> QED BY ONLY <2>1, <2>3, Zenon
  <1>9. FatLba(g, k, c) = FatLba(g, k, d) => s = t
    BY ONLY <1>1, <1>2, <1>4, <1>6
  <1> QED BY <1>3, <1>5, <1>7, <1>8, <1>9
-----------------------------------------------------------------------------
(* What the variables are.                                                 *)

Transferring == {"readData", "writeReady", "writeData", "flush", "flushed"}
Called ==
  /\ call # NoCall => /\ filesystem.mounted
                      /\ call \in [cluster : ClustersOf(filesystem), value : Values]
                      /\ InTable(call.cluster) /\ fat_index \in 0 .. filesystem.fat_count - 1
  /\ at \in Transferring => Addressable
  /\ at \in {"halted", "idle"} => fat_index = 0

(* The sector of the copy the call is at.                                  *)
LEMMA HereIs ==
  ASSUME Mounted, VolumeTypeOK, Called, call # NoCall
  PROVE  /\ Sizes(filesystem, volume.total)
         /\ call.cluster \in Nat /\ call.value \in Values /\ Here \in Nat
         /\ call.cluster % PerSector \in 0 .. PerSector - 1
         /\ Addressable => Here \in Disk
         /\ FatSector(call.cluster) < filesystem.sectors_per_fat
         /\ Here = FatLba(filesystem, fat_index, call.cluster)
         /\ fat_index \in 0 .. filesystem.fat_count - 1
  <1>1. Sizes(filesystem, volume.total)
    BY MountedSizes DEF Called
  <1>2. /\ call.cluster \in Nat /\ call.value \in Values
        /\ FatSector(call.cluster) < filesystem.sectors_per_fat
        /\ fat_index \in 0 .. filesystem.fat_count - 1
    BY <1>1 DEF Called, InTable, Sizes, ClustersOf
  <1>3. Here \in Nat /\ call.cluster % PerSector \in 0 .. PerSector - 1
    BY <1>1, <1>2, EntriesApart DEF Here
  <1>4. Addressable => Here \in Disk
    BY <1>3, DriveAssumption, WordAssumption DEF Addressable, Disk
  <1> QED BY <1>1, <1>2, <1>3, <1>4 DEF Here

LEMMA ConstantsTyped == 0 \in Disk /\ Zeros \in Sector
                        /\ NoCommand \in [status : {"idle", "busy", "request"}, lba : Disk, data : Sector,
                                          command : {"none", "read", "write", "store", "flush"}]
  <1>1. 0 \in Disk /\ 0 \in Values
    BY DriveAssumption, WordAssumption DEF Disk
  <1>2. Zeros \in Sector
    BY <1>1 DEF Zeros, Sector
  <1> QED BY <1>1, <1>2 DEF NoCommand

Driving == [status : {"idle", "busy", "request"}, lba : Disk, data : Sector,
            command : {"none", "read", "write", "store", "flush"}]

LEMMA CommandedTyped ==
  ASSUME drive \in Driving, NEW command \in {"read", "write", "flush"}, NEW lba \in Disk, Commanded(command, lba)
  PROVE  /\ drive' \in Driving
         /\ drive.status = "idle" => /\ drive'.status = "busy" /\ drive'.command = command /\ drive'.lba = lba
         /\ drive.status = "busy" => drive' = drive
  BY ConstantsTyped DEF Commanded, NoCommand, Driving

LEMMA TypesInit == Init => Mounted /\ VolumeTypeOK /\ Called
  <1> SUFFICES ASSUME Init PROVE Mounted /\ VolumeTypeOK /\ Called
    OBVIOUS
  <1>1. Mounted /\ call = NoCall /\ at \in {"idle", "halted"} /\ fat_index = 0
    BY DEF Init, Mounted
  <1>2. Called
    BY <1>1 DEF Called, Transferring
  <1>3. disk \in [Disk -> Sector]
    BY ConstantsTyped DEF Init
  <1>4. calls \in 0 .. MaxCalls /\ fat_index \in Nat /\ drive = NoCommand /\ sector = Zeros
        /\ ret = FALSE /\ error = FALSE /\ late = FALSE
    BY DriveAssumption DEF Init
  <1> QED BY <1>1, <1>2, <1>3, <1>4, ConstantsTyped DEF VolumeTypeOK

(* A call that ends, and one that goes on to another place.                *)
LEMMA EndsTyped ==
  ASSUME VolumeTypeOK, NEW result \in BOOLEAN, Return(result), late' \in BOOLEAN,
         UNCHANGED <<volume, filesystem, calls, disk, drive, error>>
  PROVE  VolumeTypeOK' /\ Called'
  BY ConstantsTyped DEF Return, VolumeTypeOK, Called, Transferring

LEMMA GoesOnTyped ==
  ASSUME VolumeTypeOK, Called, call # NoCall, at' \in Transferring \cup {"readReady"}, UNCHANGED <<filesystem, call, fat_index>>,
         at' \in Transferring => Addressable,
         calls' = calls, ret' \in BOOLEAN, late' \in BOOLEAN, error' \in BOOLEAN,
         sector' \in Sector, disk' \in [Disk -> Sector], drive' \in Driving
  PROVE  VolumeTypeOK' /\ Called'
  BY DEF VolumeTypeOK, Called, Transferring, InTable, Addressable, Here, Driving

LEMMA TypesRequest ==
  ASSUME Mounted, VolumeTypeOK, Called, Request
  PROVE  VolumeTypeOK' /\ Called'
  <1>1. PICK cluster \in ClustersOf(filesystem), value \in Values : fat32_write_fat_entry(cluster, value)
    BY DEF Request
  <1>2. Sizes(filesystem, volume.total) /\ filesystem.mounted
    BY MountedSizes DEF Request
  <1>3. filesystem.fat_count \in Nat \ {0} /\ cluster \in Nat
    BY <1>2 DEF Sizes, ClustersOf
  <1>4. at = "idle" /\ call = NoCall /\ fat_index = 0 /\ calls' \in 0 .. MaxCalls
    BY <1>1, DriveAssumption DEF fat32_write_fat_entry, VolumeTypeOK, Called
  <1>5. CASE InTable(cluster)
    <2>1. /\ call' = [cluster |-> cluster, value |-> value] /\ at' = "readReady"
          /\ UNCHANGED <<fat_index, sector, ret, volume, filesystem, disk, drive, error, late>>
      BY <1>1, <1>5 DEF fat32_write_fat_entry
    <2>2. call' # NoCall
      BY <1>3, <2>1, DriveAssumption
    <2>3. VolumeTypeOK'
      BY <1>4, <2>1, <2>2 DEF VolumeTypeOK
    <2>4. call' \in [cluster : ClustersOf(filesystem), value : Values] /\ call'.cluster = cluster
          /\ fat_index' \in 0 .. filesystem.fat_count - 1
      BY <1>3, <1>4, <2>1
    <2> QED BY <1>2, <1>5, <2>1, <2>3, <2>4 DEF Called, InTable, Transferring
  <1>6. CASE ~InTable(cluster)
    <2>1. ret' = FALSE /\ UNCHANGED <<call, at, fat_index, sector, volume, filesystem, disk, drive, error, late>>
      BY <1>1, <1>6 DEF fat32_write_fat_entry
    <2>2. VolumeTypeOK'
      BY <1>4, <2>1 DEF VolumeTypeOK
    <2>3. Called'
      BY <1>4, <2>1 DEF Called, VolumeTypeOK, Transferring
    <2> QED BY <2>2, <2>3
  <1> QED BY <1>5, <1>6

(* Changing an entry of a sector leaves a sector.                          *)
LEMMA ChangedTyped ==
  ASSUME NEW s \in Sector, NEW i \in 0 .. PerSector - 1, NEW v \in Values
  PROVE  /\ [s EXCEPT ![i] = v] \in Sector /\ [s EXCEPT ![i] = v][i] = v
         /\ \A j \in 0 .. PerSector - 1 : j # i => [s EXCEPT ![i] = v][j] = s[j]
  BY DEF Sector

LEMMA TypesDriver ==
  ASSUME Mounted, VolumeTypeOK, Called, Driver
  PROVE  VolumeTypeOK' /\ Called'
  <1>1. call # NoCall
    BY DEF Driver, GivesUp, SendRead, TakeData, SendWrite, GiveData, SendFlush, Written, VolumeTypeOK
  <1>2. /\ drive \in Driving /\ late \in BOOLEAN /\ error \in BOOLEAN /\ ret \in BOOLEAN
        /\ sector \in Sector /\ disk \in [Disk -> Sector]
    BY DEF VolumeTypeOK, Driving
  <1>3. CASE GivesUp
    <2>1. late' \in BOOLEAN
      BY <1>2, <1>3 DEF GivesUp
    <2> QED BY <1>3, <2>1, EndsTyped DEF GivesUp
  <1>4. CASE SendRead
    <2>1. drive' \in Driving
      BY <1>1, <1>2, <1>4, HereIs, CommandedTyped DEF SendRead
    <2>2. /\ at' = "readData" /\ Addressable
          /\ UNCHANGED <<filesystem, call, fat_index, sector, ret, calls, disk, error, late>>
      BY <1>4 DEF SendRead
    <2> QED BY <1>1, <1>2, <2>1, <2>2, GoesOnTyped DEF Transferring
  <1>5. CASE TakeData
    <2>1. drive.data \in Sector
      BY <1>2 DEF Driving
    <2>2. sector' \in Sector
      BY <1>1, <1>5, <2>1, HereIs, ChangedTyped DEF TakeData, Changed
    <2>3. /\ at' = "writeReady" /\ Addressable /\ drive' \in Driving
          /\ UNCHANGED <<filesystem, call, fat_index, ret, calls, disk, error, late>>
      BY <1>5, ConstantsTyped DEF TakeData, Called, Transferring, Driving
    <2> QED BY <1>1, <1>2, <2>2, <2>3, GoesOnTyped DEF Transferring
  <1>6. CASE SendWrite
    <2>1. drive' \in Driving
      BY <1>1, <1>2, <1>6, HereIs, CommandedTyped DEF SendWrite
    <2>2. /\ at' = "writeData" /\ Addressable
          /\ UNCHANGED <<filesystem, call, fat_index, sector, ret, calls, disk, error, late>>
      BY <1>6 DEF SendWrite
    <2> QED BY <1>1, <1>2, <2>1, <2>2, GoesOnTyped DEF Transferring
  <1>7. CASE GiveData
    <2>1. drive' \in Driving
      BY <1>2, <1>7 DEF GiveData, Driving
    <2>2. /\ at' = "flush" /\ Addressable
          /\ UNCHANGED <<filesystem, call, fat_index, sector, ret, calls, disk, error, late>>
      BY <1>7 DEF GiveData, Called, Transferring
    <2> QED BY <1>1, <1>2, <2>1, <2>2, GoesOnTyped DEF Transferring
  <1>8. CASE SendFlush
    <2>1. drive' \in Driving
      BY <1>2, <1>8, ConstantsTyped, CommandedTyped DEF SendFlush
    <2>2. /\ at' = "flushed" /\ Addressable
          /\ UNCHANGED <<filesystem, call, fat_index, sector, ret, calls, disk, error, late>>
      BY <1>8 DEF SendFlush, Called, Transferring
    <2> QED BY <1>1, <1>2, <2>1, <2>2, GoesOnTyped DEF Transferring
  <1>9. CASE Written
    <2>1. UNCHANGED <<volume, filesystem, calls, disk, drive, error, late>>
      BY <1>9 DEF Written
    <2>2. CASE fat_index + 1 < filesystem.fat_count
      <3>1. fat_index' = fat_index + 1 /\ at' = "readReady" /\ UNCHANGED <<call, ret, sector>>
        BY <1>9, <2>2 DEF Written
      <3>2. fat_index' \in Nat /\ fat_index' \in 0 .. filesystem.fat_count - 1
        <4>1. filesystem.fat_count \in Nat /\ fat_index \in Nat
          BY <1>1, HereIs DEF Sizes
        <4> QED BY <2>2, <3>1, <4>1
      <3>3. VolumeTypeOK'
        BY <1>1, <2>1, <3>1, <3>2 DEF VolumeTypeOK
      <3>4. Called'
        BY <1>1, <2>1, <3>1, <3>2 DEF Called, Transferring, InTable
      <3> QED BY <3>3, <3>4
    <2>3. CASE ~(fat_index + 1 < filesystem.fat_count)
      <3>1. Return(TRUE)
        BY <1>9, <2>3 DEF Written
      <3> QED BY <1>2, <2>1, <3>1, EndsTyped
    <2> QED BY <2>2, <2>3
  <1> QED BY <1>3, <1>4, <1>5, <1>6, <1>7, <1>8, <1>9 DEF Driver

LEMMA TypesDrive ==
  ASSUME Mounted, VolumeTypeOK, Called, DriveWorks
  PROVE  VolumeTypeOK' /\ Called'
  <1>1. UNCHANGED <<volume, filesystem, call, fat_index, sector, at, ret, calls, late>>
    BY DEF DriveWorks
  <1>2. drive \in Driving /\ disk \in [Disk -> Sector] /\ error \in BOOLEAN
    BY DEF VolumeTypeOK, Driving
  <1>3. drive.lba \in Disk /\ drive.data \in Sector /\ disk[drive.lba] \in Sector
    BY <1>2 DEF Driving
  <1>4. disk' \in [Disk -> Sector]
    BY <1>2, <1>3 DEF DriveWorks
  <1>5. drive' \in Driving
    BY <1>2, <1>3, ConstantsTyped DEF DriveWorks, Driving
  <1>6. error' \in BOOLEAN
    BY <1>2 DEF DriveWorks
  <1>7. VolumeTypeOK'
    BY <1>1, <1>4, <1>5, <1>6 DEF VolumeTypeOK, Driving
  <1>8. Called'
    BY <1>1 DEF Called, InTable, Addressable, Here
  <1> QED BY <1>7, <1>8

LEMMA TypesStep ==
  ASSUME Mounted, VolumeTypeOK, Called, [Next]_vars
  PROVE  Mounted' /\ VolumeTypeOK' /\ Called'
  <1>1. UNCHANGED <<volume, filesystem>>
    BY DEF Next, Request, fat32_write_fat_entry, Driver, GivesUp, SendRead, TakeData, SendWrite, GiveData, SendFlush,
           Written, DriveWorks, vars
  <1>2. Mounted'
    BY <1>1 DEF Mounted
  <1>3. CASE UNCHANGED vars
    BY <1>2, <1>3 DEF vars, VolumeTypeOK, Called, InTable, Addressable, Here
  <1> QED BY <1>2, <1>3, TypesRequest, TypesDriver, TypesDrive DEF Next

-----------------------------------------------------------------------------
(* As long as no transfer was given up too early: what the drive is at,    *)
(* for each place the driver can be in.  A command to flush may still be   *)
(* under way when the next call begins; it is waited for.                  *)

Patched(s) == [s EXCEPT ![call.cluster % PerSector] = call.value]

Drive ==
  /\ drive.status = "idle" <=> drive.command = "none"
  /\ drive.command \in {"store", "flush"} => drive.status = "busy"
  /\ error => drive.command \in {"none", "flush"}

Transfer(place, command) ==
  at = place => /\ drive.command \in {command, "none"}
                /\ drive.command = "none" => error
                /\ drive.command = command => drive.lba = Here

UnderWay ==
  /\ at \in {"halted", "idle", "readReady", "writeReady"} => drive.command \in {"none", "flush"}
  /\ Transfer("readData", "read") /\ Transfer("writeData", "write")
  /\ at = "readData" /\ drive.status = "request" => drive.data = disk[Here]
  /\ at \in {"writeReady", "writeData"} => sector = Patched(disk[Here])
  /\ at \in {"flush", "flushed"} =>
       /\ drive.command \in {"store", "flush", "none"}
       /\ sector[call.cluster % PerSector] = call.value
       /\ drive.command = "store" => drive.lba = Here /\ drive.data = sector /\ sector = Patched(disk[Here])
       /\ drive.command # "store" /\ ~error => disk[Here] = sector

(* The copies the call has come past hold the entry.                       *)
CopiesWritten == call # NoCall => \A k \in 0 .. fat_index - 1 : EntryIn(k, call.cluster) = call.value

Timely == ~late => Drive /\ UnderWay /\ CopiesWritten
Types == Mounted /\ VolumeTypeOK /\ Called

LEMMA TimelyInit == Init => Timely
  <1> SUFFICES ASSUME Init PROVE Drive /\ UnderWay /\ CopiesWritten
    BY DEF Timely
  <1>1. /\ drive.status = "idle" /\ drive.command = "none" /\ at \in {"idle", "halted"} /\ call = NoCall
        /\ error = FALSE
    BY DEF Init, NoCommand
  <1> QED BY <1>1 DEF Drive, UnderWay, Transfer, CopiesWritten

(* What does not touch the call.                                           *)
LEMMA CallKept ==
  ASSUME UNCHANGED <<filesystem, call, fat_index>>
  PROVE  /\ Here' = Here
         /\ \A s : Patched(s)' = [s' EXCEPT ![call.cluster % PerSector] = call.value]
  BY DEF Here, Patched

LEMMA TimelyDrive ==
  ASSUME Types, Timely, ~late, DriveWorks
  PROVE  Drive' /\ UnderWay' /\ CopiesWritten'
  <1>1. UNCHANGED <<volume, filesystem, call, fat_index, sector, at, ret, calls, late>>
    BY DEF DriveWorks
  <1>2. Drive /\ UnderWay /\ CopiesWritten
    BY DEF Timely
  <1>3. Here' = Here
    BY <1>1 DEF Here
  <1>4. /\ drive \in Driving /\ disk \in [Disk -> Sector] /\ error \in BOOLEAN
        /\ at \in {"halted", "idle", "readReady", "readData", "writeReady", "writeData", "flush", "flushed"}
    BY DEF Types, VolumeTypeOK, Driving
  <1>5. NoCommand.status = "idle" /\ NoCommand.command = "none"
    BY DEF NoCommand
  <1>6. CASE drive.command \in {"read", "write"} /\ drive.status = "busy" /\ UNCHANGED <<disk, error>>
             /\ drive' = [drive EXCEPT !.status = "request",
                            !.data = IF drive.command = "read" THEN disk[drive.lba] ELSE @]
    <2>1. /\ drive'.status = "request" /\ drive'.command = drive.command /\ drive'.lba = drive.lba
          /\ drive.command = "read" => drive'.data = disk[drive.lba]
      BY <1>4, <1>6 DEF Driving
    <2>2. Drive'
      BY <1>2, <1>6, <2>1 DEF Drive
    <2>3. UnderWay'
      BY <1>1, <1>2, <1>3, <1>6, <2>1 DEF UnderWay, Transfer, Patched
    <2>4. CopiesWritten'
      BY <1>1, <1>2, <1>6 DEF CopiesWritten, EntryIn
    <2> QED BY <2>2, <2>3, <2>4
  <1>7. CASE drive.command = "store" /\ drive' = NoCommand /\ error' \in {error, TRUE}
             /\ disk' = [disk EXCEPT ![drive.lba] = drive.data]
    <2>1. at \in {"flush", "flushed"}
      BY <1>2, <1>4, <1>7 DEF UnderWay, Transfer
    <2>2. call # NoCall /\ Addressable
      BY <2>1 DEF Types, VolumeTypeOK, Called, Transferring
    <2>3. drive.lba = Here /\ drive.data = sector /\ sector[call.cluster % PerSector] = call.value
      BY <1>2, <1>7, <2>1 DEF UnderWay
    <2>4. Here \in Disk
      BY <2>2, HereIs DEF Types
    <2>5. disk'[Here] = sector /\ \A lba \in Disk : lba # Here => disk'[lba] = disk[lba]
      BY <1>4, <1>7, <2>3, <2>4
    <2>6. Drive'
      BY <1>5, <1>7 DEF Drive
    <2>7. UnderWay'
      BY <1>1, <1>3, <1>5, <1>7, <2>1, <2>3, <2>5 DEF UnderWay, Transfer
    <2>8. ASSUME NEW k \in 0 .. fat_index - 1 PROVE EntryIn(k, call.cluster)' = call.value
      <3>1. /\ Sizes(filesystem, volume.total) /\ fat_index \in 0 .. filesystem.fat_count - 1
            /\ FatSector(call.cluster) < filesystem.sectors_per_fat /\ call.cluster \in Nat
            /\ Here = FatLba(filesystem, fat_index, call.cluster)
        BY <2>2, HereIs DEF Types
      <3>2. k \in 0 .. filesystem.fat_count - 1 /\ k < fat_index
        BY <3>1 DEF Sizes
      <3>3. FatLba(filesystem, k, call.cluster) \in Nat /\ FatLba(filesystem, k, call.cluster) < Here /\ Here \in Nat
        BY <3>1, <3>2, EntriesApart
      <3>4. FatLba(filesystem, k, call.cluster) < LbaLimit => FatLba(filesystem, k, call.cluster) \in Disk
        BY <3>3, DriveAssumption DEF Disk
      <3>5. EntryIn(k, call.cluster)' = EntryIn(k, call.cluster)
        <4>1. FatLba(filesystem, k, call.cluster) # Here
          BY <3>3
        <4> QED BY <1>1, <2>5, <3>4, <4>1 DEF EntryIn
      <3> QED BY <1>2, <2>2, <3>5 DEF CopiesWritten
    <2>9. CopiesWritten'
      BY <1>1, <2>8 DEF CopiesWritten
    <2> QED BY <2>6, <2>7, <2>9
  <1>8. CASE drive' = NoCommand /\ UNCHANGED disk
             /\ \/ drive.command = "flush" /\ UNCHANGED error
                \/ error' = TRUE
    <2>1. Drive'
      BY <1>5, <1>8 DEF Drive
    <2>2. UnderWay'
      BY <1>1, <1>2, <1>3, <1>5, <1>8 DEF UnderWay, Transfer, Patched
    <2>3. CopiesWritten'
      BY <1>1, <1>2, <1>8 DEF CopiesWritten, EntryIn
    <2> QED BY <2>1, <2>2, <2>3
  <1> QED BY <1>6, <1>7, <1>8 DEF DriveWorks

(* When the drive is ready again, this copy has the entry.                 *)
LEMMA WrittenHere ==
  ASSUME Types, Timely, ~late, Written
  PROVE  EntryIn(fat_index, call.cluster) = call.value
  <1>1. at = "flushed" /\ ~error /\ drive.status # "busy"
    BY DEF Written, WaitedReady
  <1>2. drive.command = "none" /\ disk[Here] = sector /\ sector[call.cluster % PerSector] = call.value
    BY <1>1 DEF Timely, UnderWay, Drive
  <1>3. Addressable
    BY <1>1 DEF Types, Called, Transferring
  <1> QED BY <1>2, <1>3 DEF EntryIn, Addressable, Here

LEMMA TimelyDriver ==
  ASSUME Types, Timely, Driver, ~late'
  PROVE  Drive' /\ UnderWay' /\ CopiesWritten'
  <1>1. call # NoCall
    BY DEF Types, Driver, GivesUp, SendRead, TakeData, SendWrite, GiveData, SendFlush, Written, VolumeTypeOK
  <1>2. /\ drive \in Driving /\ error \in BOOLEAN
        /\ at \in {"halted", "idle", "readReady", "readData", "writeReady", "writeData", "flush", "flushed"}
        /\ sector \in Sector /\ disk \in [Disk -> Sector]
    BY DEF Types, VolumeTypeOK, Driving
  <1>3. ~late
    BY DEF Driver, GivesUp, SendRead, TakeData, SendWrite, GiveData, SendFlush, Written
  <1>4. Drive /\ UnderWay /\ CopiesWritten
    BY <1>3 DEF Timely
  <1>5. /\ Sizes(filesystem, volume.total) /\ Here \in Nat /\ call.value \in Values
        /\ call.cluster % PerSector \in 0 .. PerSector - 1 /\ fat_index \in 0 .. filesystem.fat_count - 1
        /\ (Addressable => Here \in Disk) /\ call.cluster \in Nat
        /\ Here = FatLba(filesystem, fat_index, call.cluster)
    BY <1>1, HereIs DEF Types
  <1>6. ASSUME UNCHANGED <<filesystem, call, fat_index, disk>> PROVE CopiesWritten' /\ Here' = Here
    BY <1>4, <1>6 DEF CopiesWritten, EntryIn, Here
  <1>7. CASE GivesUp
    <2>1. /\ at' = "idle" /\ call' = NoCall /\ UNCHANGED <<drive, error, disk>>
      BY <1>7 DEF GivesUp, Return
    <2>2. drive.command \in {"none", "flush"}
      <3>1. CASE at \in {"readReady", "writeReady"}
        BY <1>4, <3>1 DEF UnderWay
      <3>2. CASE at \in {"readData", "writeData"}
        <4>1. error
          BY <1>7, <3>2 DEF GivesUp
        <4> QED BY <1>4, <3>2, <4>1 DEF UnderWay, Transfer, Drive
      <3>3. CASE at = "flushed"
        <4>1. drive.command # "store"
          BY <1>7, <3>3 DEF GivesUp
        <4> QED BY <1>4, <3>3, <4>1 DEF UnderWay
      <3> QED BY <1>7, <3>1, <3>2, <3>3 DEF GivesUp
    <2> QED BY <1>4, <2>1, <2>2 DEF Drive, UnderWay, Transfer, CopiesWritten
  <1>8. CASE SendRead
    <2>1. /\ at = "readReady" /\ at' = "readData" /\ ~error /\ drive.status # "busy" /\ Addressable
          /\ Commanded("read", Here)
          /\ UNCHANGED <<volume, filesystem, call, fat_index, sector, ret, calls, disk, error, late>>
      BY <1>8 DEF SendRead, WaitedReady
    <2>2. drive.status = "idle"
      BY <1>4, <2>1 DEF UnderWay, Drive
    <2>3. drive'.status = "busy" /\ drive'.command = "read" /\ drive'.lba = Here
      BY <1>2, <1>5, <2>1, <2>2, CommandedTyped
    <2> QED BY <1>6, <2>1, <2>3 DEF Drive, UnderWay, Transfer
  <1>9. CASE TakeData
    <2>1. /\ at = "readData" /\ at' = "writeReady" /\ ~error /\ drive.status = "request" /\ drive' = NoCommand
          /\ sector' = Changed
          /\ UNCHANGED <<volume, filesystem, call, fat_index, ret, calls, disk, error, late>>
      BY <1>9 DEF TakeData, WaitedData
    <2>2. drive.data = disk[Here]
      BY <1>4, <2>1 DEF UnderWay
    <2>3. drive'.status = "idle" /\ drive'.command = "none"
      BY <2>1 DEF NoCommand
    <2>4. sector' = Patched(disk[Here])'
      BY <1>6, <2>1, <2>2 DEF Changed, Patched
    <2> QED BY <1>6, <2>1, <2>3, <2>4 DEF Drive, UnderWay, Transfer
  <1>10. CASE SendWrite
    <2>1. /\ at = "writeReady" /\ at' = "writeData" /\ ~error /\ drive.status # "busy" /\ Addressable
          /\ Commanded("write", Here)
          /\ UNCHANGED <<volume, filesystem, call, fat_index, sector, ret, calls, disk, error, late>>
      BY <1>10 DEF SendWrite, WaitedReady
    <2>2. drive.status = "idle" /\ sector = Patched(disk[Here])
      BY <1>4, <2>1 DEF UnderWay, Drive
    <2>3. drive'.status = "busy" /\ drive'.command = "write" /\ drive'.lba = Here
      BY <1>2, <1>5, <2>1, <2>2, CommandedTyped
    <2>4. sector' = Patched(disk[Here])'
      BY <1>6, <2>1, <2>2 DEF Patched
    <2> QED BY <1>6, <2>1, <2>3, <2>4 DEF Drive, UnderWay, Transfer
  <1>11. CASE GiveData
    <2>1. /\ at = "writeData" /\ at' = "flush" /\ ~error /\ drive.status = "request"
          /\ drive' = [drive EXCEPT !.status = "busy", !.command = "store", !.data = sector]
          /\ UNCHANGED <<volume, filesystem, call, fat_index, sector, ret, calls, disk, error, late>>
      BY <1>11 DEF GiveData, WaitedData
    <2>2. drive.lba = Here /\ sector = Patched(disk[Here])
      BY <1>4, <2>1 DEF UnderWay, Transfer
    <2>3. drive'.status = "busy" /\ drive'.command = "store" /\ drive'.lba = Here /\ drive'.data = sector
      BY <1>2, <2>1, <2>2 DEF Driving
    <2>4. sector' = Patched(disk[Here])'
      BY <1>6, <2>1, <2>2 DEF Patched
    <2>5. sector[call.cluster % PerSector] = call.value
      <3>1. Here \in Disk
        BY <1>5, <2>1 DEF Types, Called, Transferring
      <3>2. disk[Here] \in Sector
        BY <1>2, <3>1
      <3> QED BY <1>5, <2>2, <3>2, ChangedTyped DEF Patched
    <2> QED BY <1>6, <2>1, <2>3, <2>4, <2>5 DEF Drive, UnderWay, Transfer
  <1>12. CASE SendFlush
    <2>1. /\ at = "flush" /\ at' = "flushed" /\ Commanded("flush", 0)
          /\ UNCHANGED <<volume, filesystem, call, fat_index, sector, ret, calls, disk, error, late>>
      BY <1>12 DEF SendFlush
    <2>2. \/ drive.status = "busy" /\ drive' = drive
          \/ /\ drive.command = "none" /\ drive.status = "idle"
             /\ drive'.status = "busy" /\ drive'.command = "flush"
      BY <1>2, <1>4, <2>1, ConstantsTyped, CommandedTyped DEF UnderWay, Drive
    <2>3. Drive'
      BY <1>4, <2>1, <2>2 DEF Drive
    <2>4. UnderWay'
      <3>1. Patched(disk[Here])' = Patched(disk[Here])
        BY <1>6, <2>1 DEF Patched
      <3> QED BY <1>4, <1>6, <2>1, <2>2, <3>1 DEF UnderWay, Transfer
    <2> QED BY <1>6, <2>1, <2>3, <2>4
  <1>13. CASE Written
    <2>1. /\ at = "flushed" /\ ~error /\ drive.status # "busy"
          /\ UNCHANGED <<volume, filesystem, calls, disk, drive, error, late>>
      BY <1>13 DEF Written, WaitedReady
    <2>2. drive.command = "none"
      BY <1>4, <2>1 DEF UnderWay, Drive
    <2>3. at' \in {"idle", "readReady"}
      BY <1>13 DEF Written, Return
    <2>4. Drive' /\ UnderWay'
      BY <1>4, <2>1, <2>2, <2>3 DEF Drive, UnderWay, Transfer
    <2>5. EntryIn(fat_index, call.cluster) = call.value
      BY <1>3, <1>13, WrittenHere
    <2>6. CASE fat_index + 1 < filesystem.fat_count
      <3>1. fat_index' = fat_index + 1 /\ call' = call
        BY <1>13, <2>6 DEF Written
      <3>2. \A k \in 0 .. fat_index' - 1 : k = fat_index \/ k \in 0 .. fat_index - 1
        BY <1>5, <3>1
      <3>3. \A k : EntryIn(k, call.cluster)' = EntryIn(k, call.cluster)
        BY <2>1, <3>1 DEF EntryIn
      <3> QED BY <1>4, <2>1, <2>4, <2>5, <3>1, <3>2, <3>3 DEF CopiesWritten, EntryIn
    <2>7. CASE ~(fat_index + 1 < filesystem.fat_count)
      <3>1. call' = NoCall
        BY <1>13, <2>7 DEF Written, Return
      <3> QED BY <2>4, <3>1 DEF CopiesWritten
    <2> QED BY <2>6, <2>7
  <1> QED BY <1>7, <1>8, <1>9, <1>10, <1>11, <1>12, <1>13 DEF Driver

LEMMA TimelyRequest ==
  ASSUME Types, Timely, Request, ~late
  PROVE  Drive' /\ UnderWay' /\ CopiesWritten'
  <1>1. at = "idle" /\ at' \in {"idle", "readReady"} /\ UNCHANGED <<fat_index, drive, disk, error>>
    BY DEF Request, fat32_write_fat_entry
  <1>2. fat_index = 0
    BY <1>1 DEF Types, Called
  <1>3. Drive /\ UnderWay
    BY DEF Timely
  <1>4. \A k \in 0 .. fat_index' - 1 : FALSE
    BY <1>1, <1>2
  <1>5. CopiesWritten'
    BY <1>4 DEF CopiesWritten
  <1> QED BY <1>1, <1>3, <1>5 DEF Drive, UnderWay, Transfer

LEMMA TimelyStep ==
  ASSUME Types, Timely, [Next]_vars
  PROVE  Timely'
  <1> SUFFICES ASSUME ~late' PROVE Drive' /\ UnderWay' /\ CopiesWritten'
    BY DEF Timely
  <1>1. CASE UNCHANGED vars
    BY <1>1 DEF vars, Timely, Drive, UnderWay, Transfer, CopiesWritten, EntryIn, Here, Patched
  <1>2. CASE Request
    <2>1. ~late
      BY <1>2 DEF Request, fat32_write_fat_entry
    <2> QED BY <1>2, <2>1, TimelyRequest
  <1>3. CASE DriveWorks
    <2>1. ~late
      BY <1>3 DEF DriveWorks
    <2> QED BY <1>3, <2>1, TimelyDrive
  <1>4. CASE Driver
    BY <1>4, TimelyDriver
  <1> QED BY <1>1, <1>2, <1>3, <1>4 DEF Next

Inv == Types /\ Timely

LEMMA VolumeInv == Spec => []Inv
  <1>1. Init => Inv
    BY TypesInit, TimelyInit DEF Inv, Types
  <1>2. Inv /\ [Next]_vars => Inv'
    BY TypesStep, TimelyStep DEF Inv, Types
  <1> QED BY <1>1, <1>2, PTL DEF Spec

-----------------------------------------------------------------------------
(* Wherever mounting puts them, the parts of a volume are apart from one   *)
(* another, complete, and inside the partition: for every boot sector that *)
(* it accepts, with any number of copies of a table of any size.           *)
THEOREM VolumeLayoutSound == Spec => []LayoutSound
  <1>1. Inv => LayoutSound
    <2> SUFFICES ASSUME Inv, filesystem.mounted, filesystem.partition_lba + volume.total <= Word
                 PROVE  /\ filesystem.root_cluster \in ClustersOf(filesystem)
                        /\ UNION Parts(filesystem)
                             \subseteq filesystem.partition_lba .. filesystem.partition_lba + volume.total - 1
                        /\ \A a, b \in Parts(filesystem) : a # b => a \cap b = {}
                        /\ Cardinality(Parts(filesystem)) = 1 + filesystem.fat_count + filesystem.cluster_count
      BY DEF LayoutSound, Inv, Types, Parts
    <2>1. Sizes(filesystem, volume.total)
      BY MountedSizes DEF Inv, Types
    <2> QED BY <2>1, PartsSound DEF Sizes
  <1> QED BY <1>1, VolumeInv, PTL
-----------------------------------------------------------------------------
(* What the drive's storing does, the only step that changes the disk.     *)

LEMMA DiskChanges ==
  ASSUME Inv, [Next]_vars, ~late', disk' # disk
  PROVE  /\ DriveWorks /\ call # NoCall /\ Here \in Disk
         /\ disk' = [disk EXCEPT ![Here] = Patched(disk[Here])]
         /\ UNCHANGED <<filesystem, call, ret, fat_index>>
  <1>1. DriveWorks /\ drive.command = "store" /\ disk' = [disk EXCEPT ![drive.lba] = drive.data]
    BY DEF Next, Request, fat32_write_fat_entry, Driver, GivesUp, SendRead, TakeData, SendWrite, GiveData, SendFlush,
           Written, DriveWorks, vars
  <1>2. ~late /\ UNCHANGED <<filesystem, call, ret, fat_index>>
    BY <1>1 DEF DriveWorks
  <1>3. at \in {"flush", "flushed"}
    BY <1>1, <1>2 DEF Inv, Types, VolumeTypeOK, Timely, UnderWay, Transfer
  <1>4. call # NoCall /\ Addressable
    BY <1>3 DEF Inv, Types, VolumeTypeOK, Called, Transferring
  <1>5. drive.lba = Here /\ drive.data = Patched(disk[Here])
    BY <1>1, <1>2, <1>3 DEF Inv, Timely, UnderWay
  <1>6. Here \in Disk
    BY <1>4, HereIs DEF Inv, Types
  <1> QED BY <1>1, <1>2, <1>4, <1>5, <1>6

(* The copies of the table follow one another, and a call succeeds only    *)
(* when all of them hold the entry: for any number of copies, and a drive  *)
(* that fails as often as it likes.                                        *)
THEOREM VolumeCopiesFollow == Spec => CopiesFollow
  <1> DEFINE copies == 0 .. filesystem.fat_count - 1
             Follows(k) ==
               /\ k > 0 => EntryIn(k - 1, call.cluster) = call.value
               /\ FatLba(filesystem, k, call.cluster) \in CopyOf(filesystem, k)
               /\ disk' = [disk EXCEPT ![FatLba(filesystem, k, call.cluster)]
                                        [call.cluster % PerSector] = call.value]
             Following == /\ disk' # disk => \E k \in copies : Follows(k)
                          /\ call' = NoCall /\ ret' => \A k \in copies : EntryIn(k, call.cluster) = call.value
  <1>1. ASSUME Inv, [Next]_vars, ~late', call # NoCall PROVE Following
    <2>1. /\ Sizes(filesystem, volume.total) /\ fat_index \in copies /\ call.cluster \in Nat
          /\ FatSector(call.cluster) < filesystem.sectors_per_fat
          /\ Here = FatLba(filesystem, fat_index, call.cluster)
      BY <1>1, HereIs DEF Inv, Types
    <2>2. filesystem.fat_count \in Nat \ {0} /\ fat_index \in Nat
      BY <2>1 DEF Sizes
    <2>3. ~late
      BY <1>1 DEF Next, Request, fat32_write_fat_entry, Driver, GivesUp, SendRead, TakeData, SendWrite, GiveData,
                  SendFlush, Written, DriveWorks, vars
    <2>4. CopiesWritten
      BY <1>1, <2>3 DEF Inv, Timely
    <2>5. ASSUME disk' # disk PROVE Follows(fat_index)
      <3>1. fat_index > 0 => EntryIn(fat_index - 1, call.cluster) = call.value
        <4>1. fat_index > 0 => fat_index - 1 \in 0 .. fat_index - 1
          BY <2>2
        <4> QED BY <1>1, <2>4, <4>1 DEF CopiesWritten
      <3>2. FatLba(filesystem, fat_index, call.cluster) \in CopyOf(filesystem, fat_index)
        BY <2>1, EntriesApart
      <3>3. disk' = [disk EXCEPT ![Here] = [disk[Here] EXCEPT ![call.cluster % PerSector] = call.value]]
        BY <1>1, <2>5, DiskChanges DEF Patched
      <3> QED BY <2>1, <3>1, <3>2, <3>3
    <2>6. ASSUME call' = NoCall, ret', NEW k \in copies PROVE EntryIn(k, call.cluster) = call.value
      <3>1. Written /\ ~(fat_index + 1 < filesystem.fat_count)
        BY <1>1, <2>6 DEF Inv, Types, VolumeTypeOK, Next, Request, fat32_write_fat_entry, Driver, GivesUp, Return,
                          SendRead, TakeData, SendWrite, GiveData, SendFlush, Written, DriveWorks, vars
      <3>2. k = fat_index \/ k \in 0 .. fat_index - 1
        BY <2>1, <2>2, <3>1
      <3>3. EntryIn(fat_index, call.cluster) = call.value
        BY <1>1, <2>3, <3>1, WrittenHere DEF Inv
      <3> QED BY <1>1, <2>4, <3>2, <3>3 DEF CopiesWritten
    <2> QED BY <2>1, <2>5, <2>6
  <1>2. Inv /\ [Next]_vars => [~late' /\ call # NoCall => Following]_vars
    BY <1>1
  <1> QED BY <1>2, VolumeInv, PTL DEF Spec, CopiesFollow

-----------------------------------------------------------------------------
(* The table that entries are read from.                                   *)

Entries == {c \in ClustersOf(filesystem) : InTable(c)}

LEMMA TableIs ==
  ASSUME filesystem.mounted
  PROVE  /\ Table = [c \in Entries |-> EntryIn(0, c)]
         /\ DOMAIN Table = Entries
  BY DEF Table, Entries

LEMMA TableKept ==
  ASSUME UNCHANGED <<filesystem, disk>>
  PROVE  Table' = Table
  BY DEF Table, EntryIn, InTable

(* When the disk changes, the first copy changes in one entry, and the     *)
(* others not at all.                                                      *)
LEMMA TableChanges ==
  ASSUME Inv, [Next]_vars, ~late', disk' # disk
  PROVE  Table' = Table \/ Table' = [Table EXCEPT ![call.cluster] = call.value]
  <1>1. /\ call # NoCall /\ Here \in Disk
        /\ disk' = [disk EXCEPT ![Here] = Patched(disk[Here])]
        /\ UNCHANGED <<filesystem, call, ret, fat_index>>
    BY DiskChanges
  <1>2. /\ Sizes(filesystem, volume.total) /\ fat_index \in 0 .. filesystem.fat_count - 1 /\ call.cluster \in Nat
        /\ FatSector(call.cluster) < filesystem.sectors_per_fat /\ call.value \in Values
        /\ Here = FatLba(filesystem, fat_index, call.cluster)
        /\ call.cluster % PerSector \in 0 .. PerSector - 1
    BY <1>1, HereIs DEF Inv, Types
  <1>3. filesystem.mounted /\ call.cluster \in Entries
    BY <1>1 DEF Inv, Types, Called, Entries
  <1>4. disk \in [Disk -> Sector] /\ disk[Here] \in Sector
    BY <1>1 DEF Inv, Types, VolumeTypeOK
  <1>5. /\ disk'[Here] = Patched(disk[Here])
        /\ \A lba \in Disk : lba # Here => disk'[lba] = disk[lba]
    BY <1>1, <1>4
  <1>6. /\ Patched(disk[Here])[call.cluster % PerSector] = call.value
        /\ \A i \in 0 .. PerSector - 1 : i # call.cluster % PerSector => Patched(disk[Here])[i] = disk[Here][i]
    <2> DEFINE p == call.cluster % PerSector
               s == disk[Here]
    <2>1. Patched(s) = [s EXCEPT ![p] = call.value]
      BY DEF Patched
    <2>2. p \in 0 .. PerSector - 1 /\ s \in Sector /\ call.value \in Values
      BY <1>2, <1>4
    <2> HIDE DEF p, s
    <2>3. Patched(s)[p] = call.value /\ \A i \in 0 .. PerSector - 1 : i # p => Patched(s)[i] = s[i]
      BY <2>1, <2>2, ChangedTyped
    <2> QED BY <2>3 DEF p, s
  <1>7. 0 \in 0 .. filesystem.fat_count - 1 /\ (fat_index = 0 \/ 0 < fat_index)
    BY <1>2 DEF Sizes
  <1>8. ASSUME NEW c \in Entries
        PROVE  /\ c \in Nat /\ FatSector(c) < filesystem.sectors_per_fat /\ c % PerSector \in 0 .. PerSector - 1
               /\ FatLba(filesystem, 0, c) \in Nat
               /\ FatLba(filesystem, 0, c) < LbaLimit => FatLba(filesystem, 0, c) \in Disk
    <2>1. c \in Nat /\ FatSector(c) < filesystem.sectors_per_fat
      BY <1>2 DEF Entries, InTable, ClustersOf, Sizes
    <2>2. FatLba(filesystem, 0, c) \in Nat /\ c % PerSector \in 0 .. PerSector - 1
      BY <1>2, <1>7, <2>1, EntriesApart
    <2> QED BY <2>1, <2>2, DriveAssumption DEF Disk
  <1>9. CASE fat_index # 0
    <2>1. ASSUME NEW c \in Entries PROVE EntryIn(0, c)' = EntryIn(0, c)
      <3>1. FatLba(filesystem, 0, c) # Here
        <4>1. FatLba(filesystem, 0, c) < Here /\ Here \in Nat
          BY <1>2, <1>7, <1>8, <1>9, EntriesApart
        <4> QED BY <1>8, <4>1
      <3> QED BY <1>1, <1>5, <1>8, <3>1 DEF EntryIn
    <2>2. Table' = [c \in Entries |-> EntryIn(0, c)']
      BY <1>1, <1>3 DEF Table, Entries, InTable
    <2> QED BY <1>3, <2>1, <2>2, TableIs
  <1>10. CASE fat_index = 0
    <2>1. EntryIn(0, call.cluster)' = call.value
      <3>1. Here < LbaLimit
        BY <1>1, DriveAssumption DEF Disk
      <3> QED BY <1>1, <1>2, <1>5, <1>6, <1>10, <3>1 DEF EntryIn
    <2>2. ASSUME NEW c \in Entries, c # call.cluster PROVE EntryIn(0, c)' = EntryIn(0, c)
      <3>1. FatLba(filesystem, 0, c) # Here \/ c % PerSector # call.cluster % PerSector
        BY <1>2, <1>7, <1>8, <1>10, <2>2, EntriesApart
      <3> QED BY <1>1, <1>5, <1>6, <1>8, <3>1 DEF EntryIn
    <2>3. Table' = [c \in Entries |-> EntryIn(0, c)']
      BY <1>1, <1>3 DEF Table, Entries, InTable
    <2>4. Table' = [c \in Entries |-> IF c = call.cluster THEN call.value ELSE EntryIn(0, c)]
      <3>1. \A c \in Entries : EntryIn(0, c)' = IF c = call.cluster THEN call.value ELSE EntryIn(0, c)
        <4>1. \A c \in Entries : c = call.cluster => EntryIn(0, c)' = call.value
          BY <1>1, <2>1 DEF EntryIn
        <4> QED BY <2>2, <4>1, Zenon
      <3> QED BY <2>3, <3>1
    <2>5. [Table EXCEPT ![call.cluster] = call.value]
            = [c \in Entries |-> IF c = call.cluster THEN call.value ELSE EntryIn(0, c)]
      BY <1>3, TableIs
    <2> QED BY <2>4, <2>5, Zenon
  <1> QED BY <1>9, <1>10

(* The loop over the copies implements the table that the rest of the      *)
(* driver writes to: whatever sectors the entries share, however long the  *)
(* drive takes and however often it fails, as long as no transfer was      *)
(* given up while the drive was still at it.                               *)
THEOREM VolumeImplementsTable == Spec => ImplementsTable
  <1>1. Init => Store!Init
    BY DEF Init, Store!Init
  <1>2. ASSUME Inv, [Next]_vars, ~late', ~UNCHANGED <<Table, call, ret>> PROVE Store!Next
    <2>1. CASE disk' # disk
      <3>1. UNCHANGED <<filesystem, call, ret, fat_index>> /\ call # NoCall
        BY <1>2, <2>1, DiskChanges
      <3> QED BY <1>2, <2>1, <3>1, TableChanges DEF Store!Next, Store!Store
    <2>2. CASE disk' = disk
      <3>1. filesystem' = filesystem
        BY <1>2 DEF Next, Request, fat32_write_fat_entry, Driver, GivesUp, SendRead, TakeData, SendWrite, GiveData,
                    SendFlush, Written, DriveWorks, vars
      <3>2. Table' = Table
        BY <2>2, <3>1, TableKept
      <3>3. ~UNCHANGED <<call, ret>>
        BY <1>2, <3>2
      <3>4. CASE Request
        <4>1. PICK cluster \in ClustersOf(filesystem), value \in Values : fat32_write_fat_entry(cluster, value)
          BY <3>4 DEF Request
        <4>2. call = NoCall /\ filesystem.mounted
          BY <1>2, <3>4, <4>1 DEF Request, fat32_write_fat_entry, Inv, Types, VolumeTypeOK
        <4>3. CASE InTable(cluster)
          <5>1. call' = [cluster |-> cluster, value |-> value] /\ ret' = ret /\ cluster \in DOMAIN Table
            BY <4>1, <4>2, <4>3, TableIs DEF fat32_write_fat_entry, Entries
          <5> QED BY <3>2, <4>2, <5>1 DEF Store!Next, Store!Begin
        <4>4. CASE ~InTable(cluster)
          BY <3>2, <4>1, <4>2, <4>4 DEF fat32_write_fat_entry, Store!Next, Store!Refuse
        <4> QED BY <4>3, <4>4
      <3>5. CASE Driver
        <4>1. call # NoCall
          BY <1>2, <3>5 DEF Inv, Types, Driver, GivesUp, SendRead, TakeData, SendWrite, GiveData, SendFlush, Written,
                            VolumeTypeOK
        <4>2. CASE GivesUp
          BY <3>2, <4>1, <4>2 DEF GivesUp, Return, Store!Next, Store!Return
        <4>3. CASE Written
          <5>1. call' = NoCall /\ ret' = TRUE /\ ~(fat_index + 1 < filesystem.fat_count)
            BY <3>3, <4>3 DEF Written, Return
          <5>2. ~late
            BY <1>2, <4>3 DEF Written
          <5>3. Sizes(filesystem, volume.total) /\ fat_index \in 0 .. filesystem.fat_count - 1 /\ filesystem.mounted
            BY <1>2, <4>1, HereIs DEF Inv, Types, Called
          <5>4. EntryIn(0, call.cluster) = call.value
            <6>1. fat_index = 0 \/ 0 \in 0 .. fat_index - 1
              BY <5>3
            <6>2. EntryIn(fat_index, call.cluster) = call.value
              BY <1>2, <4>3, <5>2, WrittenHere DEF Inv
            <6> QED BY <1>2, <4>1, <5>2, <6>1, <6>2 DEF Inv, Timely, CopiesWritten
          <5>5. call.cluster \in Entries
            BY <1>2, <4>1 DEF Inv, Types, Called, Entries
          <5>6. Table[call.cluster] = call.value
            BY <5>3, <5>4, <5>5, TableIs
          <5> QED BY <3>2, <4>1, <5>1, <5>6 DEF Store!Next, Store!Return
        <4> QED BY <3>3, <3>5, <4>2, <4>3 DEF Driver, SendRead, TakeData, SendWrite, GiveData, SendFlush
      <3> QED BY <1>2, <3>3, <3>4, <3>5 DEF Next, DriveWorks, vars
    <2> QED BY <2>1, <2>2
  <1>3. Inv /\ [Next]_vars => [~late' => Store!Next]_<<Table, call, ret>>
    BY <1>2
  <1> QED BY <1>1, <1>3, VolumeInv, PTL DEF Spec, ImplementsTable
=============================================================================
