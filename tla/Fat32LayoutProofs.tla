------------------------- MODULE Fat32LayoutProofs -------------------------
(***************************************************************************)
(* What Fat32Proofs says of the volume at each moment is enough: nothing   *)
(* gets lost on the way, the checks of a volume find nothing wrong with    *)
(* it, the reading half finds on it what is there, and the driver          *)
(* implements the tree of module FileTree.                                 *)
(***************************************************************************)
EXTENDS Fat32Proofs, Fat32Tree, SequenceTheorems

USE GeometryAssumption, CallerAssumption DEF Operations, Steps, Kinds, Appending

-----------------------------------------------------------------------------
(* How far a chain reaches, whatever the table.                            *)

ReachesOn(t, first, n) == \A k \in 0 .. N : k < n => WalkOf(t, first)[k] \in Clusters

LEMMA ReachesIs ==
  /\ \A f, n : Reaches(f, n) <=> ReachesOn(fat, f, n)
  /\ \A f, n : Reaches(f, n)' <=> ReachesOn(fat', f, n)
  <1>1. \A f : Walk(f) = WalkOf(fat, f) /\ Walk(f)' = WalkOf(fat', f)
    BY DEF Walk, WalkOf
  <1> QED BY ONLY <1>1 DEF Reaches, ReachesOn, ClusterAt

(* Where the chain goes on, it goes on as before.                          *)
Follows(t, u, first) == \A c \in ChainOf(t, first) : t[c] \in Clusters => u[c] = t[c]

LEMMA WalkSame ==
  ASSUME NEW t, NEW u, NEW first, Follows(t, u, first),
         NEW j \in 0 .. N, WalkOf(t, first)[j] \in Clusters
  PROVE  WalkOf(u, first)[j] = WalkOf(t, first)[j]
  <1> DEFINE Bad == {k \in 0 .. j : WalkOf(u, first)[k] # WalkOf(t, first)[k]}
  <1>1. ASSUME Bad # {}
        PROVE  FALSE
    <2>1. PICK k \in Bad : \A m \in Bad : k <= m
      <3>1. Bad \in SUBSET Nat
        OBVIOUS
      <3> HIDE DEF Bad
      <3> QED BY <1>1, <3>1, LeastNatural
    <2>2. k \in 0 .. j /\ WalkOf(u, first)[k] # WalkOf(t, first)[k]
      OBVIOUS
    <2>3. k # 0
      BY <2>2, WalkIs
    <2>4. k \in 1 .. N /\ k - 1 \in 0 .. j /\ k - 1 \in 0 .. N /\ ~(k <= k - 1)
      BY <2>2, <2>3
    <2>5. WalkOf(u, first)[k - 1] = WalkOf(t, first)[k - 1]
      BY <2>1, <2>4
    <2> DEFINE c == WalkOf(t, first)[k - 1]
    <2>6. c \in Clusters /\ WalkOf(t, first)[k] \in Clusters
      BY <2>2, <2>4, WalkStays
    <2>7. c \in ChainOf(t, first)
      BY <2>4, <2>6 DEF ChainOf
    <2>8. WalkOf(t, first)[k] = t[c] /\ WalkOf(u, first)[k] = u[c]
      BY <2>4, <2>5, <2>6, WalkIs DEF Successor
    <2> QED BY <2>2, <2>6, <2>7, <2>8 DEF Follows
  <1>2. j \in 0 .. j
    OBVIOUS
  <1> QED BY <1>1, <1>2

LEMMA ReachesKept ==
  ASSUME NEW t, NEW u, NEW first, Follows(t, u, first), NEW n, ReachesOn(t, first, n)
  PROVE  ReachesOn(u, first, n)
  BY WalkSame DEF ReachesOn

(* A walk does not come to a cluster twice.                                *)
LEMMA WalkOnce ==
  ASSUME NEW t, Acyclic(t), NEW first, NEW i \in 0 .. N, NEW j \in 0 .. N, i < j,
         WalkOf(t, first)[j] \in Clusters
  PROVE  WalkOf(t, first)[i] # WalkOf(t, first)[j]
  <1> SUFFICES ASSUME WalkOf(t, first)[i] = WalkOf(t, first)[j] PROVE FALSE
    OBVIOUS
  <1> DEFINE w == [k \in 0 .. N |-> WalkOf(t, first)[k]]
  <1>1. \A k \in 0 .. j : k \in 0 .. N /\ w[k] = WalkOf(t, first)[k] /\ w[k] \in Clusters
    BY WalkStays
  <1>2. \A k \in 1 .. j : w[k] = t[w[k - 1]]
    <2>1. \A k \in 1 .. j : k - 1 \in 0 .. j /\ k \in 0 .. j /\ k \in 1 .. N
      OBVIOUS
    <2> HIDE DEF w
    <2> QED BY <1>1, <2>1, WalkIs DEF Successor
  <1>3. w[i] = w[j]
    OBVIOUS
  <1> HIDE DEF w
  <1> DEFINE S == {w[m] : m \in i .. j - 1}
  <1>6. S \in SUBSET Clusters /\ S # {}
    <2>1. i \in i .. j - 1 /\ \A m \in i .. j - 1 : m \in 0 .. j
      OBVIOUS
    <2> QED BY <1>1, <2>1
  <1>7. ASSUME NEW m \in i .. j - 1
        PROVE  t[w[m]] \in S
    <2>1. m + 1 \in 1 .. j /\ (m + 1) - 1 = m
      OBVIOUS
    <2>2. t[w[m]] = w[m + 1]
      BY <1>2, <2>1
    <2>3. CASE m + 1 = j
      <3>1. i \in i .. j - 1
        OBVIOUS
      <3> QED BY <1>3, <2>2, <2>3, <3>1
    <2>4. CASE m + 1 # j
      <3>1. m + 1 \in i .. j - 1
        BY <2>4
      <3> QED BY <2>2, <3>1
    <2> QED BY <2>3, <2>4
  <1> QED BY <1>6, <1>7 DEF Acyclic

(* A cluster appended to a chain lets it reach one further.                *)
LEMMA ReachesLinked ==
  ASSUME NEW t, NEW u, NEW first, NEW last \in Clusters, NEW new \in Clusters,
         Acyclic(t), t[last] = EndOfChain, u[last] = new, \A c \in Clusters \ {last} : u[c] = t[c],
         last \in ChainOf(t, first), NEW n \in Int, ReachesOn(t, first, n)
  PROVE  ReachesOn(u, first, n + 1)
  <1>1. PICK i \in 0 .. N : WalkOf(t, first)[i] = last
    BY DEF ChainOf
  <1>2. i # N
    <2>1. PICK k \in 0 .. N : WalkOf(t, first)[k] \notin Clusters
      BY WalkLeaves
    <2>2. i = N => k \in 0 .. i
      OBVIOUS
    <2> QED BY <1>1, <2>1, <2>2, WalkStays
  <1>3. i + 1 \in 1 .. N /\ i + 1 \in 0 .. N /\ (i + 1) - 1 = i
    BY <1>2
  <1>4. WalkOf(t, first)[i + 1] \notin Clusters
    <2>1. WalkOf(t, first)[i + 1] = EndOfChain
      BY ONLY <1>1, <1>3, WalkIs, t[last] = EndOfChain, last \in Clusters DEF Successor
    <2> QED BY <2>1, FreeOutside
  <1>5. n <= i + 1
    BY <1>3, <1>4 DEF ReachesOn
  <1>6. Follows(t, u, first)
    BY FreeOutside DEF Follows, ChainOf
  <1>7. WalkOf(u, first)[i] = last
    BY <1>1, <1>6, WalkSame
  <1>8. WalkOf(u, first)[i + 1] \in Clusters
    <2>1. WalkOf(u, first)[i + 1] = u[last]
      BY ONLY <1>7, <1>3, WalkIs, last \in Clusters DEF Successor
    <2> QED BY <2>1
  <1>9. ASSUME NEW k \in 0 .. N, k < n + 1
        PROVE  WalkOf(u, first)[k] \in Clusters
    <2>1. k \in 0 .. i + 1
      BY <1>3, <1>5, <1>9
    <2> QED BY <1>3, <1>8, <2>1, WalkStays
  <1> QED BY <1>9 DEF ReachesOn

(* A chain cut after n clusters still reaches so far.                      *)
LEMMA ReachesCut ==
  ASSUME NEW t, NEW u, NEW first, Acyclic(t), NEW n \in Int, n - 1 \in 0 .. N,
         NEW keep \in Clusters, WalkOf(t, first)[n - 1] = keep,
         \A c \in Clusters \ {keep} : u[c] = t[c]
  PROVE  ReachesOn(u, first, n)
  <1> DEFINE Bad == {k \in 0 .. n - 1 : WalkOf(u, first)[k] # WalkOf(t, first)[k]}
  <1>1. ASSUME Bad # {}
        PROVE  FALSE
    <2>1. PICK k \in Bad : \A m \in Bad : k <= m
      <3>1. Bad \in SUBSET Nat
        OBVIOUS
      <3> HIDE DEF Bad
      <3> QED BY <1>1, <3>1, LeastNatural
    <2>2. k \in 0 .. n - 1 /\ WalkOf(u, first)[k] # WalkOf(t, first)[k]
      OBVIOUS
    <2>3. k # 0
      BY <2>2, WalkIs
    <2>4. k \in 1 .. N /\ k - 1 \in 0 .. n - 1 /\ k - 1 \in 0 .. N /\ ~(k <= k - 1) /\ k - 1 < n - 1
      BY <2>2, <2>3
    <2>5. WalkOf(u, first)[k - 1] = WalkOf(t, first)[k - 1]
      BY <2>1, <2>4
    <2> DEFINE c == WalkOf(t, first)[k - 1]
    <2>6. c \in Clusters
      BY <2>4, WalkStays
    <2>7. c # keep
      BY <2>4, WalkOnce
    <2>8. WalkOf(t, first)[k] = t[c] /\ WalkOf(u, first)[k] = u[c]
      BY <2>4, <2>5, <2>6, WalkIs DEF Successor
    <2> QED BY <2>2, <2>6, <2>7, <2>8
  <1>2. n - 1 \in 0 .. n - 1
    OBVIOUS
  <1>3. WalkOf(u, first)[n - 1] \in Clusters
    BY <1>1, <1>2
  <1>4. ASSUME NEW k \in 0 .. N, k < n PROVE WalkOf(u, first)[k] \in Clusters
    <2>1. k \in 0 .. n - 1
      BY <1>4
    <2> QED BY <1>3, <2>1, WalkStays
  <1> QED BY <1>4 DEF ReachesOn

(* A chain reaches as far as it has clusters.                              *)
LEMMA ReachesLength ==
  ASSUME NEW first, NoCycle
  PROVE  fat32_chain_length(first) \in Nat /\ Reaches(first, fat32_chain_length(first))
  <1>1. fat32_chain_length(first) \in Nat
    BY ChainLengthType
  <1>2. ChainSet(first) = ChainOf(fat, first) /\ Acyclic(fat)
    BY ChainIs DEF NoCycle, Acyclic
  <1> DEFINE w == WalkOf(fat, first)
             Out == {k \in 0 .. N : w[k] \notin Clusters}
  <1>3. PICK n \in Out : \A m \in Out : n <= m
    <2>1. Out \in SUBSET Nat
      OBVIOUS
    <2>2. Out # {}
      BY <1>2, WalkLeaves
    <2> HIDE DEF Out
    <2> QED BY <2>1, <2>2, LeastNatural
  <1>4. n \in 0 .. N /\ w[n] \notin Clusters /\ \A k \in 0 .. N : k < n => w[k] \in Clusters
    BY <1>3
  <1> HIDE DEF Out
  <1>5. \A k \in 0 .. N : w[k] \in Clusters => k < n
    <2> SUFFICES ASSUME NEW k \in 0 .. N, w[k] \in Clusters, ~(k < n) PROVE FALSE
      OBVIOUS
    <2>1. n \in 0 .. k
      BY <1>4
    <2> QED BY <1>4, <2>1, WalkStays
  <1> HIDE DEF w
  <1> DEFINE f == [k \in 0 .. n - 1 |-> w[k]]
  <1>6. f \in Surjection(0 .. n - 1, ChainSet(first))
    <2>1. \A k \in 0 .. n - 1 : k \in 0 .. N /\ w[k] \in Clusters
      BY <1>4
    <2>2. f \in [0 .. n - 1 -> ChainSet(first)]
      BY <1>2, <2>1 DEF ChainOf, w
    <2>3. \A c \in ChainSet(first) : \E k \in 0 .. n - 1 : f[k] = c
      <3> SUFFICES ASSUME NEW c \in ChainSet(first) PROVE \E k \in 0 .. n - 1 : f[k] = c
        OBVIOUS
      <3>1. PICK k \in 0 .. N : w[k] = c /\ c \in Clusters
        BY <1>2 DEF ChainOf, w
      <3>2. k \in 0 .. n - 1
        BY <1>4, <1>5, <3>1
      <3> QED BY <3>1, <3>2
    <2> QED BY <2>2, <2>3 DEF Surjection
  <1>7. IsFiniteSet(0 .. n - 1) /\ Cardinality(0 .. n - 1) = n
    BY <1>4, FS_Interval
  <1>8. fat32_chain_length(first) <= n
    <2>1. Cardinality(ChainSet(first)) <= Cardinality(0 .. n - 1)
      BY ONLY <1>6, <1>7, FS_Surjection
    <2> QED BY <1>7, <2>1 DEF fat32_chain_length
  <1>9. ReachesOn(fat, first, fat32_chain_length(first))
    BY <1>1, <1>4, <1>8 DEF ReachesOn, w
  <1> QED BY <1>1, <1>9, ReachesIs

(* Rounding up to clusters.                                                *)
LEMMA RequiredIs ==
  ASSUME NEW size \in Size
  PROVE  /\ RequiredClusters(size) \in Nat
         /\ RequiredClusters(0) = 0
         /\ RequiredClusters(size) > 0 => RequiredClusters(size) = (size + ClusterSize - 1) \div ClusterSize
  <1>1. size \in Nat /\ size < Word /\ ClusterSize \in Nat \ {0} /\ Word \in Nat /\ Word > ClusterSize
    BY DEF Size
  <1>2. CASE size = 0
    BY <1>2 DEF RequiredClusters
  <1>3. CASE size # 0
    <2> DEFINE x == size + ClusterSize - 1
    <2>1. x \in Nat /\ x < 2 * Word
      BY <1>1
    <2>2. RequiredClusters(size) = (x % Word) \div ClusterSize
      BY <1>3 DEF RequiredClusters
    <2>3. CASE x < Word
      <3>1. x % Word = x
        BY <1>1, <2>1, <2>3
      <3>2. x \div ClusterSize \in Nat
        BY <1>1, <2>1
      <3> QED BY <2>2, <3>1, <3>2 DEF RequiredClusters
    <2>4. CASE x >= Word
      <3>1. x % Word = x - Word
        BY <1>1, <2>1, <2>4
      <3>2. x - Word \in Nat /\ x - Word < ClusterSize
        BY <1>1, <2>4
      <3>3. (x - Word) \div ClusterSize = 0
        BY ONLY <1>1, <3>2
      <3> QED BY <2>2, <3>1, <3>3 DEF RequiredClusters
    <2> QED BY <2>1, <1>1, <2>3, <2>4
  <1> QED BY <1>2, <1>3

LEMMA RequiredGrows ==
  ASSUME NEW a \in Size, NEW b \in Size, a <= b, b > 0 => RequiredClusters(b) > 0
  PROVE  RequiredClusters(a) <= RequiredClusters(b)
  <1>1. a \in Nat /\ b \in Nat /\ ClusterSize \in Nat \ {0}
    BY DEF Size
  <1>2. RequiredClusters(a) \in Nat /\ RequiredClusters(b) \in Nat /\ RequiredClusters(0) = 0
    BY RequiredIs
  <1>3. CASE RequiredClusters(a) > 0 /\ RequiredClusters(b) > 0
    <2>1. /\ RequiredClusters(a) = (a + ClusterSize - 1) \div ClusterSize
          /\ RequiredClusters(b) = (b + ClusterSize - 1) \div ClusterSize
      BY <1>3, RequiredIs
    <2> DEFINE p == RequiredClusters(a)
               q == RequiredClusters(b)
    <2>2. p * ClusterSize <= a + ClusterSize - 1
      <3> HIDE DEF p
      <3>1. p = (a + ClusterSize - 1) \div ClusterSize
        BY <2>1 DEF p
      <3> QED BY ONLY <1>1, <3>1
    <2>3. b + ClusterSize - 1 < (q + 1) * ClusterSize
      <3> HIDE DEF q
      <3>1. q = (b + ClusterSize - 1) \div ClusterSize
        BY <2>1 DEF q
      <3> QED BY ONLY <1>1, <3>1
    <2>4. p \in Nat /\ q \in Nat
      BY <1>2
    <2> HIDE DEF p, q
    <2>5. ~(p >= q + 1)
      <3> SUFFICES ASSUME p >= q + 1 PROVE FALSE
        OBVIOUS
      <3>1. p * ClusterSize >= (q + 1) * ClusterSize
        BY ONLY <1>1, <2>4, p >= q + 1
      <3>2. p * ClusterSize \in Nat /\ (q + 1) * ClusterSize \in Nat
        BY <1>1, <2>4
      <3> QED BY <1>1, <2>2, <2>3, <3>1, <3>2
    <2> QED BY <2>4, <2>5 DEF p, q
  <1>4. CASE RequiredClusters(a) = 0
    BY <1>2, <1>4
  <1>5. CASE RequiredClusters(b) = 0
    <2>1. a = 0
      BY <1>1, <1>5
    <2> QED BY <1>2, <2>1
  <1> QED BY <1>2, <1>3, <1>4, <1>5

-----------------------------------------------------------------------------
(* Each step leaves every file the clusters its size takes.                *)

CoveredOn(t, first, size) == /\ ReachesOn(t, first, RequiredClusters(size))
                             /\ size > 0 => RequiredClusters(size) > 0

Fed   == Placed /\ FilesFull(op) /\ GrowthRight(op)
Fills == FilesFull(op)' /\ GrowthRight(op)'

LEMMA CoveredIs ==
  /\ \A f, size : Covered(f, size) <=> CoveredOn(fat, f, size)
  /\ \A l : Covered(FirstOf(l), EntryAt(l).size)' <=> CoveredOn(fat', FirstOf(l)', EntryAt(l)'.size)
  <1>1. \A f : Walk(f) = WalkOf(fat, f)
    BY DEF Walk, WalkOf
  <1>2. \A l : Walk(FirstOf(l))' = WalkOf(fat', FirstOf(l)')
    BY DEF Walk, WalkOf
  <1>3. \A f, size : Covered(f, size) <=> CoveredOn(fat, f, size)
    BY ONLY <1>1 DEF Covered, CoveredOn, Reaches, ReachesOn, ClusterAt
  <1>4. \A l : Covered(FirstOf(l), EntryAt(l).size)' <=> CoveredOn(fat', FirstOf(l)', EntryAt(l)'.size)
    BY ONLY <1>2 DEF Covered, CoveredOn, Reaches, ReachesOn, ClusterAt, RequiredClusters
  <1> QED BY <1>3, <1>4

LEMMA CoveredKept ==
  ASSUME NEW t, NEW u, NEW f, NEW size, CoveredOn(t, f, size), Follows(t, u, f)
  PROVE  CoveredOn(u, f, size)
  BY ReachesKept DEF CoveredOn

(* The entries of files after a step: those of before, those covered anew, *)
(* and the one whose chain is being freed.                                 *)
FileStays(l, n) == /\ l \in LiveOf("file") /\ EntryAt(l)' = EntryAt(l)
                   /\ Follows(fat, fat', FirstOf(l))
                   /\ Freeing(op) /\ l = op.at => Freeing(n) /\ l = n.at

LEMMA FilledBy ==
  ASSUME FilesFull(op), NEW n, op' = n,
         \A l \in LiveOf("file")' :
           \/ FileStays(l, n) \/ CoveredOn(fat', FirstOf(l)', EntryAt(l)'.size)
           \/ Freeing(n) /\ l = n.at
  PROVE  FilesFull(op)'
  <1> SUFFICES ASSUME NEW l \in LiveOf("file")', ~(Freeing(n) /\ l = n.at)
               PROVE  Covered(FirstOf(l), EntryAt(l).size)'
    BY DEF FilesFull, Freeing
  <1>1. CASE FileStays(l, n)
    <2>1. Covered(FirstOf(l), EntryAt(l).size)
      BY <1>1 DEF FileStays, FilesFull
    <2>2. CoveredOn(fat', FirstOf(l), EntryAt(l).size)
      BY <1>1, <2>1, CoveredIs, CoveredKept DEF FileStays
    <2>3. FirstOf(l)' = FirstOf(l)
      BY <1>1 DEF FileStays, FirstOf
    <2> QED BY <1>1, <2>2, <2>3, CoveredIs DEF FileStays
  <1>2. CASE CoveredOn(fat', FirstOf(l)', EntryAt(l)'.size)
    BY <1>2, CoveredIs
  <1> QED BY <1>1, <1>2

(* What is to be known of the operation after a step.                      *)
GrowthOn(t, n, old) ==
  /\ n.kind = "create_file" => n.entry.size = 0
  /\ n.kind = "write" =>
       /\ n.entry.size > 0 => RequiredClusters(n.entry.size) > 0
       /\ RequiredClusters(old) <= RequiredClusters(n.entry.size)
       /\ n.step = "cut" => n.need = RequiredClusters(n.entry.size)
       /\ ReachesOn(t, n.first, IF n.step \in Appending THEN RequiredClusters(n.entry.size) - n.need
                                ELSE RequiredClusters(n.entry.size))

LEMMA GrowthIs ==
  /\ \A n : GrowthRight(n) <=> GrowthOn(fat, n, EntryAt(n.at).size)
  /\ \A n : op' = n => (GrowthRight(op)' <=> GrowthOn(fat', n, EntryAt(n.at)'.size))
  <1>1. \A f : Walk(f) = WalkOf(fat, f) /\ Walk(f)' = WalkOf(fat', f)
    BY DEF Walk, WalkOf
  <1>2. \A n : GrowthRight(n) <=> GrowthOn(fat, n, EntryAt(n.at).size)
    BY ONLY <1>1 DEF GrowthRight, GrowthOn, Reaches, ReachesOn, ClusterAt
  <1>3. ASSUME NEW n, op' = n
        PROVE  GrowthRight(op)' <=> GrowthOn(fat', n, EntryAt(n.at)'.size)
    <2>1. \A k : Walk(op.first)'[k] = WalkOf(fat', n.first)[k]
      BY <1>3 DEF Walk, WalkOf
    <2>2. EntryAt(op.at)' = EntryAt(n.at)'
      BY <1>3 DEF EntryAt
    <2> QED BY ONLY <1>3, <2>1, <2>2 DEF GrowthRight, GrowthOn, Reaches, ReachesOn, ClusterAt, RequiredClusters
  <1> QED BY <1>2, <1>3

(* An operation that is neither is not a write and does not become one.    *)
LEMMA GrowthOver ==
  ASSUME NEW n, op' = n, n.kind \notin {"create_file", "write"}
  PROVE  GrowthRight(op)'
  <1>1. GrowthOn(fat', n, EntryAt(n.at)'.size)
    BY DEF GrowthOn
  <1> QED BY <1>1, GrowthIs

LEMMA RecoverGrowth ==
  ASSUME Before, Recover \/ Complete \/ op' = Idle
  PROVE  \E n : op' = n /\ n.kind \notin {"create_file", "write"} /\ ~Freeing(n) /\ GrowthRight(op)'
  <1>1. PICK n : n = op'
    OBVIOUS
  <1>2. /\ \/ n = Idle
           \/ op.kind = "create_directory" /\ n = [op EXCEPT !.step = "free", !.cur = op.first]
           \/ op.kind = "rename" /\ n = [op EXCEPT !.step = "undo"]
        /\ op \in Call
    <2>1. op \in Call
      BY BeforeDisk
    <2>2. CASE Complete
      BY <1>1, <2>1, <2>2 DEF Complete, WriteFails, Recover, Finish
    <2>3. CASE Recover
      BY <1>1, <2>1, <2>3 DEF Recover, Finish
    <2> QED BY <1>1, <2>1, <2>2, <2>3
  <1>3. n.kind \in {"none", "create_directory", "rename"}
    <2>1. CASE n = Idle
      BY ONLY <2>1 DEF Idle
    <2>2. CASE op.kind = "create_directory" /\ n = [op EXCEPT !.step = "free", !.cur = op.first]
      BY ONLY <1>2, <2>2 DEF Call
    <2>3. CASE op.kind = "rename" /\ n = [op EXCEPT !.step = "undo"]
      BY ONLY <1>2, <2>3 DEF Call
    <2> QED BY <1>2, <2>1, <2>2, <2>3
  <1> QED BY <1>1, <1>3, GrowthOver DEF Freeing

(* A step that writes neither an entry nor the table.                      *)
LEMMA FilesSame ==
  ASSUME Fed, UNCHANGED fat, EntriesShrink, NEW n, op' = n,
         Freeing(op) => Freeing(n) /\ n.at = op.at
  PROVE  FilesFull(op)'
  <1>1. ASSUME NEW l \in LiveOf("file")'
        PROVE  FileStays(l, n)
    <2>1. l \in LiveEntries' /\ EntryAt(l)'.kind = "file"
      BY DEF LiveOf
    <2>2. l \in LiveEntries /\ EntryAt(l)' = EntryAt(l)
      BY <2>1, EntryMapped
    <2>3. Follows(fat, fat', FirstOf(l))
      BY DEF Follows
    <2> QED BY <2>1, <2>2, <2>3 DEF FileStays, LiveOf
  <1> QED BY <1>1, FilledBy DEF Fed

LEMMA FreeingIs ==
  ASSUME Before
  PROVE  /\ Freeing(op) <=> HalfRemoved
         /\ op.kind # "remove" => ~Freeing(op)
  <1>1. StepOK(op)
    BY BeforeDisk
  <1> QED BY <1>1 DEF StepOK, Freeing, HalfRemoved

LEMMA GrowthGoes ==
  ASSUME Fed, op.kind # "write", NEW n, op' = n, n.kind = op.kind, n.entry.size = op.entry.size
  PROVE  GrowthRight(op)'
  <1>1. GrowthOn(fat, op, EntryAt(op.at).size)
    BY GrowthIs DEF Fed
  <1>2. GrowthOn(fat', n, EntryAt(n.at)'.size)
    BY <1>1 DEF GrowthOn
  <1> QED BY <1>2, GrowthIs

LEMMA FailFills ==
  ASSUME Fed, op.kind # "remove", UNCHANGED <<fat, slots>>, Recover
  PROVE  Fills
  <1>1. PICK n : op' = n /\ n.kind \notin {"create_file", "write"} /\ ~Freeing(n) /\ GrowthRight(op)'
    BY RecoverGrowth DEF Fed, Placed
  <1>2. ~Freeing(op)
    BY FreeingIs DEF Fed, Placed
  <1> QED BY <1>1, <1>2, SameSlots, FilesSame DEF Fills

LEMMA FindSlotFills == ASSUME Fed, FindSlot PROVE Fills
  <1>1. op.step = "slot" /\ UNCHANGED <<fat, slots>> /\ op \in Call /\ StepOK(op) /\ Before
    BY PlacedFacts DEF FindSlot, Fail, Fed, Placed
  <1>2. op.kind \in {"create_file", "create_directory", "rename"}
    BY <1>1 DEF StepOK, Call
  <1>3. CASE Recover
    BY <1>1, <1>2, <1>3, FailFills
  <1>4. CASE ~Recover
    <2>1. \/ \E s : op' = [op EXCEPT !.slot = s, !.step = "entry"]
          \/ \E last : op' = [op EXCEPT !.last = last, !.step = "mark"]
      BY <1>4 DEF FindSlot, Fail
    <2>2. PICK n : n = op'
      OBVIOUS
    <2>3. n.kind = op.kind /\ n.entry = op.entry
      BY <1>1, <2>1, <2>2 DEF Call
    <2>4. ~Freeing(op)
      BY <1>1, <1>2, FreeingIs
    <2>5. GrowthRight(op)'
      BY <1>2, <2>2, <2>3, GrowthGoes
    <2> QED BY <1>1, <2>2, <2>4, <2>5, SameSlots, FilesSame DEF Fills
  <1> QED BY <1>3, <1>4

LEMMA DiskFullFills == ASSUME Fed, DiskFull PROVE Fills
  <1>1. op.step = "mark" /\ UNCHANGED <<fat, slots>> /\ StepOK(op) /\ Recover
    BY PlacedFacts DEF DiskFull, Fail, Fed
  <1>2. op.kind # "remove"
    BY <1>1 DEF StepOK
  <1> QED BY <1>1, <1>2, FailFills

LEMMA WriteLostFills == ASSUME Fed, WriteLost PROVE Fills
  <1>1. UNCHANGED <<fat, slots>> /\ Before /\ WriteFails(FALSE)
    BY DEF WriteLost, Fed, Placed
  <1>2. Recover /\ ~WriteWindow(FALSE)
    BY <1>1, WriteFailsSafe
  <1>3. ~Freeing(op)
    BY <1>1, <1>2, FreeingIs DEF WriteWindow
  <1>4. PICK n : op' = n /\ n.kind \notin {"create_file", "write"} /\ ~Freeing(n) /\ GrowthRight(op)'
    BY <1>1, <1>2, RecoverGrowth
  <1> QED BY <1>1, <1>3, <1>4, SameSlots, FilesSame DEF Fills

LEMMA PowerLossFills == ASSUME Fed, PowerLoss PROVE Fills
  <1>1. UNCHANGED <<fat, slots>> /\ Before /\ op' = Idle /\ ~PowerWindow
    BY DEF PowerLoss, Fed, Placed, Before, TypeInv, TypeOK, Strike, Finish
  <1>3. ~Freeing(op)
    BY <1>1, FreeingIs DEF PowerWindow
  <1>4. PICK n : op' = n /\ n.kind \notin {"create_file", "write"} /\ ~Freeing(n) /\ GrowthRight(op)'
    BY <1>1, RecoverGrowth
  <1> QED BY <1>1, <1>3, <1>4, SameSlots, FilesSame DEF Fills

(* A step that writes the table and no entry, and cuts no chain of a file. *)
LEMMA TableFilled ==
  ASSUME Fed, UNCHANGED slots, NEW n, op' = n,
         \A l \in LiveOf("file") : Follows(fat, fat', FirstOf(l)),
         Freeing(op) => Freeing(n) /\ n.at = op.at
  PROVE  FilesFull(op)'
  <1>1. ASSUME NEW l \in LiveOf("file")'
        PROVE  FileStays(l, n)
    <2>1. l \in LiveOf("file") /\ EntryAt(l)' = EntryAt(l)
      BY SlotsSame
    <2> QED BY <2>1 DEF FileStays
  <1> QED BY <1>1, FilledBy DEF Fed

LEMMA MarkFills == ASSUME Fed, MarkCluster PROVE Fills
  <1>1. /\ op.step = "mark" /\ UNCHANGED slots /\ op \in Call /\ StepOK(op) /\ Before /\ Disk
    BY PlacedFacts DEF MarkCluster, Fed, Placed
  <1>2. PICK c \in Clusters : /\ fat[c] = Free /\ fat' = [fat EXCEPT ![c] = EndOfChain]
                              /\ Proceed([op EXCEPT !.new = c, !.step = "zero"])
    BY DEF MarkCluster, FreeClusters, Lowest
  <1>3. op.kind # "remove" /\ ~Freeing(op)
    BY <1>1, FreeingIs DEF StepOK
  <1>4. \A f : Follows(fat, fat', f)
    BY <1>1, <1>2, FreeOutside DEF Follows, Disk, ChainOf
  <1>5. CASE Recover
    <2>1. PICK n : op' = n /\ n.kind \notin {"create_file", "write"} /\ ~Freeing(n) /\ GrowthRight(op)'
      BY <1>1, <1>5, RecoverGrowth
    <2> QED BY <1>1, <1>3, <1>4, <2>1, TableFilled DEF Fills
  <1>6. CASE op' = [op EXCEPT !.new = c, !.step = "zero"]
    <2>1. PICK n : n = op'
      OBVIOUS
    <2>2. /\ n.kind = op.kind /\ n.entry = op.entry /\ n.at = op.at /\ n.first = op.first
          /\ n.step = "zero" /\ n.need = op.need
      BY <1>1, <1>6, <2>1 DEF Call
    <2>3. FilesFull(op)'
      BY <1>1, <1>3, <1>4, <2>1, TableFilled
    <2>4. GrowthRight(op)'
      <3>1. GrowthOn(fat, op, EntryAt(op.at).size)
        BY GrowthIs DEF Fed
      <3>2. EntryAt(n.at)' = EntryAt(op.at)
        BY <1>1, <2>2 DEF EntryAt
      <3>3. op.kind = "write" =>
              ReachesOn(fat', n.first, RequiredClusters(op.entry.size) - op.need)
        BY <1>1, <1>4, <2>2, <3>1, ReachesKept DEF GrowthOn
      <3>4. GrowthOn(fat', n, EntryAt(n.at)'.size)
        BY <2>2, <3>1, <3>2, <3>3 DEF GrowthOn
      <3> QED BY <2>1, <3>4, GrowthIs
    <2> QED BY <2>3, <2>4 DEF Fills
  <1> QED BY <1>1, <1>2, <1>5, <1>6, ProceedSafe

(* A step that leaves every entry as it was.                               *)
LEMMA StayFilled ==
  ASSUME Fed, EntriesStay, NEW n, op' = n,
         \A l \in LiveOf("file") : \/ Follows(fat, fat', FirstOf(l))
                                   \/ CoveredOn(fat', FirstOf(l), EntryAt(l).size)
                                   \/ Freeing(n) /\ l = n.at,
         Freeing(op) => Freeing(n) /\ n.at = op.at
  PROVE  FilesFull(op)'
  <1>1. ASSUME NEW l \in LiveOf("file")'
        PROVE  \/ FileStays(l, n) \/ CoveredOn(fat', FirstOf(l)', EntryAt(l)'.size)
               \/ Freeing(n) /\ l = n.at
    <2>1. l \in LiveEntries' /\ EntryAt(l)'.kind = "file"
      BY DEF LiveOf
    <2>2. l \in LiveOf("file") /\ EntryAt(l)' = EntryAt(l)
      BY <2>1 DEF EntriesStay, LiveOf
    <2>3. FirstOf(l)' = FirstOf(l)
      BY <2>2 DEF FirstOf
    <2> QED BY <2>2, <2>3 DEF FileStays
  <1> QED BY <1>1, FilledBy DEF Fed

LEMMA WriteFacts ==
  ASSUME Fed, op.kind = "write"
  PROVE  /\ op.at \in LiveOf("file") /\ op.entry.size \in Size /\ op.entry.kind = "file"
         /\ RequiredClusters(op.entry.size) \in Nat
         /\ op.entry.size > 0 => RequiredClusters(op.entry.size) > 0
         /\ RequiredClusters(EntryAt(op.at).size) <= RequiredClusters(op.entry.size)
         /\ op.step = "cut" => op.need = RequiredClusters(op.entry.size)
         /\ ReachesOn(fat, op.first, IF op.step \in Appending THEN RequiredClusters(op.entry.size) - op.need
                                     ELSE RequiredClusters(op.entry.size))
  <1>1. op \in Call /\ WriteRight(op)
    BY PlacedFacts DEF Fed
  <1>2. op.at \in LiveOf("file") /\ op.entry.kind = "file"
    BY <1>1 DEF WriteRight
  <1>3. op.entry.size \in Size
    BY <1>1 DEF Call, Entry
  <1>4. GrowthOn(fat, op, EntryAt(op.at).size)
    BY GrowthIs DEF Fed
  <1> QED BY <1>2, <1>3, <1>4, RequiredIs DEF GrowthOn

LEMMA WriteGoes ==
  ASSUME Fed, op.kind = "write", EntriesStay, NEW n, op' = n,
         n.kind = "write", n.at = op.at, n.entry = op.entry, n.step # "cut",
         ReachesOn(fat', n.first, IF n.step \in Appending THEN RequiredClusters(op.entry.size) - n.need
                                  ELSE RequiredClusters(op.entry.size))
  PROVE  GrowthRight(op)'
  <1>1. EntryAt(n.at)' = EntryAt(op.at)
    BY WriteFacts DEF EntriesStay, LiveOf
  <1>2. GrowthOn(fat', n, EntryAt(n.at)'.size)
    BY <1>1, WriteFacts DEF GrowthOn
  <1> QED BY <1>2, GrowthIs

LEMMA GrowNeed ==
  ASSUME NEW o \in Call
  PROVE  LET n == GrowOrWrite(o)
         IN /\ n.need = o.need /\ n.need \in Nat
            /\ IF o.need > 0 THEN n.step = "mark" ELSE n.step \in {"data", "update"}
  <1> HIDE DEF Operations, Steps
  <1> QED BY DEF GrowOrWrite, DataOrUpdate, Call

LEMMA ReachesOne ==
  ASSUME NEW t, NEW first, NEW n \in Int
  PROVE  /\ first \in Clusters /\ n <= 1 => ReachesOn(t, first, n)
         /\ first \notin Clusters /\ ReachesOn(t, first, n) => n <= 0
         /\ n <= 0 => ReachesOn(t, first, n)
  <1>1. WalkOf(t, first)[0] = first /\ 0 \in 0 .. N
    BY WalkIs
  <1>2. \A k \in 0 .. N : k < 1 => k = 0
    OBVIOUS
  <1> QED BY <1>1, <1>2 DEF ReachesOn

LEMMA NothingCut == UNCHANGED fat => \A f : Follows(fat, fat', f)
  BY DEF Follows

(* A call that fails, once the entries have been seen to stay.             *)
LEMMA RecoverFills ==
  ASSUME Fed, EntriesStay, ~Freeing(op), Recover \/ Complete \/ op' = Idle,
         \A l \in LiveOf("file") : Follows(fat, fat', FirstOf(l))
  PROVE  Fills
  <1>1. PICK n : op' = n /\ n.kind \notin {"create_file", "write"} /\ ~Freeing(n) /\ GrowthRight(op)'
    BY RecoverGrowth DEF Fed, Placed
  <1> QED BY <1>1, StayFilled DEF Fills

LEMMA ZeroFills == ASSUME Fed, ZeroCluster PROVE Fills
  <1>1. /\ op.step = "zero" /\ UNCHANGED fat /\ Before /\ op \in Call /\ EntriesStay /\ op.new \in Clusters
        /\ StepOK(op) /\ CallOK(op)
    BY PlacedFacts, ZeroKeeps DEF ZeroCluster, CallOK, Fed, Placed
  <1>2. op.kind # "remove" /\ ~Freeing(op)
    BY <1>1, FreeingIs DEF StepOK
  <1>3. \A f : Follows(fat, fat', f)
    BY <1>1, NothingCut
  <1>4. PICK n : op' = n
    OBVIOUS
  <1>5. FilesFull(op)'
    BY <1>1, <1>2, <1>3, <1>4, StayFilled
  <1>6. CASE Recover
    BY <1>1, <1>2, <1>3, <1>6, RecoverFills
  <1>7. CASE op.kind = "create_directory" /\ op.first = Free /\ op' = Allocated
    <2>1. n = [op EXCEPT !.first = op.new, !.entry.first = op.new, !.step = "dots"]
      BY <1>4, <1>7 DEF Allocated
    <2>2. n.kind = "create_directory"
      BY ONLY <1>1, <1>7, <2>1 DEF Call
    <2> QED BY <1>4, <1>5, <2>2, GrowthOver DEF Fills
  <1>8. CASE op.kind = "write" /\ op.first = Free /\ op' = Allocated
    <2> DEFINE o == [op EXCEPT !.first = op.new, !.last = op.new, !.need = op.need - 1]
    <2>1. n = GrowOrWrite(o)
      BY <1>1, <1>4, <1>8 DEF Allocated, Call
    <2>2. op.need - 1 \in Nat /\ op.need \in Nat
      BY <1>1, <1>8 DEF CallOK, Call
    <2>3. /\ o \in Call /\ o.first = op.new /\ o.kind = "write" /\ o.at = op.at
          /\ o.entry = op.entry /\ o.need = op.need - 1
      <3> HIDE DEF Operations, Steps
      <3> QED BY <1>1, <1>8, <2>2 DEF Call
    <2> HIDE DEF o
    <2>4. /\ n.kind = "write" /\ n.at = op.at /\ n.entry = op.entry /\ n.first = op.new
          /\ n.step \in {"mark", "data", "update"}
      BY <2>1, <2>3, GrowIs
    <2>5. /\ n.need = op.need - 1
          /\ n.step \notin Appending => op.need = 1
      BY <2>1, <2>2, <2>3, GrowNeed
    <2> DEFINE R == RequiredClusters(op.entry.size)
    <2>6. R \in Nat /\ R - op.need <= 0
      <3>1. R \in Nat /\ ReachesOn(fat, op.first, R - op.need)
        BY <1>1, <1>8, WriteFacts
      <3>2. R - op.need \in Int /\ op.first \notin Clusters
        BY <1>8, <2>2, <3>1, FreeOutside
      <3> QED BY <3>1, <3>2, ReachesOne
    <2> HIDE DEF R
    <2>7. ReachesOn(fat', n.first, IF n.step \in Appending THEN R - n.need ELSE R)
      <3>1. (IF n.step \in Appending THEN R - n.need ELSE R) \in Int
        BY <2>2, <2>5, <2>6
      <3>2. (IF n.step \in Appending THEN R - n.need ELSE R) <= 1
        BY <2>2, <2>5, <2>6
      <3> QED BY <1>1, <2>4, <3>1, <3>2, ReachesOne
    <2>8. GrowthRight(op)'
      BY <1>1, <1>4, <1>8, <2>4, <2>7, WriteGoes DEF R
    <2> QED BY <1>5, <2>8 DEF Fills
  <1>9. CASE op' = [op EXCEPT !.step = "link"]
    <2>1. /\ n.kind = op.kind /\ n.at = op.at /\ n.entry = op.entry /\ n.first = op.first
          /\ n.step = "link" /\ n.need = op.need
      BY <1>1, <1>4, <1>9 DEF Call
    <2>2. CASE op.kind = "write"
      <3>1. ReachesOn(fat', n.first, RequiredClusters(op.entry.size) - n.need)
        BY <1>1, <2>1, <2>2, WriteFacts
      <3> QED BY <1>1, <1>4, <1>5, <2>1, <2>2, <3>1, WriteGoes DEF Fills
    <2>3. CASE op.kind # "write"
      BY <1>4, <1>5, <2>1, <2>3, GrowthGoes DEF Fills
    <2> QED BY <2>2, <2>3
  <1>10. op' = Allocated \/ Recover
    BY <1>1, ProceedSafe DEF ZeroCluster
  <1> QED BY <1>6, <1>7, <1>8, <1>9, <1>10 DEF Allocated

LEMMA ReachesLess ==
  ASSUME NEW t, NEW first, NEW n \in Int, ReachesOn(t, first, n), NEW m \in Int, m <= n
  PROVE  ReachesOn(t, first, m)
  <1>1. \A k \in 0 .. N : k < m => k < n
    OBVIOUS
  <1> QED BY <1>1 DEF ReachesOn

LEMMA LinkFills == ASSUME Fed, LinkCluster PROVE Fills
  <1>1. /\ op.step = "link" /\ UNCHANGED slots /\ fat' = [fat EXCEPT ![op.last] = op.new] /\ Before
        /\ op \in Call /\ EntriesStay /\ op.new \in Clusters /\ StepOK(op) /\ CallOK(op) /\ Disk
        /\ Acyclic(fat) /\ LastRight(op)
    BY PlacedFacts, LinkKeeps DEF LinkCluster, CallOK, Fed, Placed, NoCycle, Acyclic
  <1>2. op.kind # "remove" /\ ~Freeing(op)
    BY <1>1, FreeingIs DEF StepOK
  <1>3. /\ fat[op.last] = EndOfChain /\ op.last \in Clusters
        /\ op.kind = "write" => op.last \in ChainOf(fat, op.first)
    BY <1>1, ChainIs DEF LastRight, ChainOf
  <1>4. fat'[op.last] = op.new /\ \A c \in Clusters \ {op.last} : fat'[c] = fat[c]
    BY <1>1, <1>3 DEF Disk
  <1>5. \A f : Follows(fat, fat', f)
    BY <1>3, <1>4, FreeOutside DEF Follows, ChainOf
  <1>6. PICK n : op' = n
    OBVIOUS
  <1>7. FilesFull(op)'
    BY <1>1, <1>2, <1>5, <1>6, StayFilled
  <1>8. CASE Recover
    BY <1>1, <1>2, <1>5, <1>8, RecoverFills
  <1>9. CASE op.kind = "write" /\ op' = GrowOrWrite([op EXCEPT !.last = op.new, !.need = @ - 1])
    <2> DEFINE o == [op EXCEPT !.last = op.new, !.need = op.need - 1]
    <2>1. n = GrowOrWrite(o)
      BY <1>1, <1>6, <1>9 DEF Call
    <2>2. op.need - 1 \in Nat /\ op.need \in Nat
      BY <1>1, <1>9 DEF CallOK, Call
    <2>3. /\ o \in Call /\ o.first = op.first /\ o.kind = "write" /\ o.at = op.at
          /\ o.entry = op.entry /\ o.need = op.need - 1
      <3> HIDE DEF Operations, Steps
      <3> QED BY <1>1, <1>9, <2>2 DEF Call
    <2> HIDE DEF o
    <2>4. /\ n.kind = "write" /\ n.at = op.at /\ n.entry = op.entry /\ n.first = op.first
          /\ n.step \in {"mark", "data", "update"}
      BY <2>1, <2>3, GrowIs
    <2>5. /\ n.need = op.need - 1
          /\ n.step \notin Appending => op.need = 1
      BY <2>1, <2>2, <2>3, GrowNeed
    <2> DEFINE R == RequiredClusters(op.entry.size)
    <2>6. R \in Nat /\ ReachesOn(fat, op.first, R - op.need)
      BY <1>1, <1>9, WriteFacts
    <2> HIDE DEF R
    <2>7. ReachesOn(fat', op.first, (R - op.need) + 1)
      <3>1. R - op.need \in Int
        BY <2>2, <2>6
      <3> QED BY <1>1, <1>3, <1>4, <1>9, <2>6, <3>1, ReachesLinked
    <2>8. (IF n.step \in Appending THEN R - n.need ELSE R) = (R - op.need) + 1
      BY <2>2, <2>5, <2>6
    <2>9. GrowthRight(op)'
      BY <1>1, <1>6, <1>9, <2>4, <2>7, <2>8, WriteGoes DEF R
    <2> QED BY <1>7, <2>9 DEF Fills
  <1>10. CASE op.kind # "write" /\ op' = [op EXCEPT !.slot = [cluster |-> op.new, slot |-> 0], !.step = "entry"]
    <2>1. n.kind = op.kind /\ n.entry = op.entry
      BY <1>1, <1>6, <1>10 DEF Call
    <2> QED BY <1>6, <1>7, <1>10, <2>1, GrowthGoes DEF Fills
  <1>11. PICK next : /\ next = IF op.kind = "write" THEN GrowOrWrite([op EXCEPT !.last = op.new, !.need = @ - 1])
                              ELSE [op EXCEPT !.slot = [cluster |-> op.new, slot |-> 0], !.step = "entry"]
                     /\ Proceed(next)
    BY DEF LinkCluster
  <1>12. op' = next \/ Recover
    BY <1>1, <1>11, ProceedSafe
  <1> QED BY <1>8, <1>9, <1>10, <1>11, <1>12

LEMMA DotsFills == ASSUME Fed, WriteDots PROVE Fills
  <1>1. /\ op.step = "dots" /\ UNCHANGED fat /\ Before /\ op \in Call /\ EntriesStay /\ StepOK(op)
    BY PlacedFacts, DotsKeep DEF WriteDots, Fed, Placed
  <1>2. op.kind \in {"create_directory", "rename"} /\ ~Freeing(op)
    BY <1>1, FreeingIs DEF StepOK, Call
  <1>3. \A f : Follows(fat, fat', f)
    BY <1>1, NothingCut
  <1>4. CASE Recover
    BY <1>1, <1>2, <1>3, <1>4, RecoverFills
  <1>5. CASE op' = [op EXCEPT !.step = IF op.kind = "rename" THEN "unlink" ELSE "slot"]
    <2>1. PICK n : n = op'
      OBVIOUS
    <2>2. n.kind = op.kind
      BY <1>1, <1>5, <2>1 DEF Call
    <2> QED BY <1>1, <1>2, <1>3, <2>1, <2>2, GrowthOver, StayFilled DEF Fills
  <1> QED BY <1>1, <1>4, <1>5, ProceedSafe DEF WriteDots

LEMMA DataIs ==
  ASSUME NEW o \in Call
  PROVE  LET n == DataOrUpdate(o)
         IN /\ n.kind = o.kind /\ n.at = o.at /\ n.entry = o.entry /\ n.first = o.first
            /\ n.step \in {"data", "update"}
  BY DEF DataOrUpdate, Call

LEMMA WriteDataFills == ASSUME Fed, WriteData PROVE Fills
  <1>1. op.step = "data" /\ op.kind = "write" /\ op \in Call /\ EntriesStay /\ Before
    BY PlacedFacts, WriteDataKeeps DEF WriteData, StepOK, Call, Fed, Placed
  <1>2. ~Freeing(op)
    BY <1>1, FreeingIs
  <1>3. CASE Fail
    BY <1>1, <1>3, FailFills DEF Fail
  <1>4. CASE ~Fail
    <2>1. UNCHANGED fat /\ Proceed(DataOrUpdate([op EXCEPT !.pos = @ + 1]))
      BY <1>4 DEF WriteData
    <2>2. \A f : Follows(fat, fat', f)
      BY <2>1, NothingCut
    <2>3. CASE Recover
      BY <1>1, <1>2, <2>2, <2>3, RecoverFills
    <2>4. CASE op' = DataOrUpdate([op EXCEPT !.pos = @ + 1])
      <3> DEFINE o == [op EXCEPT !.pos = @ + 1]
      <3>1. o \in Call /\ o.kind = op.kind /\ o.at = op.at /\ o.entry = op.entry /\ o.first = op.first
        BY <1>1 DEF Call
      <3> HIDE DEF o
      <3>2. PICK n : n = op' /\ n = DataOrUpdate(o)
        BY <2>4 DEF o
      <3>3. /\ n.kind = op.kind /\ n.at = op.at /\ n.entry = op.entry /\ n.first = op.first
            /\ n.step \in {"data", "update"}
        BY <3>1, <3>2, DataIs
      <3>4. ReachesOn(fat', n.first, RequiredClusters(op.entry.size))
        BY <1>1, <2>1, <3>3, WriteFacts
      <3>5. GrowthRight(op)'
        BY <1>1, <3>2, <3>3, <3>4, WriteGoes
      <3>6. FilesFull(op)'
        BY <1>1, <1>2, <2>2, <3>2, StayFilled
      <3> QED BY <3>5, <3>6 DEF Fills
    <2> QED BY <1>1, <2>1, <2>3, <2>4, ProceedSafe
  <1> QED BY <1>3, <1>4

(* The chain a write works on belongs to its own entry, if to any.         *)
LEMMA WriteAlone ==
  ASSUME Fed, op.kind = "write", NEW l \in LiveEntries, l # op.at
  PROVE  ChainOf(fat, FirstOf(l)) \cap ChainOf(fat, op.first) = {}
  <1>1. /\ \A m \in LiveEntries : EntrySound(m, op)
        /\ Holds(op) /\ Disk /\ TableSound /\ NoCycle
    BY PlacedFacts DEF Fed, Placed, CallSound
  <1>2. fat \in TableType /\ Acyclic(fat) /\ Disjoint(fat)
    BY <1>1, TableFacts
  <1>3. CASE FirstOf(l) \notin Clusters \/ op.first \notin Clusters
    BY <1>3, ChainNone
  <1>4. CASE FirstOf(l) \in Clusters /\ op.first \in Clusters
    <2>1. ~Pointed(FirstOf(l)) /\ \A m \in LiveEntries : FirstOf(m) = FirstOf(l) => m = l
      BY <1>1, <1>4, FreeOutside DEF EntrySound, Twins
    <2>2. ~Pointed(op.first) /\ op.first # FirstOf(l)
      <3>1. CASE Loose(op.first)
        BY <3>1 DEF Loose, Named
      <3>2. CASE op.at \in LiveEntries /\ FirstOf(op.at) = op.first
        BY <1>1, <1>4, <2>1, <3>2, FreeOutside DEF EntrySound
      <3> QED BY <1>1, <1>4, <3>1, <3>2, FreeOutside DEF Holds
    <2>3. \A c \in Clusters : fat[c] # FirstOf(l) /\ fat[c] # op.first
      BY <2>1, <2>2 DEF Pointed
    <2> QED BY <1>2, <2>2, <2>3, ChainsApart
  <1> QED BY <1>3, <1>4

LEMMA CutFills == ASSUME Fed, CutChain PROVE Fills
  <1>1. /\ op.step = "cut" /\ op.kind = "write" /\ op \in Call /\ EntriesStay /\ Before /\ Disk
        /\ Acyclic(fat)
    BY PlacedFacts, CutKeeps DEF CutChain, StepOK, Call, Fed, Placed, NoCycle, Acyclic
  <1>2. ~Freeing(op)
    BY <1>1, FreeingIs
  <1>3. CASE Fail
    BY <1>1, <1>3, FailFills DEF Fail
  <1>4. CASE ~Fail
    <2> DEFINE R == RequiredClusters(op.entry.size)
    <2>1. /\ R \in Nat /\ op.need = R /\ op.at \in LiveOf("file") /\ ReachesOn(fat, op.first, R)
          /\ RequiredClusters(EntryAt(op.at).size) <= R
      BY <1>1, WriteFacts
    <2>2. PICK keep \in Clusters :
            /\ keep = ClusterAt(op.first, op.need - 1)
            /\ fat' = [fat EXCEPT ![keep] = EndOfChain]
      BY <1>4 DEF CutChain
    <2> HIDE DEF R
    <2>3. R - 1 \in 0 .. N /\ WalkOf(fat, op.first)[R - 1] = keep
      <3>1. op.need - 1 \in 0 .. N /\ Walk(op.first)[op.need - 1] = keep
        BY <2>2, FreeOutside DEF ClusterAt
      <3> QED BY <2>1, <3>1 DEF Walk, WalkOf
    <2>4. \A c \in Clusters \ {keep} : fat'[c] = fat[c]
      BY <1>1, <2>2 DEF Disk
    <2>5. ReachesOn(fat', op.first, R)
      BY <1>1, <2>1, <2>3, <2>4, ReachesCut
    <2>6. keep \in ChainOf(fat, op.first)
      BY <2>3 DEF ChainOf
    <2>7. ASSUME NEW l \in LiveOf("file")
          PROVE  Follows(fat, fat', FirstOf(l)) \/ CoveredOn(fat', FirstOf(l), EntryAt(l).size)
      <3>1. CASE l # op.at
        <4>1. keep \notin ChainOf(fat, FirstOf(l))
          BY <1>1, <2>6, <3>1, WriteAlone DEF LiveOf
        <4> QED BY <2>4, <4>1 DEF Follows, ChainOf
      <3>2. CASE l = op.at /\ FirstOf(l) = op.first
        <4>1. CoveredOn(fat, FirstOf(l), EntryAt(l).size)
          BY <1>2, CoveredIs DEF Fed, FilesFull
        <4>2. RequiredClusters(EntryAt(l).size) \in Nat
          <5>1. l \in Location
            BY DEF LiveOf, LiveEntries
          <5>2. EntryAt(l).size \in Size
            BY <1>1, <5>1, FirstType DEF Entry
          <5> QED BY <5>2, RequiredIs
        <4>3. ReachesOn(fat', FirstOf(l), RequiredClusters(EntryAt(l).size))
          BY <2>1, <2>5, <3>2, <4>2, ReachesLess
        <4> QED BY <4>1, <4>3 DEF CoveredOn
      <3>3. CASE l = op.at /\ FirstOf(l) = Free
        <4>1. ChainOf(fat, FirstOf(l)) = {}
          BY <3>3, FreeOutside, ChainNone
        <4> QED BY <4>1 DEF Follows
      <3>4. FirstOf(op.at) \in {Free, op.first}
        BY <1>1, PlacedFacts DEF WriteRight, Fed
      <3> QED BY <3>1, <3>2, <3>3, <3>4
    <2>8. PICK n : n = op'
      OBVIOUS
    <2>9. FilesFull(op)'
      BY <1>1, <1>2, <2>7, <2>8, StayFilled
    <2>10. CASE Recover
      <3>1. PICK m : op' = m /\ m.kind \notin {"create_file", "write"} /\ ~Freeing(m) /\ GrowthRight(op)'
        BY <1>1, <2>10, RecoverGrowth
      <3> QED BY <2>9, <3>1 DEF Fills
    <2>11. CASE \E tail : op' = [op EXCEPT !.cur = tail, !.step = "free"] \/ op' = DataOrUpdate(op)
      <3>1. /\ n.kind = op.kind /\ n.at = op.at /\ n.entry = op.entry /\ n.first = op.first
            /\ n.step \in {"free", "data", "update"}
        <4>1. CASE op' = DataOrUpdate(op)
          BY <1>1, <2>8, <4>1, DataIs
        <4>2. CASE \E tail : op' = [op EXCEPT !.cur = tail, !.step = "free"]
          BY <1>1, <2>8, <4>2 DEF Call
        <4> QED BY <2>11, <4>1, <4>2
      <3>2. GrowthRight(op)'
        BY <1>1, <2>5, <2>8, <3>1, WriteGoes DEF R
      <3> QED BY <2>9, <3>2 DEF Fills
    <2>12. \/ \E tail : Proceed([op EXCEPT !.cur = tail, !.step = "free"])
           \/ Proceed(DataOrUpdate(op))
           \/ Recover
      BY <1>4 DEF CutChain
    <2> QED BY <1>1, <2>10, <2>11, <2>12, ProceedSafe
  <1> QED BY <1>3, <1>4

LEMMA FreeFills == ASSUME Fed, FreeCluster PROVE Fills
  <1>1. /\ op.step = "free" /\ op \in Call /\ EntriesStay /\ Before /\ Disk /\ StepOK(op) /\ CallSound(op)
        /\ TableSound /\ NoCycle /\ \A l \in LiveEntries : EntrySound(l, op)
    BY PlacedFacts, FreeKeeps DEF FreeCluster, Fed, Placed
  <1>2. PICK c : c = op.cur
    OBVIOUS
  <1>3. /\ c \in Clusters /\ ~Pointed(c) /\ fat[c] # Free /\ fat' = [fat EXCEPT ![c] = Free]
        /\ \A l \in LiveEntries : FirstOf(l) = c => op.kind = "remove" /\ l = op.at
    BY <1>1, <1>2 DEF FreeCluster, CallSound
  <1>4. \A b \in Clusters \ {c} : fat'[b] = fat[b]
    BY <1>1, <1>3 DEF Disk
  <1>5. ASSUME NEW f, f # c
        PROVE  Follows(fat, fat', f)
    <2>1. c \notin ChainOf(fat, f)
      BY <1>1, <1>3, <1>5, Chains, ChainIs
    <2> QED BY <1>4, <2>1 DEF Follows, ChainOf
  <1>6. op.kind \in {"create_directory", "write", "remove"}
    BY <1>1 DEF StepOK, Call
  <1>7. PICK n : n = op'
    OBVIOUS
  <1>8. CASE op.kind # "remove"
    <2>1. ~Freeing(op) /\ \A l \in LiveOf("file") : Follows(fat, fat', FirstOf(l))
      BY <1>1, <1>3, <1>5, <1>8, FreeingIs DEF LiveOf
    <2>2. FilesFull(op)'
      BY <1>7, <2>1, <1>1, StayFilled
    <2>3. CASE Recover \/ op' = Idle
      BY <1>1, <2>1, <2>3, RecoverFills
    <2>4. CASE op' = [op EXCEPT !.cur = fat[c]] \/ (op.kind = "write" /\ op' = DataOrUpdate(op))
      <3>1. /\ n.kind = op.kind /\ n.at = op.at /\ n.entry = op.entry /\ n.first = op.first
            /\ n.step \in {"free", "data", "update"}
        <4>1. CASE op' = DataOrUpdate(op)
          BY <1>1, <1>7, <4>1, DataIs
        <4>2. CASE op' = [op EXCEPT !.cur = fat[c]]
          BY <1>1, <1>7, <4>2 DEF Call
        <4> QED BY <2>4, <4>1, <4>2
      <3>2. CASE op.kind = "write"
        <4>1. op.first # c
          BY <1>1, <1>2, <3>2 DEF CallSound
        <4>2. ReachesOn(fat', op.first, RequiredClusters(op.entry.size))
          BY <1>1, <1>5, <3>2, <4>1, WriteFacts, ReachesKept
        <4> QED BY <1>1, <1>7, <2>2, <3>1, <3>2, <4>2, WriteGoes DEF Fills
      <3>3. CASE op.kind # "write"
        BY <1>7, <2>2, <3>1, <3>3, GrowthGoes DEF Fills
      <3> QED BY <3>2, <3>3
    <2>5. \/ Proceed([op EXCEPT !.cur = fat[c]])
          \/ op.kind = "write" /\ Proceed(DataOrUpdate(op))
          \/ Recover \/ op' = Idle
      <3>1. \/ Proceed([op EXCEPT !.cur = fat[c]])
            \/ op.kind = "write" /\ Proceed(DataOrUpdate(op))
            \/ Finish("error") \/ WriteFails(TRUE) \/ Recover
        BY <1>2, <1>8 DEF FreeCluster
      <3> QED BY <3>1 DEF Finish, WriteFails
    <2> QED BY <1>1, <2>3, <2>4, <2>5, ProceedSafe
  <1>9. CASE op.kind = "remove"
    <2>1. \/ fat[c] \in Clusters /\ n = [op EXCEPT !.cur = fat[c]]
          \/ n = [op EXCEPT !.step = "unlink"]
      <3>1. WriteWindow(TRUE)
        BY <1>1, <1>9 DEF WriteWindow
      <3>2. \/ fat[c] \in Clusters /\ Proceed([op EXCEPT !.cur = fat[c]])
            \/ Proceed([op EXCEPT !.step = "unlink"])
        BY <1>2, <1>3, <1>9 DEF FreeCluster
      <3> QED BY <1>1, <1>7, <3>1, <3>2, ProceedSafe
    <2>2. n.kind = "remove" /\ n.at = op.at /\ n.first = op.first
      BY <1>1, <1>9, <2>1 DEF Call
    <2>3. op.at \in LiveEntries /\ FirstOf(op.at) = op.first
      BY <1>1, <1>9, PlacedFacts DEF RemoveRight, CallSound, Fed
    <2>4. op.first # Free => Freeing(n)
      <3>1. CASE fat[c] \in Clusters /\ n = [op EXCEPT !.cur = fat[c]]
        <4>1. n.cur = fat[c]
          BY <1>1, <3>1 DEF Call
        <4>2. op.first # Free => ~Pointed(op.first)
          BY <1>1, <2>3 DEF EntrySound
        <4> QED BY <1>3, <2>2, <4>1, <4>2 DEF Pointed, Freeing
      <3>2. CASE n = [op EXCEPT !.step = "unlink"]
        <4>1. n.step = "unlink"
          BY <1>1, <3>2 DEF Call
        <4> QED BY <2>2, <4>1 DEF Freeing
      <3> QED BY <2>1, <3>1, <3>2
    <2>5. ASSUME NEW l \in LiveOf("file")
          PROVE  Follows(fat, fat', FirstOf(l)) \/ (Freeing(n) /\ l = n.at)
      <3>1. CASE FirstOf(l) # c
        BY <1>5, <3>1
      <3>2. CASE FirstOf(l) = c
        <4>1. l = op.at /\ op.first # Free
          BY <1>3, <2>3, <3>2, FreeOutside DEF LiveOf
        <4> QED BY <2>2, <2>4, <4>1
      <3> QED BY <3>1, <3>2
    <2>6. Freeing(op) => Freeing(n) /\ n.at = op.at
      BY <2>2, <2>4 DEF Freeing
    <2>7. FilesFull(op)'
      BY <1>1, <1>7, <2>5, <2>6, StayFilled
    <2> QED BY <1>7, <2>2, <2>7, GrowthOver DEF Fills
  <1> QED BY <1>8, <1>9

LEMMA UpdateFills == ASSUME Fed, UpdateEntry PROVE Fills
  <1>1. PICK o \in Call : o = op
    BY PlacedFacts DEF Fed
  <1>2. /\ o.step = "update" /\ o.kind = "write" /\ Before /\ Disk /\ UNCHANGED fat /\ Complete
        /\ PutEntry(o.at, [o.entry EXCEPT !.first = o.first])
    BY <1>1, PlacedFacts DEF UpdateEntry, StepOK, Call, Fed, Placed
  <1>3. o.at \in LiveOf("file") /\ ReachesOn(fat, o.first, RequiredClusters(o.entry.size))
        /\ (o.entry.size > 0 => RequiredClusters(o.entry.size) > 0)
    BY <1>1, <1>2, WriteFacts
  <1> DEFINE e == [o.entry EXCEPT !.first = o.first]
  <1>4. e.first = o.first /\ e.size = o.entry.size
    BY DEF Call, Entry
  <1>5. ~Freeing(op)
    BY <1>1, <1>2, FreeingIs
  <1>6. PICK n : op' = n /\ n.kind \notin {"create_file", "write"} /\ ~Freeing(n) /\ GrowthRight(op)'
    BY <1>2, RecoverGrowth
  <1>7. o.at \in Location
    BY <1>3 DEF LiveOf, LiveEntries
  <1> HIDE DEF e
  <1>8. /\ \A l \in Location : EntryAt(l)' = IF l = o.at THEN e ELSE EntryAt(l)
        /\ \A l \in LiveEntries' : l \in Location /\ (l = o.at \/ l \in LiveEntries)
    BY <1>2, <1>7, SlotPut DEF e
  <1>9. ASSUME NEW l \in LiveOf("file")'
        PROVE  FileStays(l, n) \/ CoveredOn(fat', FirstOf(l)', EntryAt(l)'.size)
    <2>1. l \in LiveEntries' /\ EntryAt(l)'.kind = "file"
      BY DEF LiveOf
    <2>2. CASE l = o.at
      <3>1. EntryAt(l)' = e /\ FirstOf(l)' = o.first
        BY <1>4, <1>7, <1>8, <2>2 DEF FirstOf
      <3>2. CoveredOn(fat', o.first, o.entry.size)
        BY <1>2, <1>3 DEF CoveredOn
      <3> QED BY <1>4, <3>1, <3>2
    <2>3. CASE l # o.at
      <3>1. l \in LiveEntries /\ EntryAt(l)' = EntryAt(l)
        BY <1>8, <2>1, <2>3
      <3> QED BY <1>2, <1>5, <2>1, <3>1, NothingCut DEF FileStays, LiveOf
    <2> QED BY <2>2, <2>3
  <1>10. FilesFull(op)'
    BY <1>6, <1>9, FilledBy DEF Fed
  <1> QED BY <1>6, <1>10 DEF Fills

LEMMA WriteEntryFills == ASSUME Fed, WriteEntry PROVE Fills
  <1>1. PICK o \in Call : o = op
    BY PlacedFacts DEF Fed
  <1>2. /\ o.step = "entry" /\ o.kind \in {"create_file", "create_directory", "rename"}
        /\ \A l \in Location : l # o.slot => EntryAt(l)' = EntryAt(l) /\ FirstOf(l)' = FirstOf(l)
        /\ EntryAt(o.slot)' = o.entry
        /\ \A l \in LiveEntries' : l \in Location /\ (l = o.slot \/ l \in LiveEntries)
        /\ UNCHANGED fat
        /\ IF o.kind = "rename" /\ o.slot # o.at
           THEN op' = [o EXCEPT !.step = IF o.entry.kind = "dir" THEN "dots" ELSE "unlink"]
           ELSE Complete
    BY <1>1, EntryEffect DEF Fed
  <1>3. Before /\ Disk
    BY PlacedFacts DEF Fed, Placed
  <1>4. ~Freeing(op)
    BY <1>1, <1>2, <1>3, FreeingIs
  <1>5. PICK n : op' = n /\ GrowthRight(op)'
    <2>1. CASE Complete
      BY <1>3, <2>1, RecoverGrowth
    <2>2. CASE o.kind = "rename" /\ op' = [o EXCEPT !.step = IF o.entry.kind = "dir" THEN "dots" ELSE "unlink"]
      <3>1. PICK n : n = op'
        OBVIOUS
      <3>2. n.kind = "rename"
        BY <2>2, <3>1 DEF Call
      <3> QED BY <3>1, <3>2, GrowthOver
    <2> QED BY <1>2, <2>1, <2>2
  <1>6. o.entry.kind = "file" => CoveredOn(fat', o.entry.first, o.entry.size)
    <2>1. CASE o.kind = "create_file"
      <3>1. o.entry.first = Free /\ o.entry.size = 0
        BY <1>1, <2>1, PlacedFacts DEF CallSound, GrowthRight, Fed
      <3>2. 0 \in Size /\ RequiredClusters(0) = 0
        BY DEF Size, RequiredClusters
      <3> QED BY <3>1, <3>2, ReachesOne DEF CoveredOn
    <2>2. CASE o.kind = "create_directory"
      BY <1>1, <1>2, <2>2, PlacedFacts DEF CreateRight, Enters, Fed
    <2>3. CASE o.kind = "rename" /\ o.entry.kind = "file"
      <3>1. o.at \in LiveEntries /\ o.entry = [EntryAt(o.at) EXCEPT !.name = o.entry.name]
        BY <1>1, <2>3, PlacedFacts DEF RenameRight, Fed
      <3>2. EntryAt(o.at) \in Entry
        BY <1>3, <3>1, FirstType DEF LiveEntries
      <3>3. o.entry.kind = EntryAt(o.at).kind /\ o.entry.first = FirstOf(o.at) /\ o.entry.size = EntryAt(o.at).size
        BY <3>1, <3>2 DEF Entry, FirstOf
      <3>4. Covered(FirstOf(o.at), EntryAt(o.at).size)
        BY <1>4, <2>3, <3>1, <3>3 DEF Fed, FilesFull, LiveOf
      <3> QED BY <1>2, <3>3, <3>4, CoveredIs
    <2> QED BY <1>2, <2>1, <2>2, <2>3
  <1>7. ASSUME NEW l \in LiveOf("file")'
        PROVE  FileStays(l, n) \/ CoveredOn(fat', FirstOf(l)', EntryAt(l)'.size)
    <2>1. l \in LiveEntries' /\ EntryAt(l)'.kind = "file"
      BY DEF LiveOf
    <2>2. CASE l = o.slot
      BY <1>2, <1>6, <2>1, <2>2 DEF FirstOf
    <2>3. CASE l # o.slot
      <3>1. l \in LiveEntries /\ EntryAt(l)' = EntryAt(l)
        BY <1>2, <2>1, <2>3
      <3> QED BY <1>2, <1>4, <2>1, <3>1, NothingCut DEF FileStays, LiveOf
    <2> QED BY <2>2, <2>3
  <1>8. FilesFull(op)'
    BY <1>5, <1>7, FilledBy DEF Fed
  <1> QED BY <1>5, <1>8 DEF Fills

LEMMA GoneFills ==
  ASSUME Fed, UNCHANGED fat, EntriesShrink, Recover \/ Complete \/ op' = Idle,
         Freeing(op) => op.at \notin LiveEntries'
  PROVE  Fills
  <1>1. PICK n : op' = n /\ n.kind \notin {"create_file", "write"} /\ ~Freeing(n) /\ GrowthRight(op)'
    BY RecoverGrowth DEF Fed, Placed
  <1>2. ASSUME NEW l \in LiveOf("file")'
        PROVE  FileStays(l, n)
    <2>1. l \in LiveEntries' /\ EntryAt(l)'.kind = "file"
      BY DEF LiveOf
    <2>2. l \in LiveEntries /\ EntryAt(l)' = EntryAt(l)
      BY <2>1, EntryMapped
    <2> QED BY <2>1, <2>2, NothingCut DEF FileStays, LiveOf
  <1>3. FilesFull(op)'
    BY <1>1, <1>2, FilledBy DEF Fed
  <1> QED BY <1>1, <1>3 DEF Fills

LEMMA UnlinkFills == ASSUME Fed, UnlinkEntry PROVE Fills
  <1>1. UNCHANGED fat /\ Complete /\ PutEntry(op.at, Mark("deleted")) /\ Disk /\ op.at \in Location
    BY PlacedFacts DEF UnlinkEntry, Fed, Call
  <1>2. "deleted" \in Kinds \ Live
    BY DEF Live
  <1>3. EntriesShrink /\ op.at \notin LiveEntries'
    BY <1>1, <1>2, PutShrinks
  <1> QED BY <1>1, <1>3, GoneFills

LEMMA UndoFills == ASSUME Fed, UndoEntry PROVE Fills
  <1>1. /\ UNCHANGED fat /\ PutEntry(op.slot, Mark("deleted")) /\ Disk /\ op.slot \in Location
        /\ op.step = "undo" /\ StepOK(op) /\ Before
    BY PlacedFacts DEF UndoEntry, Fed, Placed, Call
  <1>2. Recover \/ op' = Idle
    BY DEF UndoEntry, Finish, WriteFails
  <1>3. "deleted" \in Kinds \ Live
    BY DEF Live
  <1>4. EntriesShrink
    BY <1>1, <1>3, PutShrinks
  <1>5. ~Freeing(op)
    BY <1>1, FreeingIs DEF StepOK
  <1> QED BY <1>1, <1>2, <1>4, <1>5, GoneFills

(* A write begins with a chain as long as it is, and the rest to append.   *)
LEMMA ResizeGrowth ==
  ASSUME NoCycle, NEW call \in Call, call.kind = "write", ChainEnds(call.first),
         NEW n, n = Resize(call), NEW R, R = RequiredClusters(call.entry.size)
  PROVE  /\ n.kind = "write" /\ n.at = call.at /\ n.entry = call.entry
         /\ n.step = "cut" => n.need = R
         /\ ReachesOn(fat, n.first, IF n.step \in Appending THEN R - n.need ELSE R)
  <1> DEFINE have == fat32_chain_length(call.first)
             last == IF call.first = Free THEN Free
                     ELSE CHOOSE l \in LastCluster(call.first) : TRUE
             o    == [call EXCEPT !.need = R - have, !.last = last]
  <1>1. \/ R = 0 /\ n = DataOrUpdate(call)
        \/ R = 0 /\ n = [call EXCEPT !.first = Free, !.cur = call.first, !.step = "free"]
        \/ R < have /\ n = [call EXCEPT !.need = R, !.step = "cut"]
        \/ ~(R < have) /\ n = GrowOrWrite(o)
    BY DEF Resize
  <1>2. R \in Nat /\ have \in Nat /\ ReachesOn(fat, call.first, have)
    <2>1. call.entry.size \in Size
      BY DEF Call, Entry
    <2> QED BY <2>1, RequiredIs, ReachesLength, ReachesIs
  <1>3. last \in Clusters \cup {Free}
    BY LastType DEF ChainEnds
  <1> HIDE DEF have, last
  <1>4. CASE R = 0 /\ n = DataOrUpdate(call)
    BY <1>4, DataIs, ReachesOne
  <1>5. CASE R = 0 /\ n = [call EXCEPT !.first = Free, !.cur = call.first, !.step = "free"]
    <2>1. n.kind = "write" /\ n.at = call.at /\ n.entry = call.entry /\ n.step = "free"
      BY ONLY <1>5, call.kind = "write", call \in Call DEF Call
    <2> QED BY <1>5, <2>1, ReachesOne
  <1>6. CASE R < have /\ n = [call EXCEPT !.need = R, !.step = "cut"]
    <2>1. n.kind = "write" /\ n.at = call.at /\ n.entry = call.entry /\ n.step = "cut"
          /\ n.need = R /\ n.first = call.first
      BY ONLY <1>6, call.kind = "write", call \in Call DEF Call
    <2>2. ReachesOn(fat, call.first, R)
      BY <1>2, <1>6, ReachesLess
    <2> QED BY <2>1, <2>2
  <1>7. CASE ~(R < have) /\ n = GrowOrWrite(o)
    <2>1. R - have \in Nat
      BY <1>2, <1>7
    <2>2. /\ o \in Call /\ o.kind = "write" /\ o.at = call.at /\ o.entry = call.entry
          /\ o.first = call.first /\ o.need = R - have
      <3> HIDE DEF Operations, Steps
      <3> QED BY <1>3, <2>1 DEF Call
    <2> HIDE DEF o
    <2>3. /\ n.kind = "write" /\ n.at = call.at /\ n.entry = call.entry /\ n.first = call.first
          /\ n.step \in {"mark", "data", "update"}
      BY <1>7, <2>2, GrowIs
    <2>4. n.need = R - have /\ (n.step \notin Appending => R - have = 0)
      BY <1>7, <2>1, <2>2, GrowNeed
    <2>5. (IF n.step \in Appending THEN R - n.need ELSE R) = have
      BY <1>2, <2>4
    <2> QED BY <1>2, <2>3, <2>5
  <1> QED BY <1>1, <1>4, <1>5, <1>6, <1>7

LEMMA RequestFills == ASSUME Fed, Request PROVE Fills
  <1>1. PICK path \in Paths :
          \/ fat32_create_file(path)
          \/ fat32_create_directory(path)
          \/ \E offset \in Offsets, length \in Lengths : fat32_write(path, offset, length)
          \/ \E new_path \in Paths : fat32_rename(path, new_path)
          \/ fat32_remove(path)
    BY DEF Request
  <1>2. /\ op.step = "idle" /\ UNCHANGED <<fat, slots>> /\ Before /\ StepOK(op) /\ NoCycle /\ ~damaged'
        /\ Disk
    BY <1>1, PlacedFacts DEF fat32_create_file, fat32_create_directory, fat32_write, fat32_rename,
       fat32_remove, Ready, Fed, Placed, Before
  <1>3. ~Freeing(op)
    BY <1>2, FreeingIs DEF HalfRemoved
  <1>4. PICK n : n = op'
    OBVIOUS
  <1>5. FilesFull(op)'
    BY <1>2, <1>3, <1>4, SameSlots, FilesSame
  <1>6. Idle \in Call
    BY IdleType
  <1>7. CASE op' = Idle
    BY <1>2, <1>5, <1>7, RecoverGrowth DEF Fills
  <1>8. ASSUME fat32_create_file(path), op' # Idle
        PROVE  GrowthRight(op)'
    <2>1. PICK dir :
            n = [Idle EXCEPT !.kind = "create_file", !.step = "slot", !.dir = dir,
                   !.entry = fat32_build_entry("file", NameOf(path), Free, 0)]
      BY <1>4, <1>8 DEF fat32_create_file, Refuse, Finish, Begin
    <2>2. n.kind = "create_file" /\ n.entry.size = 0
      BY <1>6, <2>1 DEF Call, fat32_build_entry
    <2>3. GrowthOn(fat', n, EntryAt(n.at)'.size)
      BY <2>2 DEF GrowthOn
    <2> QED BY <1>4, <2>3, GrowthIs
  <1>9. ASSUME fat32_create_directory(path) \/ fat32_remove(path), op' # Idle
        PROVE  n.kind \notin {"create_file", "write"}
    <2>1. CASE fat32_create_directory(path)
      <3>1. PICK dir, entry :
              n = [Idle EXCEPT !.kind = "create_directory", !.step = "mark", !.dir = dir, !.entry = entry]
        BY <1>4, <1>9, <2>1 DEF fat32_create_directory, Refuse, Finish, Begin
      <3> QED BY <1>6, <3>1 DEF Call
    <2>2. CASE fat32_remove(path)
      <3>1. PICK loc \in Lookup(path) :
              n = [Idle EXCEPT !.kind = "remove", !.at = loc,
                     !.first = EntryAt(loc).first, !.cur = EntryAt(loc).first,
                     !.step = IF EntryAt(loc).first = Free THEN "unlink" ELSE "free"]
        BY <1>4, <1>9, <2>2 DEF fat32_remove, Refuse, Finish, Begin
      <3> QED BY <1>6, <3>1 DEF Call
    <2> QED BY <1>9, <2>1, <2>2
  <1>10. ASSUME NEW new_path \in Paths, fat32_rename(path, new_path), op' # Idle
         PROVE  n.kind \notin {"create_file", "write"}
    <2>1. PICK loc \in Lookup(path) : n = RenameCall(loc, ParentOf(path), ParentOf(new_path), NameOf(new_path))
      BY <1>4, <1>10 DEF fat32_rename, Refuse, Finish, Begin
    <2> QED BY <1>6, <2>1 DEF RenameCall, Call
  <1>11. ASSUME NEW offset \in Offsets, NEW length \in Lengths,
                fat32_write(path, offset, length), op' # Idle
         PROVE  GrowthRight(op)'
    <2>1. PICK loc \in Lookup(path) :
            /\ offset + length < Word /\ EntryAt(loc).kind = "file"
            /\ ChainEnds(EntryAt(loc).first)
            /\ n = Resize(WriteCall(loc, EntryAt(loc), offset, length))
            /\ LET size == NewSize(EntryAt(loc), offset, length)
               IN ~(size > 0 /\ RequiredClusters(size) = 0)
      BY <1>2, <1>4, <1>11 DEF fat32_write, Refuse, Finish, Begin
    <2>2. loc \in Location /\ EntryAt(loc) \in Entry /\ TypeInv
      BY <1>2, LookupPlaced, FirstType DEF Before
    <2> DEFINE call == WriteCall(loc, EntryAt(loc), offset, length)
               size == NewSize(EntryAt(loc), offset, length)
               old  == EntryAt(loc).size
    <2>3. /\ call \in Call /\ call.kind = "write" /\ call.at = loc /\ call.first = FirstOf(loc)
          /\ call.entry = [EntryAt(loc) EXCEPT !.size = size]
          /\ call.entry.size = size /\ call.step = "idle"
      <3>1. /\ TypeInv /\ loc \in Location /\ EntryAt(loc) \in Entry
            /\ offset \in Offsets /\ length \in Lengths /\ offset + length < Word
        BY <2>1, <2>2
      <3> QED BY ONLY <3>1, WriteCallFields DEF FirstOf
    <2>4. size >= old /\ size \in Size /\ old \in Size
      <3>1. size >= old /\ size \in Nat /\ old \in Nat
        BY <2>2, NewSizeGrows
      <3>2. call.entry.size \in Size /\ old \in Size
        BY <2>2, <2>3 DEF Call, Entry
      <3> QED BY <2>3, <3>1, <3>2
    <2>5. ~(size > 0 /\ RequiredClusters(size) = 0) /\ ChainEnds(call.first) /\ n = Resize(call)
      BY <2>1, <2>3 DEF FirstOf
    <2> HIDE DEF call, size
    <2>6. RequiredClusters(size) \in Nat /\ (size > 0 => RequiredClusters(size) > 0)
      BY <2>4, <2>5, RequiredIs
    <2>7. RequiredClusters(old) <= RequiredClusters(size)
      <3> HIDE DEF old
      <3>1. old \in Nat /\ size \in Nat
        BY <2>4 DEF Size
      <3>2. old <= size
        BY <2>4, <3>1
      <3> QED BY <2>4, <2>6, <3>2, RequiredGrows
    <2>8. /\ n.kind = "write" /\ n.at = loc /\ n.entry = call.entry
          /\ n.step = "cut" => n.need = RequiredClusters(size)
          /\ ReachesOn(fat, n.first, IF n.step \in Appending THEN RequiredClusters(size) - n.need
                                     ELSE RequiredClusters(size))
      <3>1. PICK R : R = RequiredClusters(call.entry.size) /\ R = RequiredClusters(size)
        BY <2>3
      <3>2. /\ n.kind = "write" /\ n.at = call.at /\ n.entry = call.entry
            /\ n.step = "cut" => n.need = R
            /\ ReachesOn(fat, n.first, IF n.step \in Appending THEN R - n.need ELSE R)
        <4>1. NoCycle /\ call \in Call /\ call.kind = "write" /\ ChainEnds(call.first) /\ n = Resize(call)
          BY <1>2, <2>3, <2>5
        <4> QED BY ONLY <3>1, <4>1, ResizeGrowth
      <3> QED BY <2>3, <3>1, <3>2
    <2>9. EntryAt(loc)' = EntryAt(loc) /\ fat' = fat
      BY <1>2 DEF EntryAt
    <2>10. GrowthOn(fat', n, EntryAt(n.at)'.size)
      BY <2>3, <2>6, <2>7, <2>8, <2>9 DEF GrowthOn
    <2> QED BY <1>4, <2>10, GrowthIs
  <1>12. op' # Idle => GrowthRight(op)'
    BY <1>1, <1>4, <1>8, <1>9, <1>10, <1>11, GrowthOver
  <1> QED BY <1>5, <1>7, <1>12 DEF Fills

LEMMA NextFills == ASSUME Fed, [Next]_vars PROVE Fills
  <1>1. CASE UNCHANGED vars
    <2>1. PICK n : n = op /\ n = op' /\ UNCHANGED <<fat, slots>>
      BY <1>1 DEF vars
    <2>2. FilesFull(op)'
      BY <2>1, SameSlots, FilesSame
    <2>3. EntryAt(n.at)' = EntryAt(n.at)
      BY <2>1 DEF EntryAt
    <2>4. GrowthOn(fat', n, EntryAt(n.at)'.size)
      BY <2>1, <2>3, GrowthIs DEF Fed
    <2> QED BY <2>1, <2>2, <2>4, GrowthIs DEF Fills
  <1>2. CASE Next
    BY <1>2, RequestFills, FindSlotFills, DiskFullFills, MarkFills, ZeroFills, LinkFills, DotsFills,
       WriteEntryFills, UnlinkFills, UndoFills, CutFills, FreeFills, WriteDataFills, UpdateFills,
       WriteLostFills, PowerLossFills DEF Next, Step
  <1> QED BY <1>1, <1>2

LEMMA SizedStep ==
  TypeOK /\ TypeOK' /\ Arranged /\ Arranged' /\ Sized /\ [Next]_vars => Sized'
  <1> SUFFICES ASSUME TypeOK, TypeOK', Arranged, Arranged', Sized, [Next]_vars, ~damaged'
               PROVE  FilesFull(op)' /\ GrowthRight(op)'
    BY DEF Sized
  <1>1. Placed
    BY ArrangedPlaced
  <1>2. Fed
    BY <1>1 DEF Fed, Sized, Placed, Before
  <1> QED BY <1>2, NextFills DEF Fills

LEMMA InitSized == ASSUME Init PROVE Sized
  <1>1. \A l \in Location : EntryAt(l) = Mark("end")
    BY DEF Init, EntryAt, Location
  <1>2. LiveEntries = {}
    BY <1>1 DEF LiveEntries, Live, Mark, fat32_build_entry
  <1>3. FilesFull(op)
    BY <1>2 DEF FilesFull, LiveOf
  <1>4. GrowthRight(op)
    BY DEF Init, Idle, GrowthRight
  <1> QED BY <1>3, <1>4 DEF Sized

-----------------------------------------------------------------------------
(* What holds at every moment.                                             *)

(* At every moment of every call, with any disk faults outside the windows *)
(* of Fat32, everything is in its place and every directory comes down     *)
(* from the root: also while fat32_rename moves one, whose destination is  *)
(* above by the check of fat32_directory_is_descendant, and stays so until *)
(* the dot entries name it.  As long as nothing has failed, what an        *)
(* operation has in hand is on the way to where an entry will lead to it.  *)
(* And every file has the clusters its size takes.                         *)
THEOREM Fat32Consistent == Spec => []Consistent
  <1>1. Init => Rooted
    BY InitRooted
  <1>2. TypeOK /\ TypeOK' /\ Arranged /\ Arranged' /\ Rooted /\ [Next]_vars => Rooted'
    <2> SUFFICES ASSUME TypeOK, TypeOK', Arranged, Arranged', Rooted, [Next]_vars, ~damaged'
                 PROVE  Upward(op)' /\ MoveRight(op)'
      BY DEF Rooted
    <2>1. Placed
      BY ArrangedPlaced
    <2>2. Upward(op) /\ MoveRight(op)
      BY <2>1 DEF Placed, Before, Rooted
    <2> QED BY <2>1, <2>2, NextRooted
  <1>3. Arranged /\ Rooted /\ Kept /\ Sized <=> Consistent
    BY DEF Consistent
  <1> QED BY <1>1, <1>2, <1>3, InitKept, KeptStep, InitSized, SizedStep, Fat32TypeOK, Fat32Arranged, PTL
          DEF Spec

(* As long as no disk fault strikes, no step of any operation loses a      *)
(* cluster: every cluster in use is led to by an entry or by the           *)
(* operation in progress, and goes on being so until it is free again; but *)
(* for fat32_write giving up, for want of space, on a file that was empty. *)
THEOREM Fat32NoClusterLost == Spec => NoClusterLost
  <1>1. TypeOK /\ TypeOK' /\ Arranged /\ Arranged' /\ Kept /\ [Next]_vars
          => [faults' = 0 /\ ~damaged' /\ ~GivesUpOnEmptyFile => Orphans' \subseteq Orphans]_vars
    BY CalmStays, NextSafe, OrphansLed DEF Safe
  <1>2. Consistent => Arranged /\ Kept
    BY DEF Consistent
  <1> QED BY <1>1, <1>2, Fat32TypeOK, Fat32Consistent, PTL DEF Spec, NoClusterLost

(* A directory that is not reached level by level leads up to one that is, *)
(* by Upward, and the levels stop growing before the search does: each     *)
(* that is new has a cluster more.                                         *)
LEMMA GrowthStops ==
  ASSUME NEW f, f[0] # {}, \A k \in 0 .. N : f[k] \subseteq Clusters,
         \A k \in 1 .. N : f[k - 1] \subseteq f[k]
  PROVE  \E k \in 1 .. N : f[k] = f[k - 1]
  <1> SUFFICES ASSUME \A k \in 1 .. N : f[k] # f[k - 1] PROVE FALSE
    OBVIOUS
  <1> DEFINE Bad == {k \in 0 .. N : ~(Cardinality(f[k]) >= k + 1)}
  <1>1. N \in Nat /\ IsFiniteSet(Clusters) /\ Cardinality(Clusters) = N
    BY FS_Interval DEF Clusters
  <1>2. \A k \in 0 .. N : IsFiniteSet(f[k]) /\ Cardinality(f[k]) \in Nat /\ Cardinality(f[k]) <= N
    BY <1>1, FS_Subset, FS_CardinalityType
  <1>3. ASSUME Bad # {} PROVE FALSE
    <2>1. PICK k \in Bad : \A j \in Bad : k <= j
      <3>1. Bad \in SUBSET Nat
        OBVIOUS
      <3> HIDE DEF Bad
      <3> QED BY <1>3, <3>1, LeastNatural
    <2>2. k \in 0 .. N /\ ~(Cardinality(f[k]) >= k + 1)
      BY <2>1
    <2>3. k # 0
      <3>1. 0 \in 0 .. N /\ Cardinality(f[0]) # 0
        BY <1>1, <1>2, FS_EmptySet
      <3> QED BY <1>2, <2>2, <3>1
    <2>4. k \in 1 .. N /\ k - 1 \in 0 .. N /\ ~(k <= k - 1)
      BY <2>2, <2>3
    <2>5. Cardinality(f[k - 1]) >= k
      BY <2>1, <2>4
    <2>6. Cardinality(f[k - 1]) <= Cardinality(f[k]) /\ Cardinality(f[k - 1]) # Cardinality(f[k])
      <3>1. f[k - 1] \subseteq f[k] /\ f[k] # f[k - 1] /\ IsFiniteSet(f[k])
        BY <1>2, <2>4
      <3> QED BY ONLY <3>1, FS_Subset
    <2>7. Cardinality(f[k]) \in Nat /\ Cardinality(f[k - 1]) \in Nat
      BY <1>2, <2>4
    <2> QED BY ONLY <2>2, <2>5, <2>6, <2>7, <2>4, <1>1
  <1>4. N \in 0 .. N
    BY <1>1
  <1>5. Cardinality(f[N]) >= N + 1
    BY <1>3, <1>4
  <1> QED BY <1>1, <1>2, <1>4, <1>5

(* Between calls: the entries of a directory are those in its chain.       *)
LEMMA EntriesWithin ==
  ASSUME fat \in TableType, Acyclic(fat), EndsTidy, NEW d \in DirectoryHeads,
         NEW l \in LiveEntries, Within(l, d)
  PROVE  l \in EntriesOf(d)
  <1>1. l \in Location /\ EntryAt(l).kind \in Live
    BY DEF LiveEntries
  <1>2. PICK p \in Positions(d) : LocationOf(d, p) = l
    BY <1>1, PositionAt
  <1>3. KindAt(d, p) = EntryAt(l).kind
    BY <1>2, PositionIn
  <1>4. p \in Scanned(d)
    BY <1>1, <1>2, <1>3, LiveScanned DEF EndsTidy, Live
  <1> QED BY <1>1, <1>2, <1>3, <1>4 DEF EntriesOf

LEMMA HeadsReached ==
  ASSUME fat \in TableType, Acyclic(fat), EndsTidy, DirectoryHeads \subseteq Clusters,
         NEW o, Upward(o)
  PROVE  DirectoryHeads \subseteq Directories
  <1> DEFINE f == CHOOSE g : Levels(g, N)
  <1>1. Levels(f, N)
    BY LevelsExist
  <1>2. Directories = f[N]
    BY Zenon DEF Directories, Levels, Children
  <1> HIDE DEF f
  <1>3. N \in Nat
    OBVIOUS
  <1>4. f[0] = {Root} /\ \A k \in 1 .. N : f[k] = f[k - 1] \cup Children(f[k - 1])
    BY ONLY <1>1, <1>3, LevelsIs
  <1>5. \A k \in 0 .. N : f[k] \subseteq DirectoryHeads
    BY <1>1, LevelsNamed
  <1>6. PICK k \in 1 .. N : f[k] = f[k - 1]
    <2>1. f[0] # {} /\ \A j \in 0 .. N : f[j] \subseteq Clusters
      BY <1>4, <1>5
    <2>2. \A j \in 1 .. N : f[j - 1] \subseteq f[j]
      BY <1>4
    <2> QED BY <2>1, <2>2, GrowthStops
  <1>7. \A j \in 0 .. N : j >= k - 1 => f[j] = f[k]
    <2> DEFINE Bad == {j \in k .. N : f[j] # f[k]}
    <2>1. ASSUME Bad # {} PROVE FALSE
      <3>1. PICK j \in Bad : \A i \in Bad : j <= i
        <4>1. Bad \in SUBSET Nat
          OBVIOUS
        <4> HIDE DEF Bad
        <4> QED BY <2>1, <4>1, LeastNatural
      <3>2. j \in 1 .. N /\ j - 1 \in k .. N /\ ~(j <= j - 1) /\ f[j] # f[k]
        BY <3>1
      <3>3. f[j - 1] = f[k]
        BY <3>1, <3>2
      <3>4. f[j] = f[j - 1] \cup Children(f[j - 1]) /\ f[k] = f[k - 1] \cup Children(f[k - 1])
        BY <1>4, <3>2
      <3> QED BY ONLY <1>6, <3>2, <3>3, <3>4
    <2>2. \A j \in 0 .. N : j >= k - 1 => j = k - 1 \/ j \in k .. N
      OBVIOUS
    <2> QED BY <1>6, <2>1, <2>2
  <1>8. Root \in f[k]
    <2> DEFINE Bad == {j \in 0 .. N : Root \notin f[j]}
    <2>1. ASSUME Bad # {} PROVE FALSE
      <3>1. PICK j \in Bad : \A i \in Bad : j <= i
        <4>1. Bad \in SUBSET Nat
          OBVIOUS
        <4> HIDE DEF Bad
        <4> QED BY <2>1, <4>1, LeastNatural
      <3>2. j # 0
        BY <1>4
      <3>3. j \in 1 .. N /\ j - 1 \in 0 .. N /\ ~(j <= j - 1)
        BY <3>2
      <3> QED BY <1>4, <3>1, <3>3
    <2> QED BY <2>1
  <1>9. DirectoryHeads \ f[k] = {}
    <2> SUFFICES ASSUME DirectoryHeads \ f[k] # {} PROVE FALSE
      OBVIOUS
    <2> DEFINE S == DirectoryHeads \ f[k]
    <2>1. S \in SUBSET (DirectoryHeads \ {Root}) /\ S # {}
      BY <1>8
    <2>2. PICK h \in S, d \in DirectoryHeads \ S : Leads(h, d, o)
      BY <2>1 DEF Upward
    <2>3. PICK l \in LiveOf("dir") : FirstOf(l) = h /\ Within(l, d)
      BY <2>2 DEF Leads
    <2>4. l \in EntriesOf(d) /\ EntryAt(l).kind = "dir"
      BY <2>2, <2>3, EntriesWithin DEF LiveOf
    <2>5. d \in f[k - 1] /\ f[k] = f[k - 1] \cup Children(f[k - 1])
      BY <1>4, <1>6, <2>2
    <2>6. h \in Children(f[k - 1])
      BY <2>3, <2>4, <2>5 DEF Children
    <2> QED BY <2>2, <2>5, <2>6
  <1>10. f[N] = f[k]
    BY <1>7
  <1> QED BY <1>2, <1>9, <1>10

(* Between operations the directories form a tree, whatever the calls, and *)
(* whatever disk faults struck outside the windows: every entry is reached *)
(* from the root, and the dot entries of a directory name it and its       *)
(* parent, by which fat32_directory_is_descendant finds its way.           *)
THEOREM Fat32DirectoriesFormTree == Spec => []DirectoriesFormTree
  <1>1. TypeOK /\ Consistent => DirectoriesFormTree
    <2> SUFFICES ASSUME TypeOK, Consistent, Quiet PROVE EveryEntryReachable /\ DotsNameParent
      BY DEF DirectoriesFormTree
    <2>1. /\ ~damaged /\ op.step = "idle" /\ Sound(op) /\ NoCycle /\ Volume(op) /\ LayoutOf(op)
          /\ Upward(op)
      BY DEF Quiet, Consistent, Arranged, Ownership, ChainsFinite, Layout, Rooted
    <2>2. Disk /\ op \in Call
      BY DEF TypeOK, Disk
    <2>3. /\ Separate /\ fat \in TableType /\ Acyclic(fat)
          /\ \A l \in LiveEntries : EntrySound(l, op)
      BY <2>1, <2>2, IsSeparate, TableFacts DEF Volume, LayoutOf, Sound
    <2>4. DirectoryHeads \subseteq Clusters
      BY <2>3 DEF Separate
    <2>5. DirectoryHeads \subseteq Directories
      BY <2>1, <2>3, <2>4, HeadsReached DEF Volume
    <2>6. EveryEntryReachable
      <3> SUFFICES ASSUME NEW l \in LiveEntries PROVE \E d \in Directories : l \in EntriesOf(d)
        BY DEF EveryEntryReachable
      <3>1. PICK d \in DirectoryHeads : Within(l, d)
        BY <2>1 DEF Volume, EntriesListed
      <3> QED BY <2>1, <2>3, <2>5, <3>1, EntriesWithin DEF Volume
    <2>7. DotsNameParent
      <3> SUFFICES ASSUME NEW d \in Directories, NEW l \in EntriesOf(d), EntryAt(l).kind = "dir"
                   PROVE  Dot(FirstOf(l)) /\ DotDot(FirstOf(l), d)
        BY DEF DotsNameParent, Dot, DotDot
      <3>1. d \in DirectoryHeads /\ l \in LiveOf("dir") /\ Within(l, d)
        BY DirectoriesNamed, EntriesAre DEF LiveOf
      <3>2. ~Moving(op, l)
        BY <2>1 DEF Moving
      <3> QED BY <2>1, <3>1, <3>2 DEF Volume, DotsRight
    <2> QED BY <2>6, <2>7
  <1> QED BY <1>1, Fat32TypeOK, Fat32Consistent, PTL

-----------------------------------------------------------------------------
(* The reading half, which scans, resolves and follows chains on its own:  *)
(* its loops are solved turn by turn, as the writing half's were.          *)

LEMMA ContainerIs ==
  ASSUME NEW S, NEW path \in Seq(S) \ {<<>>}
  PROVE  /\ Container(path) \in Seq(S) /\ Len(Container(path)) = Len(path) - 1
         /\ \A k \in 1 .. Len(path) - 1 : Container(path)[k] = path[k]
  <1>1. Len(path) \in Nat \ {0} /\ path \in [1 .. Len(path) -> S]
    OBVIOUS
  <1>2. Container(path) = [k \in 1 .. Len(path) - 1 |-> path[k]]
    BY DEF Container
  <1> QED BY <1>1, <1>2

-----------------------------------------------------------------------------
(* The scan of the reading half comes, turn by turn, to the positions of   *)
(* the writing half, as far as the first end mark.                         *)

Reached(d)  == {p \in Positions(d) : \A q \in Positions(d) : q < p => KindAt(d, q) # "end"}
Shown(d, k) == IF k \in Reached(d) THEN {LocationOf(d, k)} ELSE {}

Start(d)       == {[cluster |-> c, slot |-> 0] : c \in {d} \cap Clusters}
Onward(S)      == UNION {NextSlot(loc) : loc \in S}
Scanning(f, d) == f = [k \in Turns |-> IF k = 0 THEN Start(d) ELSE Onward(f[k - 1])]

LEMMA TurnsAre == 0 \in Turns /\ Turns \subseteq Nat /\ \A k \in Turns \ {0} : k - 1 \in Turns
  <1>1. 0 \in 0 .. N - 1 /\ 0 \in Slot
    BY SlotNumbers DEF Clusters
  <1>2. 0 * Slots + 0 \in 0 .. N * Slots - 1
    BY <1>1, PositionOf
  <1>3. 0 * Slots + 0 = 0
    OBVIOUS
  <1>4. N * Slots - 1 \in Int
    OBVIOUS
  <1> DEFINE m == N * Slots - 1
  <1>5. Turns = 0 .. m /\ m \in Int /\ 0 \in 0 .. m
    BY <1>2, <1>3, <1>4 DEF Turns
  <1> HIDE DEF m
  <1> QED BY <1>5

LEMMA ScanningIs ==
  ASSUME NEW d, NEW f
  PROVE  Scanning(f, d) <=> /\ f = [k \in Turns |-> f[k]]
                            /\ f[0] = Start(d)
                            /\ \A k \in Turns \ {0} : f[k] = Onward(f[k - 1])
  BY ONLY TurnsAre DEF Scanning

LEMMA ShownStart ==
  ASSUME NEW d
  PROVE  Shown(d, 0) = Start(d)
  <1>1. Walk(d)[0] = d
    <2>1. Walk(d) = WalkOf(fat, d)
      BY DEF Walk, WalkOf
    <2> QED BY <2>1, WalkIs
  <1>2. 0 \in Turns /\ 0 \div Slots = 0 /\ 0 % Slots = 0
    <2>1. 0 \in 0 .. N - 1 /\ 0 \in Slot /\ 0 * Slots + 0 = 0
      BY SlotNumbers DEF Clusters
    <2> QED BY <2>1, TurnsAre, PositionOf
  <1>3. 0 \in Positions(d) <=> d \in Clusters
    BY <1>1, <1>2 DEF Positions, Turns
  <1>4. 0 \in Reached(d) <=> d \in Clusters
    BY <1>3, PositionIn DEF Reached
  <1>5. LocationOf(d, 0) = [cluster |-> d, slot |-> 0]
    BY <1>1, <1>2 DEF LocationOf
  <1>6. CASE d \in Clusters
    <2>1. {d} \cap Clusters = {d}
      BY <1>6
    <2> QED BY <1>4, <1>5, <1>6, <2>1 DEF Shown, Start
  <1>7. CASE d \notin Clusters
    <2>1. {d} \cap Clusters = {}
      BY <1>7
    <2> QED BY <1>4, <1>7, <2>1 DEF Shown, Start
  <1> QED BY <1>6, <1>7

(* The position after a position.                                          *)
LEMMA PositionNext ==
  ASSUME fat \in TableType, NEW d, NEW k \in Turns \ {0}, k - 1 \in Positions(d),
         NEW l, l = LocationOf(d, k - 1)
  PROVE  /\ l.slot < Slots - 1 => k \in Positions(d) /\ LocationOf(d, k) = [l EXCEPT !.slot = @ + 1]
         /\ l.slot >= Slots - 1 =>
              IF fat[l.cluster] \in Clusters
              THEN k \in Positions(d) /\ LocationOf(d, k) = [cluster |-> fat[l.cluster], slot |-> 0]
              ELSE k \notin Positions(d)
  <1>1. k \in 0 .. N * Slots - 1 /\ k \in Nat
    BY TurnsAre DEF Turns
  <1> DEFINE j == (k - 1) \div Slots  s == (k - 1) % Slots
  <1>2. /\ l.cluster = WalkOf(fat, d)[j] /\ l.slot = s /\ WalkOf(fat, d)[j] \in Clusters
        /\ l = [cluster |-> WalkOf(fat, d)[j], slot |-> s]
        /\ j \in 0 .. N - 1 /\ s \in Slot /\ k - 1 = j * Slots + s
    <2>1. k - 1 \in 0 .. N * Slots - 1
      BY PositionIn
    <2>2. j \in 0 .. N - 1 /\ s \in Slot /\ k - 1 = j * Slots + s
      BY <2>1, PositionParts
    <2>3. Walk(d) = WalkOf(fat, d)
      BY DEF Walk, WalkOf
    <2> QED BY <2>2, <2>3, PositionIn DEF LocationOf
  <1> HIDE DEF j, s
  <1>3. j * Slots \in Nat
    BY <1>2
  <1>4. ASSUME l.slot < Slots - 1
        PROVE  k \in Positions(d) /\ LocationOf(d, k) = [l EXCEPT !.slot = @ + 1]
    <2>1. s + 1 \in Slot /\ j * Slots + (s + 1) = k
      BY <1>1, <1>2, <1>3, <1>4 DEF Slot
    <2>2. /\ j * Slots + (s + 1) \in Positions(d)
          /\ LocationOf(d, j * Slots + (s + 1)) = [cluster |-> WalkOf(fat, d)[j], slot |-> s + 1]
      BY <1>2, <2>1, PositionAtStep
    <2>3. [l EXCEPT !.slot = @ + 1] = [cluster |-> WalkOf(fat, d)[j], slot |-> s + 1]
      BY <1>2
    <2> QED BY <2>1, <2>2, <2>3
  <1>5. ASSUME l.slot >= Slots - 1
        PROVE  IF fat[l.cluster] \in Clusters
               THEN k \in Positions(d) /\ LocationOf(d, k) = [cluster |-> fat[l.cluster], slot |-> 0]
               ELSE k \notin Positions(d)
    <2>1. s = Slots - 1
      BY <1>2, <1>5 DEF Slot
    <2>2. (j + 1) * Slots + 0 = k
      <3>1. (j + 1) * Slots = j * Slots + Slots
        BY <1>2
      <3> QED BY <1>1, <1>2, <1>3, <2>1, <3>1
    <2>3. j + 1 \in 0 .. N /\ j + 1 \in 1 .. N /\ (j + 1) - 1 = j
      BY <1>2
    <2>4. WalkOf(fat, d)[j + 1] = fat[l.cluster]
      BY ONLY <1>2, <2>3, WalkIs DEF Successor
    <2>5. j + 1 # N
      <3> SUFFICES ASSUME j + 1 = N PROVE FALSE
        OBVIOUS
      <3>1. k = N * Slots
        BY <2>2, <1>1
      <3>2. N * Slots \in Int
        OBVIOUS
      <3> QED BY <1>1, <3>1, <3>2
    <2>6. j + 1 \in 0 .. N - 1 /\ 0 \in Slot
      BY <2>3, <2>5, SlotNumbers
    <2>7. CASE fat[l.cluster] \in Clusters
      <3>1. /\ (j + 1) * Slots + 0 \in Positions(d)
            /\ LocationOf(d, (j + 1) * Slots + 0) = [cluster |-> WalkOf(fat, d)[j + 1], slot |-> 0]
        BY <2>4, <2>6, <2>7, PositionAtStep
      <3> QED BY <2>2, <2>4, <2>7, <3>1
    <2>8. CASE fat[l.cluster] \notin Clusters
      <3>1. k \div Slots = j + 1
        BY <2>2, <2>6, PositionOf
      <3>2. Walk(d) = WalkOf(fat, d)
        BY DEF Walk, WalkOf
      <3> QED BY <2>4, <2>8, <3>1, <3>2 DEF Positions
    <2> QED BY <2>7, <2>8
  <1> QED BY <1>4, <1>5

LEMMA NextSlotIs ==
  ASSUME NEW l
  PROVE  /\ EntryAt(l).kind = "end" => NextSlot(l) = {}
         /\ EntryAt(l).kind # "end" /\ l.slot < Slots - 1 => NextSlot(l) = {[l EXCEPT !.slot = @ + 1]}
         /\ EntryAt(l).kind # "end" /\ ~(l.slot < Slots - 1) /\ fat[l.cluster] \in Clusters =>
              NextSlot(l) = {[cluster |-> fat[l.cluster], slot |-> 0]}
         /\ EntryAt(l).kind # "end" /\ ~(l.slot < Slots - 1) /\ fat[l.cluster] \notin Clusters =>
              NextSlot(l) = {}
  <1>1. fat[l.cluster] \in Clusters => {fat[l.cluster]} \cap Clusters = {fat[l.cluster]}
    OBVIOUS
  <1>2. fat[l.cluster] \notin Clusters => {fat[l.cluster]} \cap Clusters = {}
    OBVIOUS
  <1> QED BY ONLY <1>1, <1>2 DEF NextSlot

LEMMA OnwardOne ==
  /\ \A l : Onward({l}) = NextSlot(l)
  /\ Onward({}) = {}
  BY DEF Onward

LEMMA ShownStep ==
  ASSUME fat \in TableType, NEW d, NEW k \in Turns \ {0}
  PROVE  Shown(d, k) = Onward(Shown(d, k - 1))
  <1> DEFINE l == LocationOf(d, k - 1)
  <1>1. k \in Nat /\ k > 0 /\ k - 1 \in Nat
    BY TurnsAre
  <1>2. Positions(d) \subseteq Nat
    BY DEF Positions
  <1>3. CASE k - 1 \notin Reached(d)
    <2>1. k \notin Reached(d)
      <3> SUFFICES ASSUME k \in Reached(d) PROVE FALSE
        OBVIOUS
      <3>1. k - 1 \in Positions(d)
        BY <1>1, PositionPrevious DEF Reached
      <3>2. \A q \in Positions(d) : q < k - 1 => q < k
        BY <1>1, <1>2
      <3> QED BY <1>3, <3>1, <3>2 DEF Reached
    <2> QED BY <1>3, <2>1, OnwardOne DEF Shown
  <1>4. CASE k - 1 \in Reached(d)
    <2>1. k - 1 \in Positions(d) /\ \A q \in Positions(d) : q < k - 1 => KindAt(d, q) # "end"
      BY <1>4 DEF Reached
    <2>2. EntryAt(l).kind = KindAt(d, k - 1) /\ l \in Location
      BY <2>1, PositionIn
    <2>3. Shown(d, k - 1) = {l}
      BY <1>4 DEF Shown
    <2>4. k \in Reached(d) <=> k \in Positions(d) /\ KindAt(d, k - 1) # "end"
      <3>1. \A q \in Positions(d) : q < k <=> q < k - 1 \/ q = k - 1
        BY <1>1, <1>2
      <3> QED BY <2>1, <3>1 DEF Reached
    <2>5. /\ l.slot < Slots - 1 => k \in Positions(d) /\ LocationOf(d, k) = [l EXCEPT !.slot = @ + 1]
          /\ l.slot >= Slots - 1 =>
              IF fat[l.cluster] \in Clusters
              THEN k \in Positions(d) /\ LocationOf(d, k) = [cluster |-> fat[l.cluster], slot |-> 0]
              ELSE k \notin Positions(d)
      BY <2>1, PositionNext
    <2>6. l.slot < Slots - 1 \/ l.slot >= Slots - 1
      BY <2>2 DEF Location, Slot
    <2>7. l.slot < Slots - 1 => ~(l.slot >= Slots - 1)
      BY <2>2 DEF Location, Slot
    <2> HIDE DEF l
    <2>8. Onward(Shown(d, k - 1)) = NextSlot(l)
      BY <2>3, OnwardOne
    <2>9. CASE EntryAt(l).kind = "end"
      <3>1. NextSlot(l) = {}
        BY <2>9, NextSlotIs
      <3>2. Shown(d, k) = {}
        BY <2>2, <2>4, <2>9 DEF Shown
      <3> QED BY <2>8, <3>1, <3>2
    <2>10. CASE EntryAt(l).kind # "end" /\ l.slot < Slots - 1
      <3>1. NextSlot(l) = {[l EXCEPT !.slot = @ + 1]}
        BY <2>10, NextSlotIs
      <3>2. Shown(d, k) = {LocationOf(d, k)} /\ LocationOf(d, k) = [l EXCEPT !.slot = @ + 1]
        BY <2>2, <2>4, <2>5, <2>10 DEF Shown
      <3> QED BY <2>8, <3>1, <3>2
    <2>11. CASE EntryAt(l).kind # "end" /\ l.slot >= Slots - 1 /\ fat[l.cluster] \in Clusters
      <3>1. NextSlot(l) = {[cluster |-> fat[l.cluster], slot |-> 0]}
        BY <2>7, <2>11, NextSlotIs
      <3>2. Shown(d, k) = {LocationOf(d, k)} /\ LocationOf(d, k) = [cluster |-> fat[l.cluster], slot |-> 0]
        BY <2>2, <2>4, <2>5, <2>11 DEF Shown
      <3> QED BY <2>8, <3>1, <3>2
    <2>12. CASE EntryAt(l).kind # "end" /\ l.slot >= Slots - 1 /\ fat[l.cluster] \notin Clusters
      <3>1. NextSlot(l) = {}
        BY <2>7, <2>12, NextSlotIs
      <3>2. Shown(d, k) = {}
        BY <2>4, <2>5, <2>12 DEF Shown
      <3> QED BY <2>8, <3>1, <3>2
    <2> QED BY ONLY <2>6, <2>9, <2>10, <2>11, <2>12
  <1> QED BY ONLY <1>3, <1>4

LEMMA ScanIs ==
  ASSUME fat \in TableType, NEW d, NEW k \in Turns
  PROVE  Scan(d)[k] = Shown(d, k)
  <1> DEFINE w == [i \in Turns |-> Shown(d, i)]
  <1>1. Scanning(w, d)
    <2>1. w = [i \in Turns |-> w[i]] /\ \A i \in Turns : w[i] = Shown(d, i)
      OBVIOUS
    <2>2. w[0] = Start(d)
      BY <2>1, TurnsAre, ShownStart
    <2>3. \A i \in Turns \ {0} : w[i] = Onward(w[i - 1])
      BY <2>1, TurnsAre, ShownStep
    <2> HIDE DEF w
    <2> QED BY <2>1, <2>2, <2>3, ScanningIs
  <1>2. Scan(d) = CHOOSE f : Scanning(f, d)
    BY Zenon DEF Scan, Scanning, Start, Onward
  <1>3. Scanning(Scan(d), d)
    BY ONLY <1>1, <1>2
  <1>4. /\ Scan(d)[0] = Start(d)
        /\ \A i \in Turns \ {0} : Scan(d)[i] = Onward(Scan(d)[i - 1])
    BY <1>3, ScanningIs
  <1> DEFINE T == {i \in Turns : Scan(d)[i] # Shown(d, i)}
  <1>5. T = {}
    <2> SUFFICES ASSUME T # {} PROVE FALSE
      OBVIOUS
    <2>1. T \in SUBSET Nat
      BY TurnsAre
    <2> HIDE DEF T
    <2>2. PICK m \in T : \A y \in T : m <= y
      BY <2>1, LeastNatural
    <2> USE DEF T
    <2>3. m \in Turns /\ Scan(d)[m] # Shown(d, m) /\ m \in Nat
      BY <2>1, <2>2
    <2>4. m # 0
      BY <1>4, <2>3, ShownStart
    <2>5. m - 1 \in Turns /\ m - 1 \notin T
      BY <2>1, <2>2, <2>3, <2>4, TurnsAre
    <2>6. Scan(d)[m - 1] = Shown(d, m - 1)
      BY <2>5
    <2> QED BY <1>4, <2>3, <2>4, <2>6, ShownStep
  <1> QED BY <1>5

(* What is live is shown exactly where the writing half scans.             *)
LEMMA ScannedIs ==
  ASSUME NEW d
  PROVE  /\ Scanned(d) \subseteq Reached(d) /\ Reached(d) \subseteq Positions(d)
         /\ Positions(d) \subseteq Turns
         /\ \A p \in Reached(d) : KindAt(d, p) \in Live => p \in Scanned(d)
  <1>1. Positions(d) \subseteq Nat /\ Positions(d) \subseteq Turns
    BY DEF Positions, Turns
  <1>2. ASSUME NEW p \in Scanned(d)
        PROVE  p \in Reached(d)
    <2>1. p \in Positions(d) /\ \A q \in Positions(d) : KindAt(d, q) = "end" => p < q
      BY <1>2 DEF Scanned
    <2>2. \A q \in Positions(d) : ~(q < p /\ p < q)
      BY <1>1, <2>1
    <2> QED BY <2>1, <2>2 DEF Reached
  <1>3. ASSUME NEW p \in Reached(d), KindAt(d, p) \in Live
        PROVE  p \in Scanned(d)
    <2>1. p \in Positions(d) /\ \A q \in Positions(d) : q < p => KindAt(d, q) # "end"
      BY <1>3 DEF Reached
    <2>2. KindAt(d, p) # "end"
      BY <1>3 DEF Live
    <2>3. \A q \in Positions(d) : q < p \/ q = p \/ p < q
      BY <1>1, <2>1
    <2> QED BY <2>1, <2>2, <2>3 DEF Scanned
  <1> QED BY <1>1, <1>2, <1>3 DEF Reached

LEMMA FindsSame ==
  ASSUME fat \in TableType, NEW d, NEW name
  PROVE  FindToRead(d, name) = {EntryAt(l) : l \in fat32_find_in_directory(d, name)}
  <1> DEFINE R == {k \in Turns : \E loc \in Scan(d)[k] : /\ EntryAt(loc).kind \in Live
                                                        /\ EntryAt(loc).name = name}
             W == {p \in Scanned(d) : /\ KindAt(d, p) \in Live
                                      /\ EntryAt(LocationOf(d, p)).name = name}
  <1>1. \A k \in Turns : Scan(d)[k] = Shown(d, k)
    BY ScanIs
  <1>2. ASSUME NEW k
        PROVE  k \in R <=> k \in W
    <2>1. k \in R <=> k \in Turns /\ \E loc \in Shown(d, k) : EntryAt(loc).kind \in Live /\ EntryAt(loc).name = name
      BY <1>1
    <2>2. (\E loc \in Shown(d, k) : EntryAt(loc).kind \in Live /\ EntryAt(loc).name = name)
            <=> k \in Reached(d) /\ KindAt(d, k) \in Live /\ EntryAt(LocationOf(d, k)).name = name
      BY DEF Shown, KindAt
    <2> QED BY <2>1, <2>2, ScannedIs
  <1>3. R = W
    BY <1>2
  <1>4. FindToRead(d, name) = {EntryAt(l) : l \in UNION {Scan(d)[k] : k \in Lowest(R)}}
    BY DEF FindToRead
  <1>5. fat32_find_in_directory(d, name) = {LocationOf(d, p) : p \in Lowest(W)}
    BY DEF fat32_find_in_directory
  <1>6. \A k \in Lowest(W) : Scan(d)[k] = {LocationOf(d, k)}
    <2>1. \A k \in Lowest(W) : k \in Turns /\ k \in Reached(d)
      BY ScannedIs DEF Lowest
    <2> QED BY <1>1, <2>1 DEF Shown
  <1> HIDE DEF R, W
  <1>7. UNION {Scan(d)[k] : k \in Lowest(W)} = {LocationOf(d, p) : p \in Lowest(W)}
    BY <1>6
  <1> QED BY <1>3, <1>4, <1>5, <1>7

(* Where there is no directory nothing is found.                           *)
LEMMA FindsNothing ==
  ASSUME fat \in TableType, NEW d, d \notin Clusters
  PROVE  Positions(d) = {} /\ \A name : fat32_find_in_directory(d, name) = {}
  <1>1. Positions(d) = {}
    <2> SUFFICES ASSUME NEW p \in Positions(d) PROVE FALSE
      OBVIOUS
    <2>1. Within(LocationOf(d, p), d)
      BY PositionIn
    <2>2. ChainSet(d) = {}
      BY ChainNone, ChainIs
    <2> QED BY <2>1, <2>2 DEF Within
  <1> QED BY <1>1 DEF fat32_find_in_directory, Scanned, Lowest

LEMMA FindOne ==
  ASSUME NEW d, NEW name, NEW l \in fat32_find_in_directory(d, name)
  PROVE  fat32_find_in_directory(d, name) = {l}
  <1> DEFINE W == {p \in Scanned(d) : /\ KindAt(d, p) \in Live
                                      /\ EntryAt(LocationOf(d, p)).name = name}
  <1>1. W \subseteq Nat
    BY DEF Scanned, Positions
  <1>2. fat32_find_in_directory(d, name) = {LocationOf(d, p) : p \in Lowest(W)}
    BY DEF fat32_find_in_directory
  <1>3. \A p, q \in Lowest(W) : p = q
    BY <1>1 DEF Lowest
  <1> HIDE DEF W
  <1> QED BY <1>2, <1>3

(* The same with the reading half's segments.                              *)
BelowRead(path, k, above) ==
  LET found == FindToRead(above, path[k])
      below == {e.first : e \in {f \in found : f.kind = "dir"}} \cap Clusters
  IN IF below = {} THEN Free ELSE CHOOSE c \in below : TRUE

Reading(f, n, path) == f = [k \in 0 .. n |-> IF k = 0 THEN Root ELSE BelowRead(path, k, f[k - 1])]

LEMMA ReadingIs ==
  ASSUME NEW n \in Nat, NEW path, NEW f
  PROVE  Reading(f, n, path) <=> /\ f = [k \in 0 .. n |-> f[k]]
                                 /\ f[0] = Root
                                 /\ \A k \in 1 .. n : f[k] = BelowRead(path, k, f[k - 1])
  <1>1. 0 \in 0 .. n /\ \A k \in 0 .. n : k # 0 <=> k \in 1 .. n
    OBVIOUS
  <1> QED BY ONLY <1>1 DEF Reading

(* Two functions that agree at first, and after wherever they agree.       *)
LEMMA Agree ==
  ASSUME NEW n \in Nat, NEW f, NEW g, f[0] = g[0],
         \A k \in 1 .. n : f[k - 1] = g[k - 1] => f[k] = g[k]
  PROVE  f[n] = g[n]
  <1> DEFINE T == {k \in 0 .. n : f[k] # g[k]}
  <1>1. T = {}
    <2> SUFFICES ASSUME T # {} PROVE FALSE
      OBVIOUS
    <2>1. T \in SUBSET Nat
      OBVIOUS
    <2> HIDE DEF T
    <2>2. PICK m \in T : \A y \in T : m <= y
      BY <2>1, LeastNatural
    <2> USE DEF T
    <2>3. m \in 1 .. n /\ m - 1 \in 0 .. n /\ ~(m <= m - 1)
      BY <2>2
    <2>4. f[m - 1] = g[m - 1]
      BY <2>2, <2>3
    <2> QED BY <2>2, <2>3, <2>4
  <1> QED BY <1>1

LEMMA HeadsAre ==
  ASSUME Disk, DotsRight(op)
  PROVE  /\ DirectoryHeads \subseteq Clusters
         /\ \A l \in LiveOf("dir") : FirstOf(l) \in DirectoryHeads /\ FirstOf(l) \in Clusters
  <1>1. \A l \in LiveOf("dir") : FirstOf(l) \in Clusters
    <2>1. \A l \in LiveOf("dir") : l \in Location /\ FirstOf(l) # Free
      BY DEF LiveOf, LiveEntries, DotsRight
    <2> QED BY <2>1, FirstType
  <1> QED BY <1>1 DEF DirectoryHeads

LEMMA BelowHead ==
  ASSUME NEW path, NEW k, NEW above
  PROVE  Below(path, k, above) \in {Free} \cup DirectoryHeads
  <1> DEFINE found == fat32_find_in_directory(above, path[k])
             loc == CHOOSE l \in found : TRUE
  <1>1. \/ Below(path, k, above) = Free
        \/ found # {} /\ EntryAt(loc).kind = "dir" /\ Below(path, k, above) = FirstOf(loc)
    BY DEF Below, FirstOf
  <1>2. found # {} => loc \in found
    OBVIOUS
  <1>3. found # {} => loc \in LiveEntries
    BY <1>2, FindIs
  <1> HIDE DEF found, loc
  <1> QED BY <1>1, <1>3 DEF DirectoryHeads, LiveOf

LEMMA BelowSame ==
  ASSUME Disk, fat \in TableType, DotsRight(op), NEW path, NEW k, NEW above \in {Free} \cup DirectoryHeads
  PROVE  BelowRead(path, k, above) = Below(path, k, above)
  <1> DEFINE found == fat32_find_in_directory(above, path[k])
             below == {e.first : e \in {f \in FindToRead(above, path[k]) : f.kind = "dir"}} \cap Clusters
  <1>1. FindToRead(above, path[k]) = {EntryAt(l) : l \in found}
    BY FindsSame
  <1>2. above = Free => found = {}
    BY FindsNothing, FreeOutside
  <1>3. /\ Below(path, k, above) =
             IF found # {} /\ EntryAt(CHOOSE loc \in found : TRUE).kind = "dir"
             THEN EntryAt(CHOOSE loc \in found : TRUE).first ELSE Free
        /\ BelowRead(path, k, above) = IF below = {} THEN Free ELSE CHOOSE c \in below : TRUE
    <2>1. (IF above = Free THEN {} ELSE found) = found
      BY <1>2
    <2>2. BelowRead(path, k, above) = IF below = {} THEN Free ELSE CHOOSE c \in below : TRUE
      BY Zenon DEF BelowRead
    <2>3. Below(path, k, above) =
            LET fnd == IF above = Free THEN {} ELSE found
            IN IF fnd # {} /\ EntryAt(CHOOSE loc \in fnd : TRUE).kind = "dir"
               THEN EntryAt(CHOOSE loc \in fnd : TRUE).first ELSE Free
      BY Zenon DEF Below
    <2> HIDE DEF found, below
    <2> QED BY ONLY <2>1, <2>2, <2>3
  <1>4. CASE found = {}
    <2>1. below = {}
      BY <1>1, <1>4
    <2> QED BY <1>3, <1>4, <2>1
  <1>5. CASE found # {}
    <2>1. PICK l \in found : TRUE
      BY <1>5
    <2>2. found = {l} /\ l \in LiveEntries
      BY <2>1, FindOne, FindIs
    <2>3. (CHOOSE loc \in found : TRUE) = l
      BY <2>2
    <2>4. FindToRead(above, path[k]) = {EntryAt(l)}
      BY <1>1, <2>2
    <2>5. CASE EntryAt(l).kind = "dir"
      <3>1. EntryAt(l).first \in Clusters
        BY <2>2, <2>5, HeadsAre DEF LiveOf, FirstOf
      <3>2. below = {EntryAt(l).first}
        BY <2>4, <2>5, <3>1
      <3>3. (CHOOSE c \in below : TRUE) = EntryAt(l).first /\ below # {}
        BY <3>2
      <3> QED BY <1>3, <1>5, <2>3, <2>5, <3>3
    <2>6. CASE EntryAt(l).kind # "dir"
      <3>1. below = {}
        BY <2>4, <2>6
      <3> QED BY <1>3, <2>3, <2>6, <3>1
    <2> QED BY <2>5, <2>6
  <1> QED BY <1>4, <1>5

LEMMA DirectoryIs ==
  ASSUME Disk, fat \in TableType, DotsRight(op), NEW S, NEW path \in Seq(S), NEW n, n = Len(path),
         NEW f, f[0] = Root, \A k \in 1 .. n : f[k] = Below(path, k, f[k - 1])
  PROVE  DirectoryAt(path) = f[n]
  <1>1. n \in Nat
    OBVIOUS
  <1>2. \A k \in 0 .. n : f[k] \in {Free} \cup DirectoryHeads
    <2>1. f[0] \in DirectoryHeads
      BY DEF DirectoryHeads
    <2>2. \A k \in 1 .. n : f[k] \in {Free} \cup DirectoryHeads
      BY BelowHead
    <2>3. \A k \in 0 .. n : k = 0 \/ k \in 1 .. n
      OBVIOUS
    <2> QED BY <2>1, <2>2, <2>3
  <1>3. \A k \in 1 .. n : BelowRead(path, k, f[k - 1]) = f[k]
    <2>1. \A k \in 1 .. n : k - 1 \in 0 .. n
      BY <1>1
    <2> QED BY <1>2, <2>1, BelowSame
  <1> DEFINE w == [k \in 0 .. n |-> f[k]]
  <1>4. Reading(w, n, path)
    <2>1. w = [k \in 0 .. n |-> w[k]] /\ \A k \in 0 .. n : w[k] = f[k]
      OBVIOUS
    <2>2. 0 \in 0 .. n /\ \A k \in 1 .. n : k \in 0 .. n /\ k - 1 \in 0 .. n
      BY <1>1
    <2> HIDE DEF w
    <2>3. w[0] = Root /\ \A k \in 1 .. n : w[k] = BelowRead(path, k, w[k - 1])
      BY <1>3, <2>1, <2>2
    <2> QED BY ONLY <1>1, <2>1, <2>3, ReadingIs
  <1> DEFINE h == CHOOSE g : Reading(g, Len(path), path)
  <1>5. DirectoryAt(path) = h[Len(path)]
    BY Zenon DEF DirectoryAt, Reading, BelowRead
  <1>6. Reading(h, n, path)
    BY <1>4
  <1> HIDE DEF h, w
  <1>7. h[0] = Root /\ \A k \in 1 .. n : h[k] = BelowRead(path, k, h[k - 1])
    BY ONLY <1>1, <1>6, ReadingIs
  <1>8. h[n] = f[n]
    <2>1. \A k \in 1 .. n : f[k - 1] = h[k - 1] => f[k] = h[k]
      BY <1>3, <1>7
    <2> QED BY ONLY <1>1, <1>7, <2>1, f[0] = Root, Agree
  <1> QED BY <1>5, <1>8

(* Both halves come to the same directory.                                 *)
LEMMA DirectoriesSame ==
  ASSUME Disk, fat \in TableType, DotsRight(op), NEW S, NEW path \in Seq(S) \ {<<>>}
  PROVE  /\ DirectoryAt(Container(path)) = ParentOf(path)
         /\ DirectoryAt(path) = Below(path, Len(path), ParentOf(path))
         /\ ParentOf(path) \in {Free} \cup DirectoryHeads
  <1> DEFINE n == Len(path)
  <1>1. n \in Nat \ {0} /\ n - 1 \in Nat /\ path \in Seq(S)
    OBVIOUS
  <1> DEFINE g == CHOOSE h : Descent(h, Len(path) - 1, path)
  <1>2. ParentOf(path) = g[Len(path) - 1]
    BY Zenon DEF ParentOf, Descent, Below
  <1>3. Descent(g, Len(path) - 1, path)
    BY <1>1, DescentExists
  <1> HIDE DEF g
  <1> HIDE DEF n
  <1>4. ParentOf(path) = g[n - 1] /\ Descent(g, n - 1, path) /\ n = Len(path)
    BY <1>2, <1>3 DEF n
  <1>5. g[0] = Root /\ \A k \in 1 .. n - 1 : g[k] = Below(path, k, g[k - 1])
    BY ONLY <1>1, <1>4, DescentIs
  <1>6. DirectoryAt(Container(path)) = g[n - 1]
    <2>1. Container(path) \in Seq(S) /\ Len(Container(path)) = n - 1 /\ \A k \in 1 .. n - 1 : Container(path)[k] = path[k]
      BY <1>4, ContainerIs
    <2>2. \A k \in 1 .. n - 1 : g[k] = Below(Container(path), k, g[k - 1])
      BY <1>5, <2>1 DEF Below
    <2> QED BY <1>5, <2>1, <2>2, DirectoryIs
  <1> DEFINE f == [k \in 0 .. n |-> IF k = n THEN Below(path, n, g[n - 1]) ELSE g[k]]
  <1>7. /\ f[n] = Below(path, n, g[n - 1]) /\ f[0] = Root
        /\ \A k \in 0 .. n - 1 : f[k] = g[k]
    BY <1>1, <1>5
  <1> HIDE DEF f
  <1>8. \A k \in 1 .. n : f[k] = Below(path, k, f[k - 1])
    <2>1. ASSUME NEW k \in 1 .. n, k # n
          PROVE  k \in 1 .. n - 1 /\ k \in 0 .. n - 1 /\ k - 1 \in 0 .. n - 1
      BY ONLY <1>1, <2>1
    <2>2. n - 1 \in 0 .. n - 1
      BY ONLY <1>1
    <2> QED BY <1>5, <1>7, <2>1, <2>2
  <1>9. DirectoryAt(path) = f[n]
    BY <1>1, <1>4, <1>7, <1>8, DirectoryIs
  <1>10. g[n - 1] \in {Free} \cup DirectoryHeads
    <2>1. CASE n - 1 = 0
      BY <1>5, <2>1 DEF DirectoryHeads
    <2>2. CASE n - 1 # 0
      <3>1. n - 1 \in 1 .. n - 1
        BY <1>1, <2>2
      <3> QED BY <1>5, <3>1, BelowHead
    <2> QED BY <2>1, <2>2
  <1> QED BY <1>4, <1>6, <1>7, <1>9, <1>10

-----------------------------------------------------------------------------
(* What holds between operations.                                          *)

Rest == /\ Disk /\ fat \in TableType /\ Acyclic(fat) /\ Disjoint(fat) /\ NoCycle
        /\ EndsTidy /\ NamesApart /\ FilesPlain /\ DotsRight(op)
        /\ DirectoryHeads \subseteq Clusters
        /\ \A d \in DirectoryHeads : fat[d] # Free
        /\ \A l \in LiveOf("file") : Covered(FirstOf(l), EntryAt(l).size)

LEMMA RestFacts ==
  ASSUME TypeOK, Consistent, AtRest
  PROVE  Rest
  <1>1. /\ ~damaged /\ op.step = "idle" /\ Sound(op) /\ NoCycle /\ Volume(op) /\ LayoutOf(op)
        /\ FilesFull(op) /\ StepOK(op)
    BY DEF AtRest, Consistent, Arranged, Ownership, ChainsFinite, Layout, Sized, CallOK
  <1>2. Disk
    BY DEF TypeOK, Disk
  <1>3. op.kind # "remove"
    BY <1>1 DEF StepOK
  <1>4. TableSound /\ \A l \in LiveEntries : EntrySound(l, op)
    BY <1>1 DEF Sound
  <1>5. fat \in TableType /\ Acyclic(fat) /\ Disjoint(fat)
    BY <1>1, <1>2, <1>4, TableFacts
  <1>6. EndsTidy /\ NamesApart /\ FilesPlain /\ DotsRight(op)
    BY <1>1 DEF Volume
  <1>7. ASSUME NEW d \in DirectoryHeads
        PROVE  fat[d] # Free
    <2>1. CASE d = Root
      BY <1>4, <2>1 DEF TableSound
    <2>2. CASE d # Root
      <3>1. PICK l \in LiveOf("dir") : d = FirstOf(l)
        BY <2>2 DEF DirectoryHeads
      <3>2. l \in LiveEntries /\ FirstOf(l) # Free
        BY <1>6 DEF LiveOf, DotsRight
      <3> QED BY <1>3, <1>4, <3>1, <3>2 DEF EntrySound
    <2> QED BY <2>1, <2>2
  <1>8. ASSUME NEW l \in LiveOf("file")
        PROVE  Covered(FirstOf(l), EntryAt(l).size)
    BY <1>1, <1>3 DEF FilesFull, Freeing
  <1> QED BY <1>1, <1>2, <1>5, <1>6, <1>7, <1>8, HeadsAre DEF Rest

(* A directory is listed to its end, and whole.                            *)
LEMMA LookedIs ==
  ASSUME fat \in TableType, NEW d
  PROVE  Looked(d) = {LocationOf(d, p) : p \in Reached(d)}
  <1>1. \A k \in Turns : Scan(d)[k] = Shown(d, k)
    BY ScanIs
  <1>2. Looked(d) = UNION {Shown(d, k) : k \in Turns}
    BY <1>1 DEF Looked
  <1>3. Reached(d) \subseteq Turns
    BY ScannedIs
  <1> QED BY <1>2, <1>3 DEF Shown

LEMMA ListedIs ==
  ASSUME Rest, NEW d \in DirectoryHeads
  PROVE  Listed(d) = {l \in LiveEntries : Within(l, d)}
  <1>1. Looked(d) = {LocationOf(d, p) : p \in Reached(d)}
    BY LookedIs DEF Rest
  <1>2. ASSUME NEW l \in Listed(d)
        PROVE  l \in LiveEntries /\ Within(l, d)
    <2>1. EntryAt(l).kind \in Live /\ \E p \in Positions(d) : l = LocationOf(d, p)
      BY <1>1 DEF Listed, Reached
    <2> QED BY <2>1, PositionIn DEF LiveEntries
  <1>3. ASSUME NEW l \in LiveEntries, Within(l, d)
        PROVE  l \in Listed(d)
    <2>1. l \in Location /\ EntryAt(l).kind \in Live
      BY DEF LiveEntries
    <2>2. PICK p \in Positions(d) : LocationOf(d, p) = l
      BY <1>3, <2>1, PositionAt DEF Rest
    <2>3. KindAt(d, p) # "end"
      BY <2>1, <2>2, PositionIn DEF Live
    <2>4. p \in Reached(d)
      BY <2>3, LiveScanned, ScannedIs DEF Rest, EndsTidy
    <2> QED BY <1>1, <2>1, <2>2, <2>4 DEF Listed
  <1> QED BY <1>2, <1>3

LEMMA ListingEnds ==
  ASSUME Rest, NEW d \in DirectoryHeads
  PROVE  \E l \in Looked(d) : \/ EntryAt(l).kind = "end"
                              \/ l.slot = Slots - 1 /\ fat[l.cluster] = EndOfChain
  <1>1. Looked(d) = {LocationOf(d, p) : p \in Reached(d)}
    BY LookedIs DEF Rest
  <1> DEFINE E == {p \in Positions(d) : KindAt(d, p) = "end"}
  <1>2. CASE E # {}
    <2>1. E \in SUBSET Nat /\ Positions(d) \subseteq Nat
      BY DEF Positions
    <2> HIDE DEF E
    <2>2. PICK m \in E : \A p \in E : m <= p
      BY <1>2, <2>1, LeastNatural
    <2> USE DEF E
    <2>3. m \in Positions(d) /\ KindAt(d, m) = "end"
      BY <2>2
    <2>4. \A q \in Positions(d) : q < m => KindAt(d, q) # "end"
      BY <2>1, <2>2, <2>3
    <2>5. m \in Reached(d) /\ EntryAt(LocationOf(d, m)).kind = "end"
      BY <2>3, <2>4, PositionIn DEF Reached
    <2> QED BY <1>1, <2>5
  <1>3. CASE E = {}
    <2>1. Reached(d) = Positions(d)
      BY <1>3 DEF Reached
    <2>2. PICK c \in ChainOf(fat, d) : fat[c] = EndOfChain
      BY ChainReachesEnd DEF Rest
    <2> DEFINE l == [cluster |-> c, slot |-> Slots - 1]
    <2>3. l \in Location /\ Within(l, d)
      BY <2>2, ChainIs, ChainWithin, SlotNumbers DEF Location, Within
    <2>4. l.slot = Slots - 1 /\ fat[l.cluster] = EndOfChain
      BY <2>2
    <2> HIDE DEF l
    <2>5. PICK p \in Positions(d) : LocationOf(d, p) = l
      BY <2>3, PositionAt DEF Rest
    <2> QED BY <1>1, <2>1, <2>4, <2>5
  <1> QED BY <1>2, <1>3

LEMMA NothingListed ==
  ASSUME fat \in TableType, NEW d, d \notin Clusters
  PROVE  Looked(d) = {}
  BY LookedIs, FindsNothing DEF Reached

LEMMA ListingIs ==
  ASSUME Rest, NEW path, NEW d \in {Free} \cup DirectoryHeads, d = DirectoryAt(path)
  PROVE  fat32_list_directory(path) = {EntryAt(l) : l \in {m \in LiveEntries : d # Free /\ Within(m, d)}}
  <1>1. fat32_list_directory(path) =
          IF \E l \in Looked(d) : \/ EntryAt(l).kind = "end"
                                  \/ l.slot = Slots - 1 /\ fat[l.cluster] = EndOfChain
          THEN {EntryAt(l) : l \in Listed(d)} ELSE {}
    BY Zenon DEF fat32_list_directory
  <1>2. CASE d = Free
    <2>1. Looked(d) = {}
      BY <1>2, NothingListed, FreeOutside DEF Rest
    <2>2. {m \in LiveEntries : d # Free /\ Within(m, d)} = {}
      BY <1>2
    <2> QED BY <1>1, <2>1, <2>2
  <1>3. CASE d # Free
    <2>1. d \in DirectoryHeads
      BY <1>3
    <2>2. {m \in LiveEntries : d # Free /\ Within(m, d)} = Listed(d)
      BY <1>3, <2>1, ListedIs
    <2> QED BY <1>1, <2>1, <2>2, ListingEnds
  <1> QED BY <1>2, <1>3

LEMMA ReadPathIs ==
  ASSUME NEW path \in ReadPaths \ {<<>>}
  PROVE  path \in Seq(Names) \ {<<>>}
  BY ReaderAssumption

(* What a path leads to, for both halves.                                  *)
LEMMA LookupIs ==
  ASSUME Rest, NEW path \in ReadPaths \ {<<>>}, NEW d, d = ParentOf(path)
  PROVE  /\ d \in {Free} \cup DirectoryHeads
         /\ DirectoryAt(Container(path)) = d
         /\ DirectoryAt(path) = Below(path, Len(path), d)
         /\ Lookup(path) = fat32_find_in_directory(d, path[Len(path)])
         /\ FindToRead(d, NameOf(path)) = {EntryAt(l) : l \in Lookup(path)}
  <1>1. /\ d \in {Free} \cup DirectoryHeads /\ DirectoryAt(Container(path)) = d
        /\ DirectoryAt(path) = Below(path, Len(path), d)
    BY ReadPathIs, DirectoriesSame DEF Rest
  <1>2. Lookup(path) = fat32_find_in_directory(d, path[Len(path)])
    <2>1. d \notin Clusters => fat32_find_in_directory(d, path[Len(path)]) = {}
      BY FindsNothing DEF Rest
    <2> QED BY <2>1 DEF Lookup, NameOf
  <1>3. FindToRead(d, NameOf(path)) = {EntryAt(l) : l \in Lookup(path)}
    BY <1>2, FindsSame DEF Rest, NameOf
  <1> QED BY <1>1, <1>2, <1>3

LEMMA FoundFile ==
  ASSUME Rest, NEW l \in LiveOf("file"), EntryAt(l).size # 0
  PROVE  FirstOf(l) \in Clusters
  <1>1. Covered(FirstOf(l), EntryAt(l).size) /\ l \in Location
    BY DEF Rest, LiveOf, LiveEntries
  <1>2. EntryAt(l).size > 0
    <2>1. EntryAt(l) \in Entry
      BY <1>1, FirstType DEF Rest
    <2> QED BY <2>1 DEF Entry, Size
  <1>3. ReachesOn(fat, FirstOf(l), RequiredClusters(EntryAt(l).size))
        /\ 0 < RequiredClusters(EntryAt(l).size)
    <2>1. RequiredClusters(EntryAt(l).size) > 0 /\ Reaches(FirstOf(l), RequiredClusters(EntryAt(l).size))
      BY <1>1, <1>2 DEF Covered
    <2>2. EntryAt(l) \in Entry
      BY <1>1, FirstType DEF Rest
    <2>3. RequiredClusters(EntryAt(l).size) \in Nat
      BY <2>2, RequiredIs DEF Entry
    <2> QED BY <2>1, <2>3, ReachesIs
  <1>4. WalkOf(fat, FirstOf(l))[0] \in Clusters
    <2>1. 0 \in 0 .. N
      BY DEF Clusters
    <2> QED BY <1>3, <2>1 DEF ReachesOn
  <1> QED BY <1>4, WalkIs

LEMMA OpensSame ==
  ASSUME Rest, NEW path \in ReadPaths \ {<<>>}, NEW here, here = {EntryAt(l) : l \in Lookup(path)}
  PROVE  fat32_open(path) = {[first_cluster |-> e.first, size |-> e.size] :
                               e \in {f \in here : f.kind = "file"}}
  <1> DEFINE d == ParentOf(path)
  <1>1. /\ FindToRead(DirectoryAt(Container(path)), NameOf(path)) = here
        /\ Lookup(path) = fat32_find_in_directory(d, path[Len(path)])
    BY LookupIs
  <1>2. fat32_open(path) = {[first_cluster |-> e.first, size |-> e.size] :
                              e \in {f \in here : f.kind = "file" /\ (f.size # 0 => f.first \in Clusters)}}
    BY <1>1 DEF fat32_open
  <1>3. \A e \in here : e.kind = "file" => (e.size # 0 => e.first \in Clusters)
    <2> SUFFICES ASSUME NEW l \in Lookup(path), EntryAt(l).kind = "file", EntryAt(l).size # 0
                 PROVE  EntryAt(l).first \in Clusters
      OBVIOUS
    <2>1. l \in LiveOf("file")
      BY <1>1, FindIs DEF LiveOf
    <2> QED BY <2>1, FoundFile DEF FirstOf
  <1>4. {f \in here : f.kind = "file" /\ (f.size # 0 => f.first \in Clusters)} = {f \in here : f.kind = "file"}
    BY <1>3
  <1> QED BY <1>2, <1>4

LEMMA SameTruth ==
  ASSUME NEW A \in BOOLEAN, NEW B \in BOOLEAN, A <=> B
  PROVE  A = B
  OBVIOUS

LEMMA ExistsSame ==
  ASSUME Rest, NEW path \in ReadPaths \ {<<>>}, NEW here, here = {EntryAt(l) : l \in Lookup(path)}
  PROVE  /\ fat32_directory_exists(path) = (\E e \in here : e.kind = "dir")
         /\ fat32_directory_exists(Container(path)) = (ParentOf(path) \in Clusters)
  <1> DEFINE d == ParentOf(path)
             found == fat32_find_in_directory(d, path[Len(path)])
  <1>1. /\ d \in {Free} \cup DirectoryHeads /\ DirectoryAt(Container(path)) = d
        /\ DirectoryAt(path) = Below(path, Len(path), d) /\ Lookup(path) = found
    BY LookupIs
  <1>2. fat32_directory_exists(Container(path)) = (ParentOf(path) \in Clusters)
    BY <1>1 DEF fat32_directory_exists
  <1>3. (IF d = Free THEN {} ELSE found) = found
    BY FindsNothing, FreeOutside DEF Rest
  <1>4. Below(path, Len(path), d) =
          LET fnd == IF d = Free THEN {} ELSE found
          IN IF fnd # {} /\ EntryAt(CHOOSE loc \in fnd : TRUE).kind = "dir"
             THEN EntryAt(CHOOSE loc \in fnd : TRUE).first ELSE Free
    BY Zenon DEF Below
  <1> HIDE DEF found, d
  <1>5. CASE found = {}
    <2>1. DirectoryAt(path) = Free /\ here = {}
      BY <1>1, <1>3, <1>4, <1>5
    <2>2. (DirectoryAt(path) \in Clusters) = (\E e \in here : e.kind = "dir")
      <3>1. DirectoryAt(path) \in Clusters <=> \E e \in here : e.kind = "dir"
        BY <2>1, FreeOutside
      <3>2. (DirectoryAt(path) \in Clusters) \in BOOLEAN /\ (\E e \in here : e.kind = "dir") \in BOOLEAN
        OBVIOUS
      <3> QED BY ONLY <3>1, <3>2, SameTruth
    <2> QED BY ONLY <1>2, <2>2 DEF fat32_directory_exists
  <1>6. CASE found # {}
    <2>1. PICK l \in found : TRUE
      BY <1>6
    <2>2. found = {l} /\ l \in LiveEntries
      BY <2>1, FindOne, FindIs DEF found
    <2>3. (CHOOSE loc \in found : TRUE) = l /\ here = {EntryAt(l)}
      BY <1>1, <2>2
    <2>4. DirectoryAt(path) = IF EntryAt(l).kind = "dir" THEN EntryAt(l).first ELSE Free
      BY ONLY <1>1, <1>3, <1>4, <1>6, <2>3
    <2>5. EntryAt(l).kind = "dir" => EntryAt(l).first \in Clusters
      BY <2>2, HeadsAre DEF Rest, LiveOf, FirstOf
    <2>6. DirectoryAt(path) \in Clusters <=> EntryAt(l).kind = "dir"
      BY <2>4, <2>5, FreeOutside
    <2>7. (DirectoryAt(path) \in Clusters) = (\E e \in here : e.kind = "dir")
      <3>1. DirectoryAt(path) \in Clusters <=> \E e \in here : e.kind = "dir"
        BY <2>3, <2>6
      <3>2. (DirectoryAt(path) \in Clusters) \in BOOLEAN /\ (\E e \in here : e.kind = "dir") \in BOOLEAN
        OBVIOUS
      <3> QED BY ONLY <3>1, <3>2, SameTruth
    <2> QED BY ONLY <1>2, <2>7 DEF fat32_directory_exists
  <1> QED BY <1>5, <1>6

LEMMA ListsSame ==
  ASSUME Rest, NEW path \in ReadPaths \ {<<>>}, NEW here, here = {EntryAt(l) : l \in Lookup(path)}
  PROVE  here = {e \in fat32_list_directory(Container(path)) : e.name = NameOf(path)}
  <1> DEFINE d == ParentOf(path)
  <1>1. /\ d \in {Free} \cup DirectoryHeads /\ DirectoryAt(Container(path)) = d
        /\ Lookup(path) = fat32_find_in_directory(d, NameOf(path))
    BY LookupIs DEF NameOf
  <1> HIDE DEF d
  <1>2. fat32_list_directory(Container(path)) =
          {EntryAt(l) : l \in {m \in LiveEntries : d # Free /\ Within(m, d)}}
    BY <1>1, ListingIs
  <1>3. ASSUME NEW l \in Lookup(path)
        PROVE  l \in LiveEntries /\ d # Free /\ Within(l, d) /\ EntryAt(l).name = NameOf(path)
    BY <1>1, <1>3, FindIs, FindsNothing, FreeOutside DEF Rest
  <1>4. ASSUME NEW l \in LiveEntries, d # Free, Within(l, d), EntryAt(l).name = NameOf(path)
        PROVE  l \in Lookup(path)
    <2>1. d \in DirectoryHeads
      BY <1>1, <1>4
    <2>2. PICK m : m \in fat32_find_in_directory(d, NameOf(path))
      BY <1>4, <2>1, FindMisses DEF Rest, EndsTidy
    <2>3. m \in LiveEntries /\ Within(m, d) /\ EntryAt(m).name = NameOf(path)
      BY <2>2, FindIs
    <2>4. l = m
      BY <1>4, <2>1, <2>3 DEF Rest, NamesApart
    <2> QED BY <1>1, <2>2, <2>4
  <1> QED BY <1>2, <1>3, <1>4

(* Between operations, after any calls and any disk faults outside the     *)
(* windows, the reading half of the driver finds, opens and lists what the *)
(* writing half finds, although each has a scan and a resolution of paths  *)
(* of its own: a name is where the scans look for it, before the first end *)
(* mark, a listing comes to the end of the chain, and a file with a size   *)
(* has a cluster.                                                          *)
THEOREM Fat32LookupsAgree == Spec => []LookupsAgree
  <1>1. TypeOK /\ Consistent => LookupsAgree
    <2> SUFFICES ASSUME TypeOK, Consistent, AtRest, NEW path \in ReadPaths \ {<<>>},
                        NEW here, here = {EntryAt(loc) : loc \in Lookup(path)}
                 PROVE  /\ fat32_open(path) = {[first_cluster |-> e.first, size |-> e.size] :
                                                 e \in {f \in here : f.kind = "file"}}
                        /\ fat32_directory_exists(path) = (\E e \in here : e.kind = "dir")
                        /\ fat32_directory_exists(Container(path)) = (ParentOf(path) \in Clusters)
                        /\ here = {e \in fat32_list_directory(Container(path)) : e.name = NameOf(path)}
      BY Zenon DEF LookupsAgree
    <2>1. Rest
      BY RestFacts
    <2> QED BY <2>1, OpensSame, ExistsSame, ListsSame
  <1> QED BY <1>1, Fat32TypeOK, Fat32Consistent, PTL

-----------------------------------------------------------------------------
(* The walk of the reading half along the chain of a file, and its         *)
(* rounding down to clusters.                                              *)
LEMMA ReadClusterIs ==
  ASSUME NEW file, NEW k \in 0 .. N
  PROVE  ReadCluster(file, k) = WalkOf(fat, file.first_cluster)[k]
  <1> DEFINE w == WalkOf(fat, file.first_cluster)
             g == CHOOSE h : WalkTo(fat, h, k, file.first_cluster)
  <1>1. ReadCluster(file, k) = g[k]
    BY Zenon DEF ReadCluster, WalkTo
  <1>2. WalkTo(fat, g, k, file.first_cluster)
    <2>1. k \in Nat
      OBVIOUS
    <2>2. \E h : WalkTo(fat, h, k, file.first_cluster)
      BY ONLY <2>1, WalkExists
    <2> QED BY ONLY <2>2
  <1> HIDE DEF g
  <1>3. g[0] = file.first_cluster /\ \A i \in 1 .. k : g[i] = Successor(fat, g[i - 1])
    <2>1. k \in Nat
      OBVIOUS
    <2> QED BY ONLY <1>2, <2>1, WalkToIs
  <1>4. w[0] = file.first_cluster /\ \A i \in 1 .. k : w[i] = Successor(fat, w[i - 1])
    <2>1. \A i \in 1 .. k : i \in 1 .. N
      OBVIOUS
    <2> QED BY <2>1, WalkIs
  <1> HIDE DEF w
  <1>5. g[k] = w[k]
    <2>1. k \in Nat /\ \A i \in 1 .. k : g[i - 1] = w[i - 1] => g[i] = w[i]
      BY <1>3, <1>4
    <2> QED BY ONLY <1>3, <1>4, <2>1, Agree
  <1> QED BY <1>1, <1>5 DEF w

LEMMA Rounding ==
  /\ \A x \in Nat : x \div ClusterSize \in Nat /\ (x + ClusterSize) \div ClusterSize = x \div ClusterSize + 1
  /\ (0 - 1) \div ClusterSize = -1
  /\ 0 \div ClusterSize = 0
  /\ ClusterSize \div ClusterSize = 1
  /\ (ClusterSize - 1) \div ClusterSize = 0
  <1>1. ClusterSize \in Nat \ {0}
    OBVIOUS
  <1>2. ASSUME NEW x \in Nat
        PROVE  x \div ClusterSize \in Nat /\ (x + ClusterSize) \div ClusterSize = x \div ClusterSize + 1
    BY ONLY <1>1
  <1>3. (0 - 1) \div ClusterSize = -1
    BY ONLY <1>1
  <1>4. 0 \div ClusterSize = 0
    BY ONLY <1>1
  <1>5. ClusterSize \div ClusterSize = 1
    BY ONLY <1>1
  <1>6. (ClusterSize - 1) \div ClusterSize = 0
    BY ONLY <1>1
  <1> QED BY <1>2, <1>3, <1>4, <1>5, <1>6

(* A file that has the clusters of its size is read from any of them.      *)
LEMMA FileReaches ==
  ASSUME Rest, NEW l \in LiveOf("file"), NEW size, size = EntryAt(l).size, size > 0
  PROVE  /\ (size - 1) \div ClusterSize \in 0 .. N
         /\ \A k \in 0 .. (size - 1) \div ClusterSize :
              k \in 0 .. N /\ WalkOf(fat, FirstOf(l))[k] \in ChainSet(FirstOf(l))
  <1> DEFINE w == WalkOf(fat, FirstOf(l))
             R == RequiredClusters(size)
             last == (size - 1) \div ClusterSize
  <1>1. size \in Size /\ size \in Nat /\ size - 1 \in Nat /\ ClusterSize \in Nat \ {0}
    <2>1. EntryAt(l) \in Entry
      BY FirstType DEF Rest, LiveOf, LiveEntries
    <2> QED BY <2>1 DEF Entry, Size
  <1>2. Reaches(FirstOf(l), R) /\ R > 0
    BY DEF Rest, Covered
  <1>3. R = (size + ClusterSize - 1) \div ClusterSize
    BY <1>1, <1>2, RequiredIs
  <1>4. last \in Nat /\ R = last + 1
    <2>1. size + ClusterSize - 1 = (size - 1) + ClusterSize
      BY ONLY <1>1
    <2> QED BY <1>1, <1>3, <2>1, Rounding
  <1> HIDE DEF R, last
  <1>5. \A k \in 0 .. N : k < R => w[k] \in Clusters
    BY <1>2, ReachesIs DEF ReachesOn
  <1>6. PICK k \in 0 .. N : w[k] \notin Clusters
    BY WalkLeaves DEF Rest
  <1>7. last < k
    BY <1>4, <1>5, <1>6
  <1>8. ASSUME NEW i \in 0 .. last
        PROVE  i \in 0 .. N /\ w[i] \in ChainSet(FirstOf(l))
    <2>1. i \in 0 .. N /\ i < R
      BY <1>4, <1>6, <1>7
    <2>2. w[i] \in Clusters
      BY <1>5, <2>1
    <2> QED BY <2>1, <2>2, ChainIs DEF ChainOf
  <1>9. last \in 0 .. N
    BY <1>4, <1>6, <1>7
  <1> QED BY <1>8, <1>9 DEF last

LEMMA RemainsAll ==
  ASSUME NEW file, file.size \in Size, NEW offset \in Size
  PROVE  Remaining(file, offset, Word - 1) = IF offset >= file.size THEN 0 ELSE file.size - offset
  <1> DEFINE size == file.size
  <1>1. size \in Nat /\ size < Word /\ offset \in Nat /\ Word \in Nat
    BY DEF Size
  <1>2. Remaining(file, offset, Word - 1) =
          IF offset >= size THEN 0 ELSE IF Word - 1 < size - offset THEN Word - 1 ELSE size - offset
    BY DEF Remaining
  <1> HIDE DEF size
  <1>3. ~(Word - 1 < size - offset)
    BY ONLY <1>1
  <1> QED BY <1>2, <1>3 DEF size

LEMMA ReadsAll ==
  ASSUME Rest, NEW l \in LiveOf("file"),
         NEW file, file = [first_cluster |-> FirstOf(l), size |-> EntryAt(l).size],
         NEW offset \in {0, ClusterSize, file.size - 1} \cap Size
  PROVE  /\ fat32_read(file, offset, Word - 1) = Remaining(file, offset, Word - 1)
         /\ \A c \in ClustersRead(file, offset, Word - 1), s \in Slot :
              slots[c][s].kind \in {"data", "end"}
  <1> DEFINE size == file.size
             rem == Remaining(file, offset, Word - 1)
  <1>1. /\ size \in Size /\ size = EntryAt(l).size /\ size \in Nat /\ offset \in Nat
        /\ ClusterSize \in Nat \ {0} /\ file.first_cluster = FirstOf(l) /\ file.size \in Size
    <2>1. EntryAt(l) \in Entry
      BY FirstType DEF Rest, LiveOf, LiveEntries
    <2> QED BY <2>1 DEF Entry, Size
  <1>2. rem = IF offset >= size THEN 0 ELSE size - offset
    BY <1>1, RemainsAll
  <1>3. /\ LastRead(file, offset, Word - 1) = (offset + rem - 1) \div ClusterSize
        /\ ClustersRead(file, offset, Word - 1) =
             {ReadCluster(file, k) : k \in offset \div ClusterSize .. LastRead(file, offset, Word - 1)}
        /\ fat32_read(file, offset, Word - 1) =
             IF rem = 0 THEN 0
             ELSE IF \A k \in 0 .. LastRead(file, offset, Word - 1) : ReadCluster(file, k) \in Clusters
                  THEN rem ELSE ReadError
    BY DEF LastRead, ClustersRead, fat32_read
  <1>4. offset \in {0, ClusterSize, size - 1}
    OBVIOUS
  <1> HIDE DEF rem, size
  <1>5. CASE offset >= size
    <2>1. rem = 0 /\ LastRead(file, offset, Word - 1) = (offset - 1) \div ClusterSize
      BY <1>1, <1>2, <1>3, <1>5
    <2>2. offset = 0 \/ offset = ClusterSize
      BY <1>1, <1>4, <1>5
    <2>3. offset \div ClusterSize .. (offset - 1) \div ClusterSize = {}
      <3>1. CASE offset = 0
        <4>1. offset \div ClusterSize = 0 /\ (offset - 1) \div ClusterSize = -1
          BY <3>1, Rounding
        <4> QED BY <4>1
      <3>2. CASE offset = ClusterSize
        <4>1. offset \div ClusterSize = 1 /\ (offset - 1) \div ClusterSize = 0
          BY <3>2, Rounding
        <4> QED BY <4>1
      <3> QED BY <2>2, <3>1, <3>2
    <2>4. ClustersRead(file, offset, Word - 1) = {}
      BY ONLY <1>3, <2>1, <2>3
    <2> QED BY <1>3, <2>1, <2>4 DEF rem
  <1>6. CASE ~(offset >= size)
    <2>1. /\ rem = size - offset /\ rem # 0 /\ size > 0
          /\ offset + rem - 1 = size - 1
      BY <1>1, <1>2, <1>6
    <2> DEFINE last == (size - 1) \div ClusterSize
    <2>2. LastRead(file, offset, Word - 1) = last
      BY <1>3, <2>1
    <2>3. \A k \in 0 .. last : k \in 0 .. N /\ WalkOf(fat, FirstOf(l))[k] \in ChainSet(FirstOf(l))
      BY <1>1, <2>1, FileReaches
    <2>4. offset \div ClusterSize \in Nat /\ last \in Int
      <3>1. offset \div ClusterSize \in Nat
        BY <1>1, Rounding
      <3>2. last \in 0 .. N
        BY <1>1, <2>1, FileReaches
      <3> HIDE DEF last
      <3> QED BY <3>1, <3>2
    <2> HIDE DEF last
    <2>5. \A k \in 0 .. last : ReadCluster(file, k) \in ChainSet(FirstOf(l))
      BY <1>1, <2>3, ReadClusterIs
    <2>6. \A k \in 0 .. last : ReadCluster(file, k) \in Clusters
      BY <2>5 DEF ChainSet
    <2>7. fat32_read(file, offset, Word - 1) = rem
      BY <1>3, <2>1, <2>2, <2>6
    <2>8. ASSUME NEW c \in ClustersRead(file, offset, Word - 1), NEW s \in Slot
          PROVE  slots[c][s].kind \in {"data", "end"}
      <3>1. PICK k \in offset \div ClusterSize .. last : c = ReadCluster(file, k)
        BY <1>3, <2>2
      <3>2. k \in 0 .. last
        BY <2>4
      <3>3. c \in ChainSet(FirstOf(l))
        BY <2>5, <3>1, <3>2
      <3> QED BY <3>3 DEF Rest, FilesPlain, Plain, KindIn
    <2> QED BY <2>7, <2>8 DEF rem
  <1> QED BY <1>5, <1>6

(* Between operations every file that a path leads to can be read to the   *)
(* last byte of its size: it has the clusters, at every moment of every    *)
(* call, and what is in them is zeros or the data of files, nothing that a *)
(* directory left there.                                                   *)
THEOREM Fat32ReadsWhole == Spec => []ReadsWhole
  <1>1. TypeOK /\ Consistent => ReadsWhole
    <2> SUFFICES ASSUME TypeOK, Consistent, AtRest, NEW path \in ReadPaths \ {<<>>},
                        NEW loc \in Lookup(path), EntryAt(loc).kind = "file"
                 PROVE  \E file \in fat32_open(path) :
                          \A offset \in {0, ClusterSize, file.size - 1} \cap Size :
                            /\ fat32_read(file, offset, Word - 1) = Remaining(file, offset, Word - 1)
                            /\ \A c \in ClustersRead(file, offset, Word - 1), s \in Slot :
                                 slots[c][s].kind \in {"data", "end"}
      BY Zenon DEF ReadsWhole
    <2>1. Rest
      BY RestFacts
    <2>2. loc \in LiveOf("file")
      BY <2>1, LookupIs, FindIs DEF LiveOf
    <2> DEFINE file == [first_cluster |-> FirstOf(loc), size |-> EntryAt(loc).size]
    <2>3. file \in fat32_open(path)
      <3>1. fat32_open(path) = {[first_cluster |-> e.first, size |-> e.size] :
                                  e \in {f \in {EntryAt(l) : l \in Lookup(path)} : f.kind = "file"}}
        BY <2>1, OpensSame
      <3> QED BY <3>1 DEF FirstOf
    <2> HIDE DEF file
    <2>4. file = [first_cluster |-> FirstOf(loc), size |-> EntryAt(loc).size]
      BY DEF file
    <2>5. \A offset \in {0, ClusterSize, file.size - 1} \cap Size :
            /\ fat32_read(file, offset, Word - 1) = Remaining(file, offset, Word - 1)
            /\ \A c \in ClustersRead(file, offset, Word - 1), s \in Slot :
                 slots[c][s].kind \in {"data", "end"}
      BY ONLY <2>1, <2>2, <2>4, ReadsAll
    <2> QED BY <2>3, <2>5
  <1> QED BY <1>1, Fat32TypeOK, Fat32Consistent, PTL

HIDE CallerAssumption DEF Operations, Steps, Kinds, Appending

-----------------------------------------------------------------------------
(* Trees, as sets of entries that say which directory they are in.         *)
Twig == [dir : Clusters, name : Names, kind : Live, first : Clusters \cup {Free}, size : Size]
Boughs(G) == {e \in G : e.kind = "dir"}
Forks(G)  == {Root} \cup {e.first : e \in Boughs(G)}

TreeLike(G) ==
  /\ G \subseteq Twig
  /\ \A e \in G : e.dir \in Forks(G)
  /\ \A e, f \in G : e.dir = f.dir /\ e.name = f.name => e = f
  /\ \A e, f \in Boughs(G) : e.first = f.first => e = f
  /\ \A e \in Boughs(G) : e.first \in Clusters /\ e.first # Root
  /\ \A S \in SUBSET (Forks(G) \ {Root}) :
       S # {} => \E e \in Boughs(G) : e.first \in S /\ e.dir \notin S

(* The segments i + 1 .. j of a path lead from directory c to directory d. *)
Bough(G, c, a, d) == \E e \in Boughs(G) : e.dir = c /\ e.name = a /\ e.first = d
Route(G, f, p, i, j) ==
  /\ f \in [i .. j -> Clusters]
  /\ \A k \in i + 1 .. j : Bough(G, f[k - 1], p[k], f[k])
Goes(G, c, p, i, j, d) == \E f : Route(G, f, p, i, j) /\ f[i] = c /\ f[j] = d

(* A path names an entry.                                                  *)
Has(G, p, e) == e \in G /\ p[Len(p)] = e.name /\ Goes(G, Root, p, 0, Len(p) - 1, e.dir)

LEMMA GoesNowhere ==
  ASSUME NEW G, NEW p, NEW i \in Nat, NEW c, NEW d
  PROVE  Goes(G, c, p, i, i, d) <=> c \in Clusters /\ d = c
  <1>1. ASSUME Goes(G, c, p, i, i, d)
        PROVE  c \in Clusters /\ d = c
    BY <1>1 DEF Goes, Route
  <1>2. ASSUME c \in Clusters, d = c
        PROVE  Goes(G, c, p, i, i, d)
    <2> DEFINE f == [k \in i .. i |-> c]
    <2>1. f \in [i .. i -> Clusters] /\ f[i] = c
      BY <1>2
    <2>2. \A k \in i + 1 .. i : FALSE
      OBVIOUS
    <2> HIDE DEF f
    <2> QED BY <1>2, <2>1, <2>2 DEF Goes, Route
  <1> QED BY <1>1, <1>2

(* A route divides at each of its places, and two join.                    *)
LEMMA GoesSplit ==
  ASSUME NEW G, NEW p, NEW i \in Nat, NEW j \in Nat, NEW m \in i .. j, NEW c, NEW d,
         Goes(G, c, p, i, j, d)
  PROVE  \E x \in Clusters : Goes(G, c, p, i, m, x) /\ Goes(G, x, p, m, j, d)
  <1>1. PICK f : Route(G, f, p, i, j) /\ f[i] = c /\ f[j] = d
    BY DEF Goes
  <1> DEFINE g == [k \in i .. m |-> f[k]]
             h == [k \in m .. j |-> f[k]]
  <1>2. m \in Nat /\ i <= m /\ m <= j
    OBVIOUS
  <1>3. f \in [i .. j -> Clusters] /\ \A k \in i + 1 .. j : Bough(G, f[k - 1], p[k], f[k])
    BY <1>1 DEF Route
  <1>4. g \in [i .. m -> Clusters] /\ h \in [m .. j -> Clusters]
    BY <1>2, <1>3
  <1>5. /\ g[i] = c /\ g[m] = f[m] /\ h[m] = f[m] /\ h[j] = d
        /\ \A k \in i + 1 .. m : g[k - 1] = f[k - 1] /\ g[k] = f[k]
        /\ \A k \in m + 1 .. j : h[k - 1] = f[k - 1] /\ h[k] = f[k]
    BY <1>1, <1>2
  <1> HIDE DEF g, h
  <1>6. Route(G, g, p, i, m)
    BY <1>2, <1>3, <1>4, <1>5 DEF Route
  <1>7. Route(G, h, p, m, j)
    BY <1>2, <1>3, <1>4, <1>5 DEF Route
  <1>8. f[m] \in Clusters
    BY <1>2, <1>3
  <1> QED BY <1>5, <1>6, <1>7, <1>8 DEF Goes

LEMMA GoesJoin ==
  ASSUME NEW G, NEW p, NEW i \in Nat, NEW j \in Nat, NEW m \in i .. j, NEW c, NEW d, NEW x,
         Goes(G, c, p, i, m, x), Goes(G, x, p, m, j, d)
  PROVE  Goes(G, c, p, i, j, d)
  <1>1. PICK g : Route(G, g, p, i, m) /\ g[i] = c /\ g[m] = x
    BY DEF Goes
  <1>2. PICK h : Route(G, h, p, m, j) /\ h[m] = x /\ h[j] = d
    BY DEF Goes
  <1> DEFINE f == [k \in i .. j |-> IF k <= m THEN g[k] ELSE h[k]]
  <1>3. m \in Nat /\ i <= m /\ m <= j
    OBVIOUS
  <1>4. g \in [i .. m -> Clusters] /\ \A k \in i + 1 .. m : Bough(G, g[k - 1], p[k], g[k])
    BY <1>1 DEF Route
  <1>5. h \in [m .. j -> Clusters] /\ \A k \in m + 1 .. j : Bough(G, h[k - 1], p[k], h[k])
    BY <1>2 DEF Route
  <1>6. f \in [i .. j -> Clusters]
    BY <1>3, <1>4, <1>5
  <1>7. \A k \in i .. m : f[k] = g[k]
    BY <1>3
  <1>8. \A k \in m .. j : f[k] = h[k]
    BY <1>1, <1>2, <1>3
  <1> HIDE DEF f
  <1>9. ASSUME NEW k \in i + 1 .. j
        PROVE  Bough(G, f[k - 1], p[k], f[k])
    <2>1. CASE k <= m
      <3>1. k \in i + 1 .. m /\ k \in i .. m /\ k - 1 \in i .. m
        BY <1>3, <2>1
      <3> QED BY <1>4, <1>7, <3>1
    <2>2. CASE ~(k <= m)
      <3>1. k \in m + 1 .. j /\ k \in m .. j /\ k - 1 \in m .. j
        BY <1>3, <2>2
      <3> QED BY <1>5, <1>8, <3>1
    <2> QED BY <2>1, <2>2
  <1>10. f[i] = c /\ f[j] = d
    BY <1>1, <1>2, <1>3, <1>7, <1>8
  <1> QED BY <1>6, <1>9, <1>10 DEF Goes, Route

LEMMA GoesOnce ==
  ASSUME NEW G, NEW p, NEW i \in Nat, NEW c, NEW d
  PROVE  Goes(G, c, p, i, i + 1, d) <=> c \in Clusters /\ d \in Clusters /\ Bough(G, c, p[i + 1], d)
  <1>1. ASSUME Goes(G, c, p, i, i + 1, d)
        PROVE  c \in Clusters /\ d \in Clusters /\ Bough(G, c, p[i + 1], d)
    <2>1. PICK f : Route(G, f, p, i, i + 1) /\ f[i] = c /\ f[i + 1] = d
      BY <1>1 DEF Goes
    <2>2. i + 1 \in i + 1 .. i + 1 /\ i \in i .. i + 1 /\ i + 1 \in i .. i + 1 /\ (i + 1) - 1 = i
      OBVIOUS
    <2> QED BY <2>1, <2>2 DEF Route
  <1>2. ASSUME c \in Clusters, d \in Clusters, Bough(G, c, p[i + 1], d)
        PROVE  Goes(G, c, p, i, i + 1, d)
    <2> DEFINE f == [k \in i .. i + 1 |-> IF k = i THEN c ELSE d]
    <2>1. f \in [i .. i + 1 -> Clusters] /\ f[i] = c /\ f[i + 1] = d
      BY <1>2
    <2>2. \A k \in i + 1 .. i + 1 : k = i + 1 /\ k - 1 = i
      OBVIOUS
    <2> HIDE DEF f
    <2> QED BY <1>2, <2>1, <2>2 DEF Goes, Route
  <1> QED BY <1>1, <1>2

(* The last segment of a route.                                            *)
LastBough(G, c, p, i, j, d) ==
  \E e \in Boughs(G) : Goes(G, c, p, i, j - 1, e.dir) /\ e.name = p[j] /\ e.first = d

LEMMA GoesLast ==
  ASSUME NEW G, NEW p, NEW i \in Nat, NEW j \in Nat, i < j, NEW c, NEW d, Goes(G, c, p, i, j, d)
  PROVE  \E e \in Boughs(G) : /\ Goes(G, c, p, i, j - 1, e.dir)
                              /\ e.name = p[j] /\ e.first = d
  <1>1. j - 1 \in i .. j /\ j - 1 \in Nat /\ (j - 1) + 1 = j
    OBVIOUS
  <1>2. PICK x \in Clusters : Goes(G, c, p, i, j - 1, x) /\ Goes(G, x, p, j - 1, j, d)
    BY <1>1, GoesSplit
  <1>3. Bough(G, x, p[j], d)
    BY <1>1, <1>2, GoesOnce
  <1> QED BY <1>2, <1>3 DEF Bough

LEMMA GoesLastly ==
  ASSUME NEW G, NEW p, NEW j \in Nat, 0 < j, NEW c, NEW d, Goes(G, c, p, 0, j, d)
  PROVE  LastBough(G, c, p, 0, j, d)
  BY GoesLast DEF LastBough

LEMMA GoesMore ==
  ASSUME NEW G, NEW p, NEW i \in Nat, NEW j \in Nat, i < j, NEW c, NEW e \in Boughs(G),
         e.dir \in Clusters, e.first \in Clusters, e.name = p[j], Goes(G, c, p, i, j - 1, e.dir)
  PROVE  Goes(G, c, p, i, j, e.first)
  <1>1. j - 1 \in i .. j /\ j - 1 \in Nat /\ (j - 1) + 1 = j
    OBVIOUS
  <1>2. Goes(G, e.dir, p, j - 1, j, e.first)
    BY <1>1, GoesOnce DEF Bough
  <1> QED BY <1>1, <1>2, GoesJoin

LEMMA GoesWithin ==
  ASSUME NEW G, NEW H, Boughs(G) \subseteq Boughs(H), NEW p, NEW i, NEW j, NEW c, NEW d,
         Goes(G, c, p, i, j, d)
  PROVE  Goes(H, c, p, i, j, d)
  BY DEF Goes, Route, Bough

(* The same names at other places of another path.                         *)
LEMMA GoesShifted ==
  ASSUME NEW G, NEW p, NEW q, NEW i \in Nat, NEW j \in Nat, NEW m \in Nat, NEW n \in Nat,
         i <= j, j - i = n - m, \A k \in 1 .. j - i : p[i + k] = q[m + k], NEW c, NEW d,
         Goes(G, c, p, i, j, d)
  PROVE  Goes(G, c, q, m, n, d)
  <1>1. PICK f : Route(G, f, p, i, j) /\ f[i] = c /\ f[j] = d
    BY DEF Goes
  <1>2. f \in [i .. j -> Clusters] /\ \A k \in i + 1 .. j : Bough(G, f[k - 1], p[k], f[k])
    BY <1>1 DEF Route
  <1> DEFINE g == [k \in m .. n |-> f[i + (k - m)]]
  <1>3. \A k \in m .. n : i + (k - m) \in i .. j
    OBVIOUS
  <1>4. g \in [m .. n -> Clusters]
    BY <1>2, <1>3
  <1>5. g[m] = c /\ g[n] = d
    <2>1. m \in m .. n /\ n \in m .. n /\ i + (m - m) = i /\ i + (n - m) = j
      OBVIOUS
    <2> QED BY <1>1, <2>1
  <1>6. ASSUME NEW k \in m + 1 .. n
        PROVE  Bough(G, g[k - 1], q[k], g[k])
    <2> DEFINE t == i + (k - m)
    <2>1. /\ t \in i + 1 .. j /\ i + ((k - 1) - m) = t - 1 /\ k \in m .. n /\ k - 1 \in m .. n
          /\ k - m \in 1 .. j - i /\ m + (k - m) = k
      OBVIOUS
    <2>2. g[k - 1] = f[t - 1] /\ g[k] = f[t]
      BY <2>1
    <2>3. p[t] = q[k]
      BY <2>1
    <2> HIDE DEF t, g
    <2> QED BY <1>2, <2>1, <2>2, <2>3
  <1> HIDE DEF g
  <1> QED BY <1>4, <1>5, <1>6 DEF Goes, Route

LEMMA GoesAlike ==
  ASSUME NEW G, NEW p, NEW q, NEW n \in Nat, \A k \in 1 .. n : p[k] = q[k], NEW c, NEW d,
         Goes(G, c, p, 0, n, d)
  PROVE  Goes(G, c, q, 0, n, d)
  <1>1. 0 <= n /\ n - 0 = n /\ \A k : k \in 1 .. n => 0 + k = k
    OBVIOUS
  <1> QED BY <1>1, GoesShifted

(* In a tree a path leads to one directory, and one path leads there.      *)
LEMMA GoesOneWay ==
  ASSUME NEW G, TreeLike(G), NEW p, NEW q, NEW n \in Nat, \A k \in 1 .. n : p[k] = q[k],
         NEW c, NEW d, NEW e, Goes(G, c, p, 0, n, d), Goes(G, c, q, 0, n, e)
  PROVE  d = e
  <1> DEFINE Bad == {m \in 0 .. n : \E x, y : /\ Goes(G, c, p, 0, m, x) /\ Goes(G, c, q, 0, m, y)
                                              /\ x # y}
  <1>1. ASSUME Bad # {}
        PROVE  FALSE
    <2>1. Bad \in SUBSET Nat
      OBVIOUS
    <2>2. PICK m \in Bad : \A k \in Bad : m <= k
      <3> HIDE DEF Bad
      <3> QED BY <1>1, <2>1, LeastNatural
    <2>3. PICK x, y : Goes(G, c, p, 0, m, x) /\ Goes(G, c, q, 0, m, y) /\ x # y
      OBVIOUS
    <2>4. m \in Nat /\ m <= n
      OBVIOUS
    <2>5. m # 0
      <3> SUFFICES ASSUME m = 0
                   PROVE  FALSE
        OBVIOUS
      <3> QED BY <2>3, GoesNowhere
    <2>6. 0 < m /\ m - 1 \in 0 .. n /\ ~(m <= m - 1) /\ m \in 1 .. n
      BY <2>4, <2>5
    <2>7. PICK a \in Boughs(G) : Goes(G, c, p, 0, m - 1, a.dir) /\ a.name = p[m] /\ a.first = x
      BY <2>3, <2>4, <2>6, GoesLast
    <2>8. PICK b \in Boughs(G) : Goes(G, c, q, 0, m - 1, b.dir) /\ b.name = q[m] /\ b.first = y
      BY <2>3, <2>4, <2>6, GoesLast
    <2>9. a.dir = b.dir
      <3>1. m - 1 \notin Bad
        BY <2>2, <2>6
      <3> QED BY <2>6, <2>7, <2>8, <3>1
    <2>10. a = b
      <3>1. a \in G /\ b \in G /\ a.name = b.name
        BY <2>6, <2>7, <2>8 DEF Boughs
      <3> QED BY <2>9, <3>1 DEF TreeLike
    <2> QED BY <2>3, <2>7, <2>8, <2>10
  <1>2. n \in 0 .. n
    OBVIOUS
  <1> QED BY <1>1, <1>2

LEMMA GoesByOne ==
  ASSUME NEW G, TreeLike(G), NEW p, NEW q, NEW m \in Nat, NEW n \in Nat, NEW d,
         Goes(G, Root, p, 0, m, d), Goes(G, Root, q, 0, n, d)
  PROVE  m = n /\ \A k \in 1 .. m : p[k] = q[k]
  <1> DEFINE Bad == {i \in Nat : \E j \in Nat : \E x :
                               /\ Goes(G, Root, p, 0, i, x) /\ Goes(G, Root, q, 0, j, x)
                               /\ ~(i = j /\ \A k \in 1 .. i : p[k] = q[k])}
  <1>1. ASSUME Bad # {}
        PROVE  FALSE
    <2>1. Bad \in SUBSET Nat
      OBVIOUS
    <2>2. PICK i \in Bad : \A k \in Bad : i <= k
      <3> HIDE DEF Bad
      <3> QED BY <1>1, <2>1, LeastNatural
    <2>3. PICK j \in Nat : \E x : /\ Goes(G, Root, p, 0, i, x) /\ Goes(G, Root, q, 0, j, x)
                                 /\ ~(i = j /\ \A k \in 1 .. i : p[k] = q[k])
      OBVIOUS
    <2>4. PICK x : /\ Goes(G, Root, p, 0, i, x) /\ Goes(G, Root, q, 0, j, x)
                    /\ ~(i = j /\ \A k \in 1 .. i : p[k] = q[k])
      BY <2>3
    <2>5. i \in Nat
      OBVIOUS
    <2>6. CASE i = 0
      <3>1. x = Root /\ j # 0
        BY <2>4, <2>6, GoesNowhere
      <3>2. 0 < j
        BY <3>1
      <3>3. PICK b \in Boughs(G) : b.first = x
        BY ONLY <2>4, <3>2, j \in Nat, 0 \in Nat, GoesLast
      <3> QED BY <3>1, <3>3 DEF TreeLike
    <2>7. CASE i # 0
      <3>1. 0 < i /\ i - 1 \in Nat /\ ~(i <= i - 1)
        BY <2>5, <2>7
      <3>2. PICK a \in Boughs(G) : Goes(G, Root, p, 0, i - 1, a.dir) /\ a.name = p[i] /\ a.first = x
        <4>1. Goes(G, Root, p, 0, i, x)
          BY <2>4
        <4>2. LastBough(G, Root, p, 0, i, x)
          BY ONLY <4>1, <2>5, <3>1, GoesLastly
        <4> QED BY ONLY <4>2 DEF LastBough
      <3>3. j # 0
        <4> SUFFICES ASSUME j = 0
                     PROVE  FALSE
          OBVIOUS
        <4>1. x = Root
          BY <2>4, GoesNowhere
        <4> QED BY <3>2, <4>1 DEF TreeLike
      <3>4. 0 < j /\ j - 1 \in Nat
        BY <3>3
      <3>5. PICK b \in Boughs(G) : Goes(G, Root, q, 0, j - 1, b.dir) /\ b.name = q[j] /\ b.first = x
        BY <2>4, <3>4, GoesLast
      <3>6. a = b
        BY <3>2, <3>5 DEF TreeLike
      <3>7. i - 1 = j - 1 /\ \A k \in 1 .. i - 1 : p[k] = q[k]
        <4>1. i - 1 \notin Bad
          BY <2>2, <3>1
        <4> QED BY <3>1, <3>2, <3>4, <3>5, <3>6, <4>1
      <3>8. i = j /\ p[i] = q[i]
        BY <2>5, <3>2, <3>5, <3>6, <3>7
      <3>9. \A k \in 1 .. i : k \in 1 .. i - 1 \/ k = i
        BY <2>5
      <3> QED BY <2>4, <3>7, <3>8, <3>9
    <2> QED BY <2>6, <2>7
  <1>2. m \notin Bad
    BY <1>1
  <1> QED BY <1>2

(* A path comes to every directory, and none is longer than the volume has *)
(* clusters.                                                               *)
LEMMA ForksReached ==
  ASSUME NEW G, TreeLike(G), NEW h \in Forks(G)
  PROVE  \E n \in Nat, p \in Seq(Names) : Len(p) = n /\ Goes(G, Root, p, 0, n, h)
  <1> DEFINE Come(x) == \E n \in Nat, p \in Seq(Names) : Len(p) = n /\ Goes(G, Root, p, 0, n, x)
             S == {x \in Forks(G) : ~Come(x)}
  <1>1. Come(Root)
    <2>1. <<>> \in Seq(Names) /\ Len(<<>>) = 0 /\ 0 \in Nat
      OBVIOUS
    <2>2. Goes(G, Root, <<>>, 0, 0, Root)
      BY <2>1, GoesNowhere
    <2> QED BY <2>1, <2>2
  <1>2. ASSUME S # {}
        PROVE  FALSE
    <2>1. S \in SUBSET (Forks(G) \ {Root})
      BY <1>1
    <2>2. PICK e \in Boughs(G) : e.first \in S /\ e.dir \notin S
      <3> HIDE DEF S
      <3> QED BY <1>2, <2>1 DEF TreeLike
    <2>3. e \in G /\ e.dir \in Forks(G) /\ e.name \in Names /\ e.dir \in Clusters /\ e.first \in Clusters
      BY DEF TreeLike, Twig, Boughs
    <2>4. PICK n \in Nat, p \in Seq(Names) : Len(p) = n /\ Goes(G, Root, p, 0, n, e.dir)
      BY <2>2, <2>3
    <2> DEFINE q == Append(p, e.name)
    <2>5. /\ q \in Seq(Names) /\ Len(q) = n + 1 /\ q[n + 1] = e.name
          /\ \A k \in 1 .. n : p[k] = q[k]
      BY <2>3, <2>4
    <2> HIDE DEF q
    <2>6. Goes(G, Root, q, 0, n, e.dir)
      BY <2>4, <2>5, GoesAlike
    <2>7. n + 1 \in Nat /\ 0 < n + 1 /\ (n + 1) - 1 = n
      OBVIOUS
    <2>8. Goes(G, Root, q, 0, n + 1, e.first)
      BY <2>3, <2>5, <2>6, <2>7, GoesMore
    <2>9. Come(e.first)
      BY <2>5, <2>7, <2>8
    <2> QED BY <2>2, <2>9
  <1> QED BY <1>2

LEMMA ClustersCounted == IsFiniteSet(Clusters) /\ Cardinality(Clusters) = N
  BY FS_Interval DEF Clusters

LEMMA GoesNotFar ==
  ASSUME NEW G, TreeLike(G), NEW p, NEW n \in Nat, NEW d, Goes(G, Root, p, 0, n, d)
  PROVE  n < N
  <1>1. PICK f : Route(G, f, p, 0, n) /\ f[0] = Root /\ f[n] = d
    BY DEF Goes
  <1>2. f \in [0 .. n -> Clusters]
    BY <1>1 DEF Route
  <1>3. ASSUME NEW i \in 0 .. n
        PROVE  Goes(G, Root, p, 0, i, f[i])
    <2> DEFINE g == [k \in 0 .. i |-> f[k]]
    <2>1. i \in Nat /\ i <= n
      OBVIOUS
    <2>2. g \in [0 .. i -> Clusters] /\ g[0] = Root /\ g[i] = f[i]
      BY <1>1, <1>2, <2>1
    <2>3. \A k \in 0 + 1 .. i : g[k - 1] = f[k - 1] /\ g[k] = f[k] /\ k \in 0 + 1 .. n
      BY <2>1
    <2> HIDE DEF g
    <2>4. Route(G, g, p, 0, i)
      BY <1>1, <2>2, <2>3 DEF Route
    <2> QED BY <2>2, <2>4 DEF Goes
  <1>4. ASSUME NEW i \in 0 .. n, NEW j \in 0 .. n, f[i] = f[j]
        PROVE  i = j
    <2>1. i \in Nat /\ j \in Nat
      OBVIOUS
    <2> QED BY <1>3, <1>4, <2>1, GoesByOne
  <1>5. f \in Injection(0 .. n, Clusters)
    BY <1>2, <1>4 DEF Injection, IsInjective
  <1>6. Cardinality(0 .. n) = n + 1
    BY FS_Interval
  <1>7. Cardinality(0 .. n) <= Cardinality(Clusters)
    BY <1>5, ClustersCounted, FS_Injection
  <1> QED BY <1>6, <1>7, ClustersCounted

LEMMA RouteParts ==
  ASSUME NEW G, NEW f, NEW p, NEW i \in Nat, NEW j \in Nat, Route(G, f, p, i, j), NEW k \in i .. j
  PROVE  f[k] \in Clusters /\ Goes(G, f[i], p, i, k, f[k])
  <1> DEFINE g == [m \in i .. k |-> f[m]]
  <1>1. k \in Nat /\ i <= k /\ k <= j
    OBVIOUS
  <1>2. f \in [i .. j -> Clusters] /\ \A m \in i + 1 .. j : Bough(G, f[m - 1], p[m], f[m])
    BY DEF Route
  <1>3. g \in [i .. k -> Clusters] /\ g[i] = f[i] /\ g[k] = f[k]
    BY <1>1, <1>2
  <1>4. \A m \in i + 1 .. k : g[m - 1] = f[m - 1] /\ g[m] = f[m] /\ m \in i + 1 .. j
    BY <1>1
  <1> HIDE DEF g
  <1>5. Route(G, g, p, i, k)
    BY <1>2, <1>3, <1>4 DEF Route
  <1>6. f[k] \in Clusters
    BY <1>2
  <1> QED BY <1>3, <1>5, <1>6 DEF Goes

(* The paths of the tree, and what each of them names.                     *)
Way == Seq(Names) \ {<<>>}

LEMMA TreePathIs ==
  \A p : p \in TreePaths <=> p \in Way /\ Len(p) <= N
  <1>1. ASSUME NEW p \in TreePaths
        PROVE  p \in Way /\ Len(p) <= N
    <2>1. PICK n \in 1 .. N : p \in [1 .. n -> Names]
      BY DEF TreePaths
    <2>2. n \in Nat /\ 1 <= n /\ n <= N
      OBVIOUS
    <2>3. p \in Seq(Names) /\ Len(p) = n
      BY <2>1, <2>2
    <2>4. p # <<>>
      BY <2>2, <2>3
    <2> QED BY <2>2, <2>3, <2>4 DEF Way
  <1>2. ASSUME NEW p \in Way, Len(p) <= N
        PROVE  p \in TreePaths
    <2>1. p \in Seq(Names) /\ p # <<>>
      BY DEF Way
    <2>2. Len(p) \in 1 .. N /\ p \in [1 .. Len(p) -> Names]
      BY <1>2, <2>1
    <2> QED BY <2>2 DEF TreePaths
  <1> QED BY <1>1, <1>2

LEMMA WayIs ==
  ASSUME NEW p \in Way
  PROVE  /\ p \in Seq(Names) /\ Len(p) \in Nat /\ 0 < Len(p) /\ Len(p) - 1 \in Nat
         /\ 0 \in Nat /\ Len(p) - 1 < Len(p) /\ Len(p) \in 1 .. Len(p)
         /\ \A k \in 1 .. Len(p) - 1 : k \in 1 .. Len(p)
         /\ \A k \in 1 .. Len(p) : k = Len(p) \/ k \in 1 .. Len(p) - 1
  BY DEF Way

LEMMA TwigIs ==
  ASSUME NEW G, TreeLike(G), NEW e \in G
  PROVE  /\ e \in Twig /\ e.dir \in Clusters /\ e.name \in Names /\ e.kind \in Live
         /\ e \in Boughs(G) => e.first \in Clusters
         /\ e.kind = "dir" <=> e \in Boughs(G)
  BY DEF TreeLike, Twig, Boughs

LEMMA HasOne ==
  ASSUME NEW G, TreeLike(G), NEW r \in Way, NEW x, NEW y, Has(G, r, x), Has(G, r, y)
  PROVE  x = y
  <1>1. x.dir = y.dir
    BY WayIs, GoesOneWay DEF Has
  <1> QED BY <1>1 DEF Has, TreeLike

LEMMA HasSame ==
  ASSUME NEW G, TreeLike(G), NEW p \in Way, NEW q \in Way, NEW e, Has(G, p, e), Has(G, q, e)
  PROVE  p = q
  <1>1. Len(p) - 1 = Len(q) - 1 /\ \A k \in 1 .. Len(p) - 1 : p[k] = q[k]
    BY WayIs, GoesByOne DEF Has
  <1>2. p[Len(p)] = q[Len(q)]
    BY DEF Has
  <1>3. Len(p) = Len(q)
    BY <1>1, WayIs
  <1>4. \A k \in 1 .. Len(p) : p[k] = q[k]
    BY <1>1, <1>2, <1>3, WayIs
  <1>5. p \in Seq(Names) /\ q \in Seq(Names)
    BY WayIs
  <1> QED BY ONLY <1>3, <1>4, <1>5

LEMMA HasShort ==
  ASSUME NEW G, TreeLike(G), NEW p \in Way, NEW e, Has(G, p, e)
  PROVE  p \in TreePaths
  <1>1. Len(p) - 1 < N
    BY WayIs, GoesNotFar DEF Has
  <1>2. Len(p) <= N
    BY <1>1, WayIs
  <1> QED BY <1>2, TreePathIs

LEMMA HasPlace ==
  ASSUME NEW G, TreeLike(G), NEW e \in G
  PROVE  \E p \in TreePaths : p \in Way /\ Has(G, p, e)
  <1>1. e.dir \in Forks(G) /\ e.name \in Names
    BY DEF TreeLike, Twig
  <1>2. PICK n \in Nat, w \in Seq(Names) : Len(w) = n /\ Goes(G, Root, w, 0, n, e.dir)
    BY <1>1, ForksReached
  <1> DEFINE p == Append(w, e.name)
  <1>3. p \in Seq(Names) /\ Len(p) = n + 1 /\ p[n + 1] = e.name /\ \A k \in 1 .. n : w[k] = p[k]
    BY <1>1, <1>2
  <1>4. p # <<>> /\ (n + 1) - 1 = n
    BY <1>3
  <1> HIDE DEF p
  <1>5. Goes(G, Root, p, 0, n, e.dir)
    BY <1>2, <1>3, GoesAlike
  <1>6. p \in Way /\ Has(G, p, e)
    BY <1>3, <1>4, <1>5 DEF Way, Has
  <1> QED BY <1>6, HasShort

(* A route that does not come through the entry of p does without it; one  *)
(* that does, goes on without it.                                          *)
Starts(p, r, n) == Len(p) <= n /\ \A k \in 1 .. Len(p) : p[k] = r[k]

LEMMA Detour ==
  ASSUME NEW G, TreeLike(G), NEW p \in Way, NEW e, Has(G, p, e), NEW r, NEW n \in Nat, NEW d,
         Goes(G, Root, r, 0, n, d), ~Starts(p, r, n)
  PROVE  Goes(G \ {e}, Root, r, 0, n, d)
  <1>1. PICK f : Route(G, f, r, 0, n) /\ f[0] = Root /\ f[n] = d
    BY DEF Goes
  <1>2. f \in [0 .. n -> Clusters] /\ \A k \in 0 + 1 .. n : Bough(G, f[k - 1], r[k], f[k])
    BY <1>1 DEF Route
  <1>3. ASSUME NEW k \in 0 + 1 .. n
        PROVE  Bough(G \ {e}, f[k - 1], r[k], f[k])
    <2>1. k \in Nat /\ k - 1 \in Nat /\ k - 1 \in 0 .. n /\ k <= n
      OBVIOUS
    <2>2. PICK x \in Boughs(G) : x.dir = f[k - 1] /\ x.name = r[k] /\ x.first = f[k]
      BY <1>2 DEF Bough
    <2>3. Goes(G, Root, r, 0, k - 1, f[k - 1])
      BY <1>1, <2>1, RouteParts
    <2>4. ASSUME x = e
          PROVE  FALSE
      <3>1. Goes(G, Root, p, 0, Len(p) - 1, f[k - 1]) /\ p[Len(p)] = r[k]
        BY <2>2, <2>4 DEF Has
      <3>2. Len(p) - 1 = k - 1 /\ \A m \in 1 .. Len(p) - 1 : p[m] = r[m]
        BY <2>1, <2>3, <3>1, WayIs, GoesByOne
      <3>3. Len(p) = k
        BY <2>1, <3>2, WayIs
      <3>4. \A m \in 1 .. Len(p) : p[m] = r[m]
        BY <3>1, <3>2, <3>3, WayIs
      <3> QED BY <2>1, <3>3, <3>4 DEF Starts
    <2>5. x \in Boughs(G \ {e})
      BY <2>4 DEF Boughs
    <2> QED BY <2>2, <2>5 DEF Bough
  <1>4. Route(G \ {e}, f, r, 0, n)
    BY <1>2, <1>3 DEF Route
  <1> QED BY <1>1, <1>4 DEF Goes

LEMMA NoWayThrough ==
  ASSUME NEW G, TreeLike(G), NEW p \in Way, NEW e, Has(G, p, e), NEW r, NEW n \in Nat, NEW d,
         Goes(G \ {e}, Root, r, 0, n, d), Starts(p, r, n)
  PROVE  FALSE
  <1> DEFINE m == Len(p)
  <1>1. m \in Nat /\ 0 < m /\ m - 1 \in Nat /\ m <= n /\ m \in 0 .. n /\ 0 \in Nat
    BY WayIs DEF Starts
  <1>2. \A k \in 1 .. m : p[k] = r[k]
    BY DEF Starts
  <1>3. PICK x : Goes(G \ {e}, Root, r, 0, m, x)
    BY <1>1, GoesSplit
  <1>4. PICK y \in Boughs(G \ {e}) : Goes(G \ {e}, Root, r, 0, m - 1, y.dir) /\ y.name = r[m]
    <2> DEFINE K == G \ {e}
    <2>1. Goes(K, Root, r, 0, m, x)
      BY <1>3
    <2> HIDE DEF m, K
    <2>2. m \in Nat /\ 0 < m
      BY <1>1
    <2>3. LastBough(K, Root, r, 0, m, x)
      BY ONLY <2>1, <2>2, GoesLastly
    <2> QED BY ONLY <2>3 DEF LastBough, K
  <1>5. Boughs(G \ {e}) \subseteq Boughs(G) /\ y \in G /\ y # e
    BY DEF Boughs
  <1>6. Goes(G, Root, r, 0, m - 1, y.dir)
    BY <1>4, <1>5, GoesWithin
  <1>7. y.name = e.name /\ e \in G /\ Goes(G, Root, p, 0, m - 1, e.dir)
    BY <1>1, <1>2, <1>4, WayIs DEF Has
  <1>8. \A k \in 1 .. m - 1 : p[k] = r[k]
    BY <1>2, WayIs
  <1> HIDE DEF m
  <1>9. y.dir = e.dir
    BY <1>1, <1>6, <1>7, <1>8, GoesOneWay
  <1> QED BY <1>5, <1>7, <1>9 DEF TreeLike

LEMMA Onwards ==
  ASSUME NEW G, TreeLike(G), NEW p \in Way, NEW e, Has(G, p, e), NEW r, NEW n \in Nat, NEW d,
         Goes(G, Root, r, 0, n, d), Starts(p, r, n)
  PROVE  e \in Boughs(G) /\ Goes(G \ {e}, e.first, r, Len(p), n, d)
  <1> DEFINE m == Len(p)
  <1>1. m \in Nat /\ 0 < m /\ m - 1 \in Nat /\ m <= n /\ m \in 0 .. n /\ 0 \in Nat
    BY WayIs DEF Starts
  <1>2. \A k \in 1 .. m : p[k] = r[k]
    BY DEF Starts
  <1>3. PICK x : Goes(G, Root, r, 0, m, x) /\ Goes(G, x, r, m, n, d)
    BY <1>1, GoesSplit
  <1>4. PICK y \in Boughs(G) : /\ Goes(G, Root, r, 0, m - 1, y.dir)
                               /\ y.name = r[m] /\ y.first = x
    <2> HIDE DEF m
    <2>1. Goes(G, Root, r, 0, m, x) /\ m \in Nat /\ 0 < m
      BY <1>1, <1>3
    <2>2. LastBough(G, Root, r, 0, m, x)
      BY ONLY <2>1, GoesLastly
    <2> QED BY ONLY <2>2 DEF LastBough
  <1>5. y.name = e.name /\ e \in G /\ y \in G /\ Goes(G, Root, p, 0, m - 1, e.dir)
    BY <1>1, <1>2, <1>4, WayIs DEF Has, Boughs
  <1>6. \A k \in 1 .. m - 1 : p[k] = r[k]
    BY <1>2, WayIs
  <1> HIDE DEF m
  <1>7. y.dir = e.dir
    BY <1>1, <1>4, <1>5, <1>6, GoesOneWay
  <1>8. y = e
    BY <1>5, <1>7 DEF TreeLike
  <1>9. PICK f : Route(G, f, r, m, n) /\ f[m] = x /\ f[n] = d
    BY <1>3 DEF Goes
  <1>10. f \in [m .. n -> Clusters] /\ \A k \in m + 1 .. n : Bough(G, f[k - 1], r[k], f[k])
    BY <1>9 DEF Route
  <1>11. ASSUME NEW k \in m + 1 .. n
         PROVE  Bough(G \ {e}, f[k - 1], r[k], f[k])
    <2>1. k \in Nat /\ k \in m .. n /\ m \in 0 .. k /\ k # m
      BY <1>1
    <2>2. PICK z \in Boughs(G) : z.dir = f[k - 1] /\ z.name = r[k] /\ z.first = f[k]
      BY <1>10 DEF Bough
    <2>3. Goes(G, x, r, m, k, f[k])
      BY <1>1, <1>9, <2>1, RouteParts
    <2>4. Goes(G, Root, r, 0, k, f[k])
      BY <1>1, <1>3, <2>1, <2>3, GoesJoin
    <2>5. z # e
      BY <1>1, <1>3, <1>4, <1>8, <2>1, <2>2, <2>4, GoesByOne
    <2>6. z \in Boughs(G \ {e})
      BY <2>5 DEF Boughs
    <2> QED BY <2>2, <2>6 DEF Bough
  <1>12. Route(G \ {e}, f, r, m, n)
    BY <1>10, <1>11 DEF Route
  <1>13. Goes(G \ {e}, e.first, r, m, n, d)
    BY <1>4, <1>8, <1>9, <1>12 DEF Goes
  <1> QED BY <1>4, <1>8, <1>13 DEF m

-----------------------------------------------------------------------------
(* The tree of names that a set of entries stands for.                     *)
Shows(e) == [kind |-> e.kind, size |-> e.size]
Nothing  == [kind |-> "absent", size |-> 0]
Pictures(t, G) ==
  /\ t = [p \in TreePaths |-> t[p]]
  /\ \A p \in TreePaths, e \in G : Has(G, p, e) => t[p] = Shows(e)
  /\ \A p \in TreePaths : (\A e \in G : ~Has(G, p, e)) => t[p] = Nothing

LEMMA PartOf ==
  ASSUME NEW s \in Seq(Names), NEW m \in Nat, 0 < m, NEW n \in Nat, n <= Len(s)
  PROVE  /\ SubSeq(s, m, n) \in Seq(Names)
         /\ m <= n + 1 => Len(SubSeq(s, m, n)) = n - m + 1
         /\ \A i \in 1 .. n - m + 1 : SubSeq(s, m, n)[i] = s[m + i - 1]
  <1>1. \A i \in m .. n : s[i] \in Names
    OBVIOUS
  <1>2. m \in Int /\ n \in Int
    OBVIOUS
  <1>3. /\ SubSeq(s, m, n) \in Seq(Names)
        /\ Len(SubSeq(s, m, n)) = IF m <= n THEN n - m + 1 ELSE 0
        /\ \A i \in 1 .. n - m + 1 : SubSeq(s, m, n)[i] = s[m + i - 1]
    BY ONLY <1>1, <1>2, SubSeqProperties
  <1> QED BY <1>3

LEMMA PrefixIs ==
  ASSUME NEW p \in Way, NEW r \in Way
  PROVE  Abstract!Below(p, r) <=> Starts(p, r, Len(r))
  <1>1. p \in Seq(Names) /\ r \in Seq(Names) /\ Len(p) \in Nat /\ Len(r) \in Nat
    BY WayIs
  <1>2. ASSUME Len(p) <= Len(r)
        PROVE  /\ SubSeq(p, 1, Len(p)) \in Seq(Names) /\ SubSeq(r, 1, Len(p)) \in Seq(Names)
               /\ Len(SubSeq(p, 1, Len(p))) = Len(p) /\ Len(SubSeq(r, 1, Len(p))) = Len(p)
               /\ \A k \in 1 .. Len(p) : SubSeq(p, 1, Len(p))[k] = p[k] /\ SubSeq(r, 1, Len(p))[k] = r[k]
    <2>1. 1 \in Nat /\ 0 < 1 /\ Len(p) <= Len(p) /\ 1 <= Len(p) + 1
      BY ONLY <1>1
    <2>2. /\ SubSeq(p, 1, Len(p)) \in Seq(Names) /\ Len(SubSeq(p, 1, Len(p))) = Len(p) - 1 + 1
          /\ \A k \in 1 .. Len(p) - 1 + 1 : SubSeq(p, 1, Len(p))[k] = p[1 + k - 1]
      BY ONLY <1>1, <2>1, PartOf
    <2>3. /\ SubSeq(r, 1, Len(p)) \in Seq(Names) /\ Len(SubSeq(r, 1, Len(p))) = Len(p) - 1 + 1
          /\ \A k \in 1 .. Len(p) - 1 + 1 : SubSeq(r, 1, Len(p))[k] = r[1 + k - 1]
      BY ONLY <1>1, <1>2, <2>1, PartOf
    <2>4. Len(p) - 1 + 1 = Len(p) /\ \A k \in 1 .. Len(p) : 1 + k - 1 = k
      BY ONLY <1>1
    <2> QED BY ONLY <2>2, <2>3, <2>4
  <1>3. ASSUME Abstract!Below(p, r)
        PROVE  Starts(p, r, Len(r))
    BY <1>2, <1>3 DEF Abstract!Below, Starts
  <1>4. ASSUME Starts(p, r, Len(r))
        PROVE  Abstract!Below(p, r)
    <2>1. Len(p) <= Len(r) /\ \A k \in 1 .. Len(p) : p[k] = r[k]
      BY <1>4 DEF Starts
    <2>2. SubSeq(p, 1, Len(p)) = SubSeq(r, 1, Len(p))
      BY ONLY <1>1, <1>2, <2>1
    <2>3. SubSeq(p, 1, Len(p)) = p
      BY ONLY <1>1
    <2> QED BY <2>1, <2>2, <2>3 DEF Abstract!Below
  <1> QED BY <1>3, <1>4

(* Path s goes on after p as path r does after q.                          *)
Alike(p, q, r, s) ==
  /\ Starts(p, s, Len(s)) /\ Starts(q, r, Len(r)) /\ Len(s) - Len(p) = Len(r) - Len(q)
  /\ \A k \in 1 .. Len(r) - Len(q) : s[Len(p) + k] = r[Len(q) + k]

LEMMA AlikeBack ==
  ASSUME NEW p, NEW q, NEW r, NEW s, Alike(p, q, r, s)
  PROVE  Alike(q, p, s, r)
  BY DEF Alike

LEMMA MovedIs ==
  ASSUME NEW p \in Way, NEW q \in Way, NEW r \in Way, Starts(q, r, Len(r)),
         NEW s, s = Abstract!Moved(p, q, r)
  PROVE  s \in Way /\ Alike(p, q, r, s)
  <1> DEFINE x == SubSeq(r, Len(q) + 1, Len(r))
  <1>1. p \in Seq(Names) /\ r \in Seq(Names) /\ Len(p) \in Nat /\ Len(r) \in Nat /\ Len(q) \in Nat
        /\ 0 < Len(p) /\ 0 < Len(q) /\ Len(q) <= Len(r)
    BY WayIs DEF Starts
  <1>2. x \in Seq(Names) /\ Len(x) = Len(r) - Len(q) /\ \A k \in 1 .. Len(x) : x[k] = r[Len(q) + k]
    <2> DEFINE m == Len(q) + 1
               n == Len(r)
    <2>1. m \in Nat /\ 0 < m /\ n \in Nat /\ n <= Len(r) /\ m <= n + 1
      BY ONLY <1>1
    <2> HIDE DEF m, n
    <2>2. /\ SubSeq(r, m, n) \in Seq(Names) /\ Len(SubSeq(r, m, n)) = n - m + 1
          /\ \A k \in 1 .. n - m + 1 : SubSeq(r, m, n)[k] = r[m + k - 1]
      BY ONLY <1>1, <2>1, PartOf
    <2> USE DEF m, n
    <2>3. n - m + 1 = Len(r) - Len(q) /\ \A k \in 1 .. n - m + 1 : m + k - 1 = Len(q) + k
      BY ONLY <1>1
    <2> QED BY ONLY <2>2, <2>3
  <1>3. s = p \o x
    BY DEF Abstract!Moved
  <1> HIDE DEF x
  <1>4. /\ s \in Seq(Names) /\ Len(s) = Len(p) + Len(x)
        /\ \A k \in 1 .. Len(p) + Len(x) : s[k] = IF k <= Len(p) THEN p[k] ELSE x[k - Len(p)]
    BY ONLY <1>1, <1>2, <1>3, ConcatProperties
  <1>5. \A k \in 1 .. Len(p) : s[k] = p[k]
    <2>1. Len(x) \in Nat /\ \A k \in 1 .. Len(p) : k \in 1 .. Len(p) + Len(x) /\ k <= Len(p)
      BY ONLY <1>1, <1>2
    <2> QED BY ONLY <1>4, <2>1
  <1>6. \A k \in 1 .. Len(x) : s[Len(p) + k] = x[k]
    <2>1. \A k \in 1 .. Len(x) : /\ Len(p) + k \in 1 .. Len(p) + Len(x) /\ ~(Len(p) + k <= Len(p))
                                /\ (Len(p) + k) - Len(p) = k
      BY ONLY <1>1, <1>2
    <2> QED BY ONLY <1>4, <2>1
  <1>7. s # <<>> /\ Len(p) <= Len(s) /\ Len(s) - Len(p) = Len(r) - Len(q)
    BY ONLY <1>1, <1>2, <1>4
  <1> QED BY <1>2, <1>4, <1>5, <1>6, <1>7 DEF Way, Starts, Alike

LEMMA ContainerWay ==
  ASSUME NEW q \in Way
  PROVE  \/ Len(q) = 1 /\ Container(q) = <<>>
         \/ /\ Container(q) \in Way /\ Len(Container(q)) = Len(q) - 1
            /\ \A k \in 1 .. Len(q) - 1 : Container(q)[k] = q[k]
  <1>1. /\ Container(q) \in Seq(Names) /\ Len(Container(q)) = Len(q) - 1
        /\ \A k \in 1 .. Len(q) - 1 : Container(q)[k] = q[k]
    BY ContainerIs DEF Way
  <1>2. Container(q) = <<>> \/ Container(q) \in Way
    BY <1>1 DEF Way
  <1>3. Container(q) = <<>> => Len(Container(q)) = 0
    OBVIOUS
  <1>4. Len(q) \in Nat
    BY WayIs
  <1>5. Container(q) = <<>> => Len(q) = 1
    BY ONLY <1>1, <1>3, <1>4
  <1> QED BY <1>1, <1>2, <1>5

IsDir(t, p) == p = <<>> \/ t[p].kind = "dir"

LEMMA GoesToDir ==
  ASSUME NEW G, TreeLike(G), NEW t, Pictures(t, G), NEW q \in Way, NEW d,
         Goes(G, Root, q, 0, Len(q) - 1, d)
  PROVE  IsDir(t, Container(q))
  <1>1. CASE Len(q) = 1 /\ Container(q) = <<>>
    BY <1>1 DEF IsDir
  <1>2. CASE /\ Container(q) \in Way /\ Len(Container(q)) = Len(q) - 1
             /\ \A k \in 1 .. Len(q) - 1 : Container(q)[k] = q[k]
    <2> DEFINE w == Container(q)
               n == Len(q) - 1
    <2>1. w \in Way /\ Len(w) = n /\ \A k \in 1 .. n : w[k] = q[k]
      BY <1>2
    <2>2. n \in Nat /\ 0 < n /\ n \in 1 .. n /\ n - 1 \in Nat /\ 0 \in Nat
      BY <2>1, WayIs
    <2>3. \A k \in 1 .. n - 1 : k \in 1 .. n
      BY <2>2
    <2>4. Goes(G, Root, q, 0, n, d)
      OBVIOUS
    <2> HIDE DEF w, n
    <2>5. PICK e \in Boughs(G) : Goes(G, Root, q, 0, n - 1, e.dir) /\ e.name = q[n]
      BY ONLY <2>2, <2>4, GoesLast
    <2>6. Goes(G, Root, w, 0, n - 1, e.dir)
      BY <2>1, <2>2, <2>3, <2>5, GoesAlike
    <2>7. e \in G /\ e.kind = "dir"
      BY DEF Boughs
    <2>8. Has(G, w, e)
      BY <2>1, <2>2, <2>5, <2>6, <2>7 DEF Has
    <2>9. w \in TreePaths
      BY <2>1, <2>8, HasShort
    <2>10. t[w] = Shows(e)
      BY <2>7, <2>8, <2>9 DEF Pictures
    <2>11. t[w].kind = "dir"
      BY <2>7, <2>10 DEF Shows
    <2> QED BY <2>11 DEF IsDir, w
  <1> QED BY <1>1, <1>2, ContainerWay

(* Away from the entry of p two trees name the same.                       *)
LEMMA HasAside ==
  ASSUME NEW G, TreeLike(G), NEW H, NEW p \in Way, NEW e, Has(G, p, e), G \ {e} \subseteq H,
         NEW r \in Way, NEW x, Has(G, r, x), ~Starts(p, r, Len(r))
  PROVE  Has(H, r, x) /\ x # e /\ x \in H
  <1>1. Goes(G, Root, r, 0, Len(r) - 1, x.dir) /\ x \in G /\ r[Len(r)] = x.name
    BY DEF Has
  <1>2. ~Starts(p, r, Len(r) - 1)
    BY WayIs DEF Starts
  <1>3. Goes(G \ {e}, Root, r, 0, Len(r) - 1, x.dir)
    BY <1>1, <1>2, WayIs, Detour
  <1>4. Boughs(G \ {e}) \subseteq Boughs(H)
    BY DEF Boughs
  <1>5. Goes(H, Root, r, 0, Len(r) - 1, x.dir)
    BY <1>3, <1>4, GoesWithin
  <1>6. x # e
    <2> SUFFICES ASSUME x = e
                 PROVE  FALSE
      OBVIOUS
    <2>1. p = r
      BY HasSame
    <2> QED BY <2>1, WayIs DEF Starts
  <1> QED BY <1>1, <1>5, <1>6 DEF Has

(* Nothing is named below an entry that no entry is in.                    *)
LEMMA HasNoneBelow ==
  ASSUME NEW G, TreeLike(G), NEW p \in Way, NEW e, Has(G, p, e),
         \A x \in G : e.kind = "dir" => x.dir # e.first,
         NEW r \in Way, NEW x, Has(G, r, x), Starts(p, r, Len(r))
  PROVE  r = p
  <1> SUFFICES ASSUME r # p
               PROVE  FALSE
    OBVIOUS
  <1>1. Goes(G, Root, r, 0, Len(r) - 1, x.dir) /\ x \in G /\ e \in G
    BY DEF Has
  <1>2. Len(p) # Len(r)
    <2> SUFFICES ASSUME Len(p) = Len(r)
                 PROVE  FALSE
      OBVIOUS
    <2>1. p \in Seq(Names) /\ r \in Seq(Names)
      BY WayIs
    <2>2. \A k \in 1 .. Len(p) : p[k] = r[k]
      BY DEF Starts
    <2>3. p = r
      BY ONLY <2>1, <2>2, Len(p) = Len(r)
    <2> QED BY <2>3
  <1>3. Starts(p, r, Len(r) - 1)
    BY <1>2, WayIs DEF Starts
  <1>4. e \in Boughs(G) /\ Goes(G \ {e}, e.first, r, Len(p), Len(r) - 1, x.dir)
    BY <1>1, <1>3, WayIs, Onwards
  <1>5. e.kind = "dir"
    BY <1>4 DEF Boughs
  <1>6. PICK f : Route(G \ {e}, f, r, Len(p), Len(r) - 1) /\ f[Len(p)] = e.first /\ f[Len(r) - 1] = x.dir
    BY <1>4 DEF Goes
  <1>7. CASE Len(p) = Len(r) - 1
    BY <1>1, <1>5, <1>6, <1>7
  <1>8. CASE Len(p) # Len(r) - 1
    <2>1. Len(p) + 1 \in Len(p) + 1 .. Len(r) - 1 /\ (Len(p) + 1) - 1 = Len(p)
      BY <1>3, <1>8, WayIs DEF Starts
    <2>2. Bough(G \ {e}, f[Len(p)], r[Len(p) + 1], f[Len(p) + 1])
      BY <1>6, <2>1 DEF Route
    <2>3. PICK y \in Boughs(G \ {e}) : y.dir = e.first
      BY <1>6, <2>2 DEF Bough
    <2> QED BY <1>5, <2>3 DEF Boughs
  <1> QED BY <1>7, <1>8

-----------------------------------------------------------------------------
(* The ways in which the entries change, and what becomes of the tree.     *)
(* A route that comes to a name not yet there.                             *)
Comes(G, q, d, a) == q[Len(q)] = a /\ Goes(G, Root, q, 0, Len(q) - 1, d)

EnterAt(G, H, p, kind) ==
  \E e \in H : /\ e \notin G /\ H = G \cup {e} /\ e.size = 0 /\ e.kind = kind /\ Comes(G, p, e.dir, e.name)
               /\ \A x \in H : e.kind = "dir" => x.dir # e.first
LeaveAt(G, H, p) ==
  \E e \in G : H = G \ {e} /\ Has(G, p, e) /\ \A x \in G : e.kind = "dir" => x.dir # e.first
GrowAt(G, H, p, end) ==
  \E e \in G, f \in H : /\ H = (G \ {e}) \cup {f} /\ e.kind = "file" /\ f.kind = "file" /\ Has(G, p, e)
                        /\ f.dir = e.dir /\ f.name = e.name
                        /\ f.size = IF end > e.size THEN end ELSE e.size
ShiftAt(G, H, p, q) ==
  \E e \in G, f \in H : /\ H = (G \ {e}) \cup {f} /\ f \notin G /\ e \notin H
                        /\ Has(G, p, e) /\ Comes(G, q, f.dir, f.name)
                        /\ f.kind = e.kind /\ f.first = e.first /\ f.size = e.size

CreateIn(t, u, p, kind) ==
  /\ p \in TreePaths /\ t[p] = Nothing /\ IsDir(t, Container(p))
  /\ u = [t EXCEPT ![p] = [kind |-> kind, size |-> 0]]
RemoveIn(t, u, p) ==
  /\ p \in TreePaths /\ t[p] # Nothing /\ u = [t EXCEPT ![p] = Nothing]
  /\ \A r \in TreePaths : Abstract!Below(p, r) /\ r # p => t[r] = Nothing
WriteIn(t, u, p, end) ==
  /\ p \in TreePaths /\ t[p].kind = "file" /\ end <= Word - 1
  /\ u = [t EXCEPT ![p] = [kind |-> "file", size |-> IF end > t[p].size THEN end ELSE t[p].size]]
RenameIn(t, u, p, q) ==
  /\ p \in TreePaths /\ q \in TreePaths
  /\ t[p] # Nothing /\ t[q] = Nothing /\ IsDir(t, Container(q)) /\ ~Abstract!Below(p, q)
  /\ u = [r \in TreePaths |->
            IF Abstract!Below(q, r)
            THEN IF Abstract!Moved(p, q, r) \in TreePaths THEN t[Abstract!Moved(p, q, r)] ELSE Nothing
            ELSE IF Abstract!Below(p, r) THEN Nothing ELSE t[r]]

LEMMA PicturesSame ==
  ASSUME NEW G, NEW t, NEW u, Pictures(t, G), Pictures(u, G)
  PROVE  u = t
  <1>1. ASSUME NEW p \in TreePaths
        PROVE  t[p] = u[p]
    BY DEF Pictures
  <1> QED BY <1>1 DEF Pictures

LEMMA ShowsSomething ==
  ASSUME NEW G, TreeLike(G), NEW e \in G
  PROVE  Shows(e) # Nothing /\ e.size \in Size
  <1>1. e.kind \in Live
    BY TwigIs
  <1> QED BY <1>1 DEF Shows, Nothing, Live, TreeLike, Twig

(* One entry apart, and nothing in it: the trees differ at its path only.  *)
LEMMA OneApart ==
  ASSUME NEW G, NEW H, TreeLike(G), TreeLike(H), NEW e \in H, e \notin G, G = H \ {e},
         \A x \in H : e.kind = "dir" => x.dir # e.first, NEW p \in Way, Has(H, p, e),
         NEW t, NEW u, Pictures(t, G), Pictures(u, H)
  PROVE  /\ p \in TreePaths /\ t[p] = Nothing /\ u[p] = Shows(e)
         /\ \A r \in TreePaths : r # p => u[r] = t[r]
         /\ \A r \in TreePaths : Abstract!Below(p, r) /\ r # p => u[r] = Nothing
         /\ IsDir(t, Container(p))
  <1>1. p \in TreePaths /\ p \in Way /\ Has(H, p, e)
    BY HasShort
  <1>2. u[p] = Shows(e)
    BY <1>1 DEF Pictures
  <1>3. Boughs(G) \subseteq Boughs(H) /\ G \subseteq H
    BY DEF Boughs
  <1>4. ASSUME NEW r, NEW x, Has(G, r, x)
        PROVE  Has(H, r, x)
    BY <1>3, <1>4, GoesWithin DEF Has
  <1>5. t[p] = Nothing
    <2>1. ASSUME NEW x \in G, Has(G, p, x)
          PROVE  FALSE
      <3>1. x = e
        BY <1>1, <1>4, <2>1, HasOne
      <3> QED BY <3>1
    <2> QED BY ONLY Pictures(t, G), <1>1, <2>1 DEF Pictures
  <1>6. ASSUME NEW r \in TreePaths, r # p, NEW x, Has(H, r, x)
        PROVE  ~Starts(p, r, Len(r)) /\ Has(G, r, x) /\ x \in G
    <2>1. r \in Way
      BY TreePathIs
    <2>2. ~Starts(p, r, Len(r))
      BY <1>1, <1>6, <2>1, HasNoneBelow
    <2>3. H \ {e} \subseteq G
      OBVIOUS
    <2> QED BY <1>1, <1>6, <2>1, <2>2, <2>3, HasAside
  <1>7. ASSUME NEW r \in TreePaths, r # p
        PROVE  u[r] = t[r]
    <2>1. CASE \E x \in H : Has(H, r, x)
      <3>1. PICK x \in H : Has(H, r, x)
        BY <2>1
      <3>2. Has(G, r, x) /\ x \in G
        BY <1>6, <1>7, <3>1
      <3>3. u[r] = Shows(x)
        BY <3>1 DEF Pictures
      <3>4. t[r] = Shows(x)
        BY <3>2 DEF Pictures
      <3> QED BY <3>3, <3>4
    <2>2. CASE ~\E x \in H : Has(H, r, x)
      <3>1. \A x \in G : ~Has(G, r, x)
        BY <1>3, <1>4, <2>2
      <3> QED BY <2>2, <3>1 DEF Pictures
    <2> QED BY <2>1, <2>2
  <1>8. ASSUME NEW r \in TreePaths, Abstract!Below(p, r), r # p
        PROVE  u[r] = Nothing
    <2>1. r \in Way
      BY TreePathIs
    <2>2. Starts(p, r, Len(r))
      BY <1>1, <1>8, <2>1, PrefixIs
    <2>3. \A x \in H : ~Has(H, r, x)
      BY <1>6, <1>8, <2>2
    <2> QED BY <2>3 DEF Pictures
  <1>9. IsDir(t, Container(p))
    <2>1. Goes(H, Root, p, 0, Len(p) - 1, e.dir)
      BY <1>1 DEF Has
    <2>2. ~Starts(p, p, Len(p) - 1)
      BY <1>1, WayIs DEF Starts
    <2>3. Goes(H \ {e}, Root, p, 0, Len(p) - 1, e.dir)
      BY <1>1, <2>1, <2>2, WayIs, Detour
    <2> QED BY <1>1, <2>3, GoesToDir
  <1> QED BY <1>1, <1>2, <1>5, <1>7, <1>8, <1>9

LEMMA EnterChanges ==
  ASSUME NEW G, NEW H, TreeLike(G), TreeLike(H), NEW p \in Way, NEW kind, EnterAt(G, H, p, kind),
         NEW t, NEW u, Pictures(t, G), Pictures(u, H)
  PROVE  CreateIn(t, u, p, kind)
  <1>1. PICK e \in H : /\ e \notin G /\ H = G \cup {e} /\ e.size = 0 /\ e.kind = kind /\ Comes(G, p, e.dir, e.name)
                       /\ \A x \in H : e.kind = "dir" => x.dir # e.first
    BY DEF EnterAt
  <1>2. G = H \ {e} /\ Has(H, p, e)
    <2>1. Boughs(G) \subseteq Boughs(H)
      BY <1>1 DEF Boughs
    <2>2. Goes(H, Root, p, 0, Len(p) - 1, e.dir)
      BY <1>1, <2>1, GoesWithin DEF Comes
    <2> QED BY <1>1, <2>2 DEF Has, Comes
  <1>3. /\ p \in TreePaths /\ t[p] = Nothing /\ u[p] = Shows(e) /\ IsDir(t, Container(p))
        /\ \A r \in TreePaths : r # p => u[r] = t[r]
    BY <1>1, <1>2, OneApart
  <1>4. Shows(e) = [kind |-> kind, size |-> 0]
    BY <1>1 DEF Shows
  <1>5. u = [t EXCEPT ![p] = [kind |-> kind, size |-> 0]]
    BY <1>3, <1>4 DEF Pictures
  <1> QED BY <1>3, <1>5 DEF CreateIn

LEMMA LeaveChanges ==
  ASSUME NEW G, NEW H, TreeLike(G), TreeLike(H), NEW p \in Way, LeaveAt(G, H, p),
         NEW t, NEW u, Pictures(t, G), Pictures(u, H)
  PROVE  RemoveIn(t, u, p)
  <1>1. PICK e \in G : H = G \ {e} /\ Has(G, p, e) /\ \A x \in G : e.kind = "dir" => x.dir # e.first
    BY DEF LeaveAt
  <1>2. e \notin H
    BY <1>1
  <1>3. /\ p \in TreePaths /\ u[p] = Nothing /\ t[p] = Shows(e)
        /\ \A r \in TreePaths : r # p => t[r] = u[r]
        /\ \A r \in TreePaths : Abstract!Below(p, r) /\ r # p => t[r] = Nothing
    BY <1>1, <1>2, OneApart
  <1>4. t[p] # Nothing
    BY <1>3, ShowsSomething
  <1>5. u = [t EXCEPT ![p] = Nothing]
    BY <1>3 DEF Pictures
  <1> QED BY <1>3, <1>4, <1>5 DEF RemoveIn

LEMMA GrowChanges ==
  ASSUME NEW G, NEW H, TreeLike(G), TreeLike(H), NEW p \in Way, NEW end \in Nat, GrowAt(G, H, p, end),
         NEW t, NEW u, Pictures(t, G), Pictures(u, H)
  PROVE  WriteIn(t, u, p, end)
  <1>1. PICK e \in G, f \in H : /\ H = (G \ {e}) \cup {f} /\ e.kind = "file" /\ f.kind = "file" /\ Has(G, p, e)
                                /\ f.dir = e.dir /\ f.name = e.name
                                /\ f.size = IF end > e.size THEN end ELSE e.size
    BY DEF GrowAt
  <1>2. Boughs(G) = Boughs(H)
    <2>1. e \notin Boughs(G) /\ f \notin Boughs(H)
      BY <1>1 DEF Boughs
    <2> QED BY <1>1, <2>1 DEF Boughs
  <1>3. \A c, r, i, j, d : Goes(G, c, r, i, j, d) <=> Goes(H, c, r, i, j, d)
    BY <1>2, GoesWithin
  <1>4. p \in TreePaths /\ p \in Way /\ Has(G, p, e)
    BY <1>1, HasShort
  <1>5. Has(H, p, f)
    BY <1>1, <1>3, <1>4 DEF Has
  <1>6. t[p] = Shows(e) /\ u[p] = Shows(f)
    BY <1>4, <1>5 DEF Pictures
  <1>7. ASSUME NEW r \in TreePaths, r # p
        PROVE  u[r] = t[r]
    <2>1. r \in Way
      BY TreePathIs
    <2>2. ASSUME NEW x, Has(G, r, x)
          PROVE  Has(H, r, x) /\ x \in G /\ x \in H
      <3>1. x # e
        BY <1>4, <1>7, <2>1, <2>2, HasSame
      <3> QED BY <1>1, <1>3, <2>2, <3>1 DEF Has
    <2>3. ASSUME NEW x, Has(H, r, x)
          PROVE  Has(G, r, x)
      <3>1. x # f
        BY <1>4, <1>5, <1>7, <2>1, <2>3, HasSame
      <3> QED BY <1>1, <1>3, <2>3, <3>1 DEF Has
    <2>4. CASE \E x \in G : Has(G, r, x)
      <3>1. PICK x \in G : Has(G, r, x)
        BY <2>4
      <3>2. Has(H, r, x) /\ x \in H
        BY <2>2, <3>1
      <3> QED BY <3>1, <3>2 DEF Pictures
    <2>5. CASE ~\E x \in G : Has(G, r, x)
      <3>1. \A x \in H : ~Has(H, r, x)
        BY <2>3, <2>5 DEF Has
      <3> QED BY <2>5, <3>1 DEF Pictures
    <2> QED BY <2>4, <2>5
  <1>8. Shows(f) = [kind |-> "file", size |-> f.size]
    BY <1>1 DEF Shows
  <1>9. t[p].kind = "file" /\ t[p].size = e.size
    BY <1>1, <1>6 DEF Shows
  <1>10. u = [t EXCEPT ![p] = [kind |-> "file", size |-> f.size]]
    BY <1>6, <1>7, <1>8 DEF Pictures
  <1>11. end <= Word - 1
    <2>1. e.size \in Size /\ f.size \in Size
      BY ShowsSomething
    <2> QED BY <1>1, <2>1 DEF Size
  <1> QED BY <1>1, <1>4, <1>9, <1>10, <1>11 DEF WriteIn

(* A route below the entry that moves, at the old and at the new path.     *)
LEMMA MovedHas ==
  ASSUME NEW G, NEW H, TreeLike(G), TreeLike(H), NEW p \in Way, NEW q \in Way, NEW e, NEW f,
         Has(G, p, e), Has(H, q, f), G \ {e} \subseteq H, f.kind = e.kind, f.first = e.first,
         f.size = e.size, NEW r \in Way, NEW s \in Way,
         Alike(p, q, r, s), NEW x, Has(G, s, x)
  PROVE  \E y \in H : Has(H, r, y) /\ Shows(y) = Shows(x)
  <1>4. /\ Starts(p, s, Len(s)) /\ Starts(q, r, Len(r)) /\ Len(s) - Len(p) = Len(r) - Len(q)
        /\ \A k \in 1 .. Len(r) - Len(q) : s[Len(p) + k] = r[Len(q) + k]
    BY DEF Alike
  <1>1. e \in G /\ f \in H /\ x \in G
    BY DEF Has
  <1>2. CASE Len(s) = Len(p)
    <2>1. /\ p \in Seq(Names) /\ q \in Seq(Names) /\ r \in Seq(Names) /\ s \in Seq(Names)
          /\ Len(p) \in Nat /\ Len(q) \in Nat /\ Len(r) \in Nat /\ Len(r) = Len(q)
      BY <1>2, <1>4, WayIs
    <2>2. (\A k \in 1 .. Len(p) : p[k] = s[k]) /\ (\A k \in 1 .. Len(q) : q[k] = r[k])
      BY <1>4 DEF Starts
    <2>3. s = p
      BY ONLY <1>2, <2>1, <2>2
    <2>4. r = q
      BY ONLY <2>1, <2>2
    <2>5. x = e
      BY <2>3, HasOne
    <2> QED BY <1>1, <2>4, <2>5 DEF Shows
  <1>3. CASE Len(s) # Len(p)
    <2> DEFINE i == Len(p)
               j == Len(s) - 1
               m == Len(q)
               n == Len(r) - 1
    <2>1. /\ i \in Nat /\ j \in Nat /\ m \in Nat /\ n \in Nat /\ i <= j /\ m <= n /\ j - i = n - m
          /\ j + 1 = Len(s) /\ n + 1 = Len(r) /\ 0 < m /\ 0 \in Nat /\ m - 1 \in Nat /\ m \in 0 .. n
      BY <1>3, <1>4, WayIs DEF Starts
    <2>2. \A k \in 1 .. j - i : s[i + k] = r[m + k]
      <3>1. \A k \in 1 .. j - i : k \in 1 .. Len(r) - Len(q)
        BY <2>1
      <3> QED BY <1>4, <3>1
    <2>3. s[Len(s)] = r[Len(r)]
      <3>1. /\ Len(r) - Len(q) \in 1 .. Len(r) - Len(q)
            /\ Len(p) + (Len(r) - Len(q)) = Len(s) /\ Len(q) + (Len(r) - Len(q)) = Len(r)
        BY <1>4, <2>1
      <3> QED BY <1>4, <3>1
    <2>4. Starts(p, s, j)
      BY <1>4, <2>1 DEF Starts
    <2>5. Goes(G, Root, s, 0, j, x.dir) /\ s[Len(s)] = x.name
      BY DEF Has
    <2>6. e \in Boughs(G) /\ Goes(G \ {e}, e.first, s, i, j, x.dir)
      BY <2>1, <2>4, <2>5, Onwards
    <2>7. Boughs(G \ {e}) \subseteq Boughs(H)
      BY DEF Boughs
    <2>8. Goes(H, f.first, r, m, n, x.dir)
      <3>1. Goes(H, e.first, s, i, j, x.dir)
        BY <2>6, <2>7, GoesWithin
      <3> HIDE DEF i, j, m, n
      <3> QED BY <2>1, <2>2, <3>1, GoesShifted
    <2>9. Goes(H, Root, r, 0, m, f.first)
      <3>1. \A k \in 1 .. m - 1 : q[k] = r[k]
        BY <1>4, WayIs DEF Starts
      <3>2. Goes(H, Root, q, 0, m - 1, f.dir) /\ q[m] = f.name
        BY DEF Has
      <3>3. q[m] = r[m]
        BY <1>4, WayIs DEF Starts
      <3>4. f \in Boughs(H)
        BY <1>1, <2>6 DEF Boughs
      <3>5. f.dir \in Clusters /\ f.first \in Clusters
        BY <1>1, <3>4, TwigIs
      <3> HIDE DEF i, j, m, n
      <3>6. Goes(H, Root, r, 0, m - 1, f.dir)
        BY <2>1, <3>1, <3>2, GoesAlike
      <3> QED BY <2>1, <3>2, <3>3, <3>4, <3>5, <3>6, GoesMore
    <2>10. Goes(H, Root, r, 0, n, x.dir)
      <3> HIDE DEF i, j, m, n
      <3> QED BY <2>1, <2>8, <2>9, GoesJoin
    <2>11. x # e
      <3> SUFFICES ASSUME x = e
                   PROVE  FALSE
        OBVIOUS
      <3>1. s = p
        BY HasSame
      <3> QED BY <1>3, <3>1
    <2>12. x \in H /\ Has(H, r, x)
      BY <1>1, <2>3, <2>5, <2>10, <2>11 DEF Has
    <2> QED BY <2>12
  <1> QED BY <1>2, <1>3

LEMMA ShiftChanges ==
  ASSUME NEW G, NEW H, TreeLike(G), TreeLike(H), NEW p \in Way, NEW q \in Way, ShiftAt(G, H, p, q),
         NEW t, NEW u, Pictures(t, G), Pictures(u, H)
  PROVE  RenameIn(t, u, p, q)
  <1>1. PICK e \in G, f \in H : /\ H = (G \ {e}) \cup {f} /\ f \notin G /\ e \notin H
                                /\ Has(G, p, e) /\ Comes(G, q, f.dir, f.name)
                                /\ f.kind = e.kind /\ f.first = e.first /\ f.size = e.size
    BY DEF ShiftAt
  <1>2. p \in TreePaths /\ p \in Way /\ Has(G, p, e)
    BY <1>1, HasShort
  <1>3. q \in TreePaths /\ q \in Way /\ Has(H, q, f)
    <2>1. PICK r \in TreePaths : r \in Way /\ Has(H, r, f)
      BY HasPlace
    <2>2. ~Starts(r, r, Len(r) - 1) /\ Boughs(H \ {f}) \subseteq Boughs(G)
      BY <1>1, <2>1, WayIs DEF Starts, Boughs
    <2>3. Goes(H \ {f}, Root, r, 0, Len(r) - 1, f.dir) /\ r[Len(r)] = f.name
      BY <2>1, <2>2, WayIs, Detour DEF Has
    <2>4. Goes(G, Root, r, 0, Len(r) - 1, f.dir)
      BY <2>2, <2>3, GoesWithin
    <2>5. Len(r) - 1 = Len(q) - 1 /\ \A k \in 1 .. Len(r) - 1 : r[k] = q[k]
      BY <1>1, <2>1, <2>4, WayIs, GoesByOne DEF Comes
    <2>6. q = r
      <3>1. /\ q \in Seq(Names) /\ r \in Seq(Names) /\ Len(q) \in Nat /\ Len(r) \in Nat
            /\ \A k \in 1 .. Len(r) : k = Len(r) \/ k \in 1 .. Len(r) - 1
        BY <2>1, WayIs
      <3>2. Len(q) = Len(r) /\ q[Len(q)] = r[Len(r)]
        BY <1>1, <2>3, <2>5, <3>1 DEF Comes
      <3>3. \A k \in 1 .. Len(r) : q[k] = r[k]
        BY <2>5, <3>1, <3>2
      <3> QED BY ONLY <3>1, <3>2, <3>3
    <2> QED BY <2>1, <2>6
  <1>4. G \ {e} \subseteq H /\ H \ {f} \subseteq G \ {e} /\ H \ {f} \subseteq G /\ e # f
    BY <1>1
  <1>5. t[p] = Shows(e) /\ t[p] # Nothing
    BY <1>2, ShowsSomething DEF Pictures
  <1>6. Goes(H \ {f}, Root, q, 0, Len(q) - 1, f.dir) /\ q[Len(q)] = f.name
    <2>1. ~Starts(q, q, Len(q) - 1)
      BY <1>3, WayIs DEF Starts
    <2> QED BY <1>3, <2>1, WayIs, Detour DEF Has
  <1>7. Goes(G \ {e}, Root, q, 0, Len(q) - 1, f.dir) /\ Goes(G, Root, q, 0, Len(q) - 1, f.dir)
    <2>1. Boughs(H \ {f}) \subseteq Boughs(G \ {e}) /\ Boughs(G \ {e}) \subseteq Boughs(G)
      BY <1>4 DEF Boughs
    <2> QED BY <1>6, <2>1, GoesWithin
  <1>8. IsDir(t, Container(q))
    BY <1>3, <1>7, GoesToDir
  <1>9. ASSUME NEW r \in Way, NEW n \in Nat, NEW d, Goes(H \ {f}, Root, r, 0, n, d)
        PROVE  ~Starts(p, r, n)
    <2>1. Boughs(H \ {f}) \subseteq Boughs(G \ {e})
      BY <1>4 DEF Boughs
    <2>2. Goes(G \ {e}, Root, r, 0, n, d)
      BY <1>9, <2>1, GoesWithin
    <2> QED BY <1>2, <2>2, NoWayThrough
  <1>10. p # q
    <2> SUFFICES ASSUME p = q
                 PROVE  FALSE
      OBVIOUS
    <2>1. e.dir = f.dir /\ e.name = f.name
      BY <1>2, <1>6, <1>7, WayIs, GoesOneWay DEF Has
    <2>2. e.kind = "file"
      <3> SUFFICES ASSUME e.kind # "file"
                   PROVE  FALSE
        OBVIOUS
      <3>1. e \in Twig /\ f \in Twig
        BY TwigIs
      <3> QED BY <1>1, <2>1, <3>1 DEF Twig
    <2>3. e \in Twig /\ f \in Twig
      BY TwigIs
    <2> QED BY <1>1, <2>1, <2>3 DEF Twig
  <1>11. ~Starts(p, q, Len(q))
    <2> SUFFICES ASSUME Starts(p, q, Len(q))
                 PROVE  FALSE
      OBVIOUS
    <2>1. Len(p) # Len(q)
      <3>1. p \in Seq(Names) /\ q \in Seq(Names) /\ \A k \in 1 .. Len(p) : p[k] = q[k]
        BY <1>2, <1>3, WayIs DEF Starts
      <3> QED BY ONLY <1>10, <3>1
    <2>2. Starts(p, q, Len(q) - 1)
      BY <1>2, <1>3, <2>1, WayIs DEF Starts
    <2> QED BY <1>3, <1>6, <1>9, <2>2, WayIs
  <1>12. ~Abstract!Below(p, q)
    BY <1>2, <1>3, <1>11, PrefixIs
  <1>13. t[q] = Nothing
    <2>1. ASSUME NEW x \in G, Has(G, q, x)
          PROVE  FALSE
      <3>1. Has(H, q, x)
        BY <1>2, <1>3, <1>4, <1>11, <2>1, HasAside
      <3>2. x = f
        BY <1>3, <3>1, HasOne
      <3> QED BY <1>1, <3>2
    <2>2. q \in TreePaths
      BY <1>3, HasShort
    <2> QED BY ONLY Pictures(t, G), <2>1, <2>2 DEF Pictures
  <1>14. ASSUME NEW r \in TreePaths, Abstract!Below(q, r), NEW s, s = Abstract!Moved(p, q, r)
         PROVE  u[r] = IF s \in TreePaths THEN t[s] ELSE Nothing
    <2>1. r \in Way
      BY TreePathIs
    <2>2. Starts(q, r, Len(r))
      BY <1>3, <1>14, <2>1, PrefixIs
    <2>3. s \in Way /\ Alike(p, q, r, s) /\ Alike(q, p, s, r)
      <3>1. p \in Way /\ q \in Way /\ s = Abstract!Moved(p, q, r)
        BY <1>2, <1>3, <1>14
      <3> QED BY ONLY <2>1, <2>2, <3>1, MovedIs, AlikeBack
    <2>4. CASE \E x \in G : Has(G, s, x)
      <3>1. PICK x \in G : Has(G, s, x)
        BY <2>4
      <3>2. PICK y \in H : Has(H, r, y) /\ Shows(y) = Shows(x)
        <4>1. /\ p \in Way /\ q \in Way /\ Has(G, p, e) /\ Has(H, q, f) /\ G \ {e} \subseteq H
              /\ f.kind = e.kind /\ f.first = e.first /\ f.size = e.size
              /\ TreeLike(G) /\ TreeLike(H) /\ Has(G, s, x)
          BY <1>1, <1>2, <1>3, <1>4, <3>1
        <4> QED BY ONLY <2>1, <2>3, <4>1, MovedHas
      <3>3. s \in TreePaths
        BY <2>3, <3>1, HasShort
      <3>4. t[s] = Shows(x)
        BY <3>1, <3>3 DEF Pictures
      <3>5. u[r] = Shows(y)
        BY <3>2 DEF Pictures
      <3> QED BY <3>2, <3>3, <3>4, <3>5
    <2>5. CASE ~\E x \in G : Has(G, s, x)
      <3>1. ASSUME NEW y \in H, Has(H, r, y)
            PROVE  FALSE
        <4>1. /\ p \in Way /\ q \in Way /\ Has(G, p, e) /\ Has(H, q, f) /\ H \ {f} \subseteq G
              /\ e.kind = f.kind /\ e.first = f.first /\ e.size = f.size
              /\ TreeLike(G) /\ TreeLike(H) /\ Has(H, r, y)
          BY <1>1, <1>2, <1>3, <1>4, <3>1
        <4>2. PICK x \in G : Has(G, s, x)
          BY ONLY <2>1, <2>3, <4>1, MovedHas
        <4> QED BY <2>5, <4>2
      <3>2. u[r] = Nothing
        BY <3>1 DEF Pictures
      <3>3. s \in TreePaths => t[s] = Nothing
        BY <2>5 DEF Pictures
      <3> QED BY <3>2, <3>3
    <2> QED BY <2>4, <2>5
  <1>15. ASSUME NEW r \in TreePaths, ~Abstract!Below(q, r), NEW x, Has(H, r, x)
         PROVE  /\ x \in G /\ ~Starts(p, r, Len(r)) /\ Has(G, r, x)
    <2>1. r \in Way
      BY TreePathIs
    <2>2. ~Starts(q, r, Len(r))
      BY <1>3, <1>15, <2>1, PrefixIs
    <2>3. Has(G, r, x) /\ x # f /\ x \in G
      BY <1>3, <1>4, <1>15, <2>1, <2>2, HasAside
    <2>4. Has(H \ {f}, r, x)
      BY <1>3, <1>15, <2>1, <2>2, HasAside
    <2>5. ~Starts(p, r, Len(r) - 1)
      BY <1>9, <2>1, <2>4, WayIs DEF Has
    <2>6. ~Starts(p, r, Len(r))
      <3> SUFFICES ASSUME Starts(p, r, Len(r))
                   PROVE  FALSE
        OBVIOUS
      <3>1. Len(p) = Len(r)
        BY <1>2, <2>1, <2>5, WayIs DEF Starts
      <3>2. p \in Seq(Names) /\ r \in Seq(Names) /\ \A k \in 1 .. Len(p) : p[k] = r[k]
        BY <1>2, <2>1, WayIs DEF Starts
      <3>3. p = r
        BY ONLY <3>1, <3>2
      <3>4. x = e
        BY <1>2, <2>3, <3>3, HasOne
      <3> QED BY <1>1, <1>15, <3>4 DEF Has
    <2> QED BY <2>3, <2>6
  <1>16. ASSUME NEW r \in TreePaths, ~Abstract!Below(q, r), Abstract!Below(p, r)
         PROVE  u[r] = Nothing
    <2>1. Starts(p, r, Len(r))
      BY <1>2, <1>16, TreePathIs, PrefixIs
    <2>2. \A x \in H : ~Has(H, r, x)
      BY <1>15, <1>16, <2>1
    <2> QED BY <2>2 DEF Pictures
  <1>17. ASSUME NEW r \in TreePaths, ~Abstract!Below(q, r), ~Abstract!Below(p, r)
         PROVE  u[r] = t[r]
    <2>1. r \in Way /\ ~Starts(p, r, Len(r))
      BY <1>2, <1>17, TreePathIs, PrefixIs
    <2>2. CASE \E x \in H : Has(H, r, x)
      <3>1. PICK x \in H : Has(H, r, x)
        BY <2>2
      <3>2. Has(G, r, x) /\ x \in G
        BY <1>15, <1>17, <3>1
      <3>3. u[r] = Shows(x)
        BY <3>1 DEF Pictures
      <3>4. t[r] = Shows(x)
        BY <3>2 DEF Pictures
      <3> QED BY <3>3, <3>4
    <2>3. CASE ~\E x \in H : Has(H, r, x)
      <3>1. ASSUME NEW x \in G, Has(G, r, x)
            PROVE  FALSE
        <4>1. Has(H, r, x) /\ x \in H
          BY <1>2, <1>4, <2>1, <3>1, HasAside
        <4> QED BY <2>3, <4>1
      <3>2. t[r] = Nothing
        BY <3>1 DEF Pictures
      <3>3. u[r] = Nothing
        BY <2>3 DEF Pictures
      <3> QED BY <3>2, <3>3
    <2> QED BY <2>2, <2>3
  <1> DEFINE m(r) == IF Abstract!Below(q, r)
                     THEN IF Abstract!Moved(p, q, r) \in TreePaths THEN t[Abstract!Moved(p, q, r)] ELSE Nothing
                     ELSE IF Abstract!Below(p, r) THEN Nothing ELSE t[r]
  <1>18. ASSUME NEW r \in TreePaths
         PROVE  u[r] = m(r)
    BY <1>14, <1>16, <1>17
  <1>19. u = [r \in TreePaths |-> m(r)]
    <2>1. u = [r \in TreePaths |-> u[r]]
      BY DEF Pictures
    <2> HIDE DEF m
    <2> QED BY <1>18, <2>1
  <1> QED BY <1>2, <1>3, <1>5, <1>8, <1>12, <1>13, <1>19 DEF RenameIn

USE CallerAssumption DEF Operations, Steps, Kinds, Appending

-----------------------------------------------------------------------------
(* The entries as the tree has them: while a rename has written the new    *)
(* entry and not yet deleted the old one, the new one is left out.         *)
Unseen(o) == IF o.kind = "rename" /\ o.step \in {"dots", "unlink", "undo"} THEN {o.slot} ELSE {}
Seen == LiveEntries \ Unseen(op)
TwigOf(l, d) == [dir |-> d, name |-> EntryAt(l).name, kind |-> EntryAt(l).kind,
                 first |-> FirstOf(l), size |-> EntryAt(l).size]
TwigsAt(L) == UNION {{TwigOf(l, d) : d \in {h \in DirectoryHeads : Within(l, h)}} : l \in L}
Twigs == TwigsAt(Seen)

LEMMA TwigsAre ==
  /\ \A t : t \in Twigs <=> \E l \in Seen : \E d \in DirectoryHeads : Within(l, d) /\ t = TwigOf(l, d)
  /\ \A t : t \in Twigs' <=> \E l \in Seen' : \E d \in DirectoryHeads' : Within(l, d)' /\ t = TwigOf(l, d)'
  <1>1. ASSUME NEW t
        PROVE  t \in Twigs <=> \E l \in Seen : \E d \in DirectoryHeads : Within(l, d) /\ t = TwigOf(l, d)
    BY DEF Twigs, TwigsAt
  <1>2. ASSUME NEW t
        PROVE  t \in Twigs' <=> \E l \in Seen' : \E d \in DirectoryHeads' : Within(l, d)' /\ t = TwigOf(l, d)'
    BY DEF Twigs, TwigsAt
  <1> QED BY <1>1, <1>2

(* What the operations write has a name, a new directory no size, and a    *)
(* write never makes a file smaller.                                       *)
Called(o) ==
  /\ \A l \in LiveEntries : EntryAt(l).name \in Names
  /\ Enters(o) => o.entry.name \in Names
  /\ o.kind = "create_directory" => o.entry.size = 0
  /\ o.kind = "write" => EntryAt(o.at).size <= o.entry.size

Trunk == /\ Disk /\ fat \in TableType /\ Acyclic(fat) /\ Disjoint(fat) /\ Separate
         /\ EntriesListed /\ EndsTidy /\ NamesApart /\ DotsRight(op) /\ RenameRight(op)
         /\ TableSound /\ \A l \in LiveEntries : EntrySound(l, op)
         /\ Called(op)

LEMMA TrunkIs ==
  ASSUME TypeOK, Consistent, ~damaged, Called(op)
  PROVE  Trunk
  <1>1. /\ Sound(op) /\ NoCycle /\ Volume(op) /\ LayoutOf(op)
    BY DEF Consistent, Arranged, Ownership, ChainsFinite, Layout
  <1>2. Disk
    BY DEF TypeOK, Disk
  <1>3. TableSound /\ \A l \in LiveEntries : EntrySound(l, op)
    BY <1>1 DEF Sound
  <1>4. fat \in TableType /\ Acyclic(fat) /\ Disjoint(fat)
    BY <1>1, <1>2, <1>3, TableFacts
  <1>5. EntriesListed /\ EndsTidy /\ NamesApart /\ DotsRight(op) /\ RenameRight(op)
    BY <1>1 DEF Volume, LayoutOf
  <1>6. Separate
    BY <1>1, <1>2, <1>5, IsSeparate
  <1> QED BY <1>2, <1>3, <1>4, <1>5, <1>6 DEF Trunk

(* An entry is in one directory, and the one left out has its twin.        *)
OneHome == \A l \in LiveEntries, d, e \in DirectoryHeads : Within(l, d) /\ Within(l, e) => d = e

LEMMA SeenFacts ==
  ASSUME Trunk
  PROVE  /\ Seen \subseteq LiveEntries /\ LiveEntries \subseteq Location
         /\ \A l \in LiveEntries : l \notin Seen =>
              op.at \in Seen /\ EntryAt(op.at).kind = EntryAt(l).kind /\ FirstOf(op.at) = FirstOf(l)
         /\ \A l, m \in Seen : FirstOf(l) = FirstOf(m) /\ FirstOf(l) # Free => l = m
         /\ OneHome
  <1>1. Seen \subseteq LiveEntries /\ LiveEntries \subseteq Location
    BY DEF Seen, LiveEntries
  <1>2. ASSUME NEW l \in LiveEntries, l \notin Seen
        PROVE  op.at \in Seen /\ EntryAt(op.at).kind = EntryAt(l).kind /\ FirstOf(op.at) = FirstOf(l)
    <2>1. op.kind = "rename" /\ op.step \in {"dots", "unlink", "undo"} /\ l = op.slot
      BY <1>2 DEF Seen, Unseen
    <2>2. /\ op.at \in LiveEntries /\ op.slot # op.at /\ EntryAt(op.slot) = op.entry
          /\ op.entry = [EntryAt(op.at) EXCEPT !.name = op.entry.name]
      BY <2>1 DEF Trunk, RenameRight
    <2>3. op.at \in Seen
      BY <2>2 DEF Seen, Unseen
    <2>4. EntryAt(op.at) \in Entry
      BY <1>1, <2>2, FirstType DEF Trunk
    <2>5. EntryAt(l).kind = EntryAt(op.at).kind /\ EntryAt(l).first = EntryAt(op.at).first
      BY <2>1, <2>2, <2>4 DEF Entry
    <2> QED BY <2>3, <2>5 DEF FirstOf
  <1>3. ASSUME NEW l \in Seen, NEW m \in Seen, FirstOf(l) = FirstOf(m), FirstOf(l) # Free
        PROVE  l = m
    <2>1. l = m \/ Twins(op, l, m)
      BY <1>1, <1>3 DEF Trunk, EntrySound
    <2> QED BY <2>1 DEF Twins, Seen, Unseen
  <1>4. OneHome
    BY DEF OneHome, Trunk, Separate, Within
  <1> QED BY <1>1, <1>2, <1>3, <1>4

(* The directories are those the tree has.                                 *)
LEMMA ForksAre ==
  ASSUME Trunk
  PROVE  Forks(Twigs) = DirectoryHeads
  <1>1. ASSUME NEW h \in Forks(Twigs)
        PROVE  h \in DirectoryHeads
    <2>1. CASE h = Root
      BY <2>1 DEF DirectoryHeads
    <2>2. CASE h # Root
      <3>1. PICK t \in Twigs : t.kind = "dir" /\ t.first = h
        BY <2>2 DEF Forks, Boughs
      <3>2. PICK l \in Seen : \E d \in DirectoryHeads : t = TwigOf(l, d)
        BY <3>1, TwigsAre
      <3>3. l \in LiveEntries /\ EntryAt(l).kind = "dir" /\ FirstOf(l) = h
        BY <3>1, <3>2, SeenFacts DEF TwigOf
      <3> QED BY <3>3 DEF DirectoryHeads, LiveOf
    <2> QED BY <2>1, <2>2
  <1>2. ASSUME NEW h \in DirectoryHeads
        PROVE  h \in Forks(Twigs)
    <2>1. CASE h = Root
      BY <2>1 DEF Forks
    <2>2. CASE h # Root
      <3>1. PICK m \in LiveOf("dir") : FirstOf(m) = h
        BY <2>2 DEF DirectoryHeads
      <3>2. m \in LiveEntries /\ EntryAt(m).kind = "dir"
        BY DEF LiveOf
      <3>3. PICK l \in Seen : EntryAt(l).kind = "dir" /\ FirstOf(l) = h
        <4>1. CASE m \in Seen
          BY <3>1, <3>2, <4>1
        <4>2. CASE m \notin Seen
          BY <3>1, <3>2, <4>2, SeenFacts
        <4> QED BY <4>1, <4>2
      <3>4. PICK d \in DirectoryHeads : Within(l, d)
        BY SeenFacts DEF Trunk, EntriesListed
      <3>5. TwigOf(l, d) \in Twigs
        BY <3>4, TwigsAre
      <3> QED BY <3>3, <3>5 DEF Forks, Boughs, TwigOf
    <2> QED BY <2>1, <2>2
  <1> QED BY <1>1, <1>2

LEMMA TwigType ==
  ASSUME Trunk, NEW l \in LiveEntries, NEW d \in DirectoryHeads
  PROVE  TwigOf(l, d) \in Twig
  <1>1. l \in Location /\ EntryAt(l) \in Entry /\ EntryAt(l).kind \in Live /\ EntryAt(l).name \in Names
    BY SeenFacts, FirstType DEF Trunk, Called, LiveEntries
  <1>2. d \in Clusters
    BY DEF Trunk, Separate
  <1> QED BY <1>1, <1>2 DEF TwigOf, Twig, Entry, FirstOf

(* Every directory that is seen comes down from the root.                  *)
SeenUp ==
  \A S \in SUBSET (DirectoryHeads \ {Root}) :
    S # {} => \E l \in Seen : \E d \in DirectoryHeads :
                /\ EntryAt(l).kind = "dir" /\ FirstOf(l) \in S /\ d \notin S /\ Within(l, d)

LEMMA TwigsTree ==
  ASSUME Trunk, SeenUp
  PROVE  TreeLike(Twigs)
  <1>1. ASSUME NEW t \in Twigs
        PROVE  \E l \in Seen : \E d \in DirectoryHeads :
                 /\ l \in LiveEntries /\ Within(l, d) /\ t = TwigOf(l, d) /\ t \in Twig
                 /\ t.dir = d /\ t.name = EntryAt(l).name /\ t.kind = EntryAt(l).kind /\ t.first = FirstOf(l)
    <2>1. PICK l \in Seen : \E d \in DirectoryHeads : Within(l, d) /\ t = TwigOf(l, d)
      BY TwigsAre
    <2>2. PICK d \in DirectoryHeads : Within(l, d) /\ t = TwigOf(l, d)
      BY <2>1
    <2>3. l \in LiveEntries
      BY SeenFacts
    <2>4. t \in Twig
      BY <2>2, <2>3, TwigType
    <2> QED BY <2>2, <2>3, <2>4 DEF TwigOf
  <1>2. Twigs \subseteq Twig /\ \A t \in Twigs : t.dir \in Forks(Twigs)
    BY <1>1, ForksAre
  <1>3. ASSUME NEW t \in Twigs, NEW u \in Twigs, t.dir = u.dir, t.name = u.name
        PROVE  t = u
    <2>1. PICK l \in Seen, d \in DirectoryHeads :
            l \in LiveEntries /\ Within(l, d) /\ t = TwigOf(l, d) /\ t.dir = d /\ t.name = EntryAt(l).name
      BY <1>1
    <2>2. PICK m \in Seen, e \in DirectoryHeads :
            m \in LiveEntries /\ Within(m, e) /\ u = TwigOf(m, e) /\ u.dir = e /\ u.name = EntryAt(m).name
      BY <1>1
    <2>3. l = m
      BY <1>3, <2>1, <2>2 DEF Trunk, NamesApart
    <2> QED BY <1>3, <2>1, <2>2, <2>3
  <1>4. ASSUME NEW t \in Boughs(Twigs)
        PROVE  t.first \in Clusters /\ t.first # Root
    <2>1. PICK l \in LiveEntries : EntryAt(l).kind = "dir" /\ t.first = FirstOf(l)
      BY <1>1 DEF Boughs
    <2>2. l \in LiveOf("dir")
      BY <2>1 DEF LiveOf
    <2>3. FirstOf(l) # Free /\ FirstOf(l) \in Clusters
      BY <2>2, HeadsAre DEF Trunk, DotsRight
    <2>4. FirstOf(l) # Root
      BY <2>3 DEF Trunk, EntrySound
    <2> QED BY <2>1, <2>3, <2>4
  <1>5. ASSUME NEW t \in Boughs(Twigs), NEW u \in Boughs(Twigs), t.first = u.first
        PROVE  t = u
    <2>1. t \in Twigs /\ u \in Twigs
      BY DEF Boughs
    <2>2. PICK l \in Seen, d \in DirectoryHeads :
            l \in LiveEntries /\ Within(l, d) /\ t = TwigOf(l, d) /\ t.first = FirstOf(l)
      BY <1>1, <2>1
    <2>3. PICK m \in Seen, e \in DirectoryHeads :
            m \in LiveEntries /\ Within(m, e) /\ u = TwigOf(m, e) /\ u.first = FirstOf(m)
      BY <1>1, <2>1
    <2>4. FirstOf(l) # Free
      BY <1>4, <2>2, FreeOutside
    <2>5. l = m
      BY <1>5, <2>2, <2>3, <2>4, SeenFacts
    <2>6. d = e
      BY <2>2, <2>3, <2>5, SeenFacts DEF OneHome
    <2> QED BY <2>2, <2>3, <2>5, <2>6
  <1>6. ASSUME NEW S \in SUBSET (Forks(Twigs) \ {Root}), S # {}
        PROVE  \E t \in Boughs(Twigs) : t.first \in S /\ t.dir \notin S
    <2>1. S \in SUBSET (DirectoryHeads \ {Root})
      BY ForksAre
    <2>2. PICK l \in Seen, d \in DirectoryHeads :
            /\ EntryAt(l).kind = "dir" /\ FirstOf(l) \in S /\ d \notin S /\ Within(l, d)
      BY <1>6, <2>1 DEF SeenUp
    <2>3. TwigOf(l, d) \in Twigs
      BY <2>2, TwigsAre
    <2> QED BY <2>2, <2>3 DEF Boughs, TwigOf
  <1> QED BY <1>2, <1>3, <1>4, <1>5, <1>6 DEF TreeLike

LEMMA UpwardSeen ==
  ASSUME Trunk, Upward(op),
         ~(op.kind = "rename" /\ op.step = "unlink" /\ op.entry.kind = "dir")
  PROVE  SeenUp
  <1> SUFFICES ASSUME NEW S \in SUBSET (DirectoryHeads \ {Root}), S # {}
               PROVE  \E l \in Seen : \E d \in DirectoryHeads :
                        /\ EntryAt(l).kind = "dir" /\ FirstOf(l) \in S /\ d \notin S /\ Within(l, d)
    BY DEF SeenUp
  <1>1. PICK h \in S, d \in DirectoryHeads \ S : Leads(h, d, op)
    BY DEF Upward
  <1>2. PICK l \in LiveOf("dir") : FirstOf(l) = h /\ ~Moving(op, l) /\ Within(l, d)
    BY <1>1 DEF Leads
  <1>3. l \in LiveEntries /\ EntryAt(l).kind = "dir"
    BY DEF LiveOf
  <1>4. l \in Seen
    <2> SUFFICES ASSUME l \notin Seen
                 PROVE  FALSE
      OBVIOUS
    <2>1. op.kind = "rename" /\ op.step \in {"dots", "unlink", "undo"} /\ l = op.slot
      BY <1>3 DEF Seen, Unseen
    <2>2. op.step = "unlink"
      BY <1>2, <2>1 DEF Moving
    <2>3. EntryAt(l) = op.entry
      BY <2>1 DEF Trunk, RenameRight
    <2> QED BY <1>3, <2>1, <2>2, <2>3
  <1> QED BY <1>1, <1>2, <1>3, <1>4

-----------------------------------------------------------------------------
(* What a path finds on the volume is what it names in the tree.           *)
LEMMA FindSeen ==
  ASSUME Trunk, NEW d \in DirectoryHeads, NEW l \in LiveEntries, Within(l, d),
         NEW name, name = EntryAt(l).name
  PROVE  fat32_find_in_directory(d, name) = {l}
  <1>1. \A c \in ChainSet(d) : EndsOnce(c)
    BY DEF Trunk, EndsTidy
  <1>2. fat32_find_in_directory(d, name) # {}
    BY <1>1, FindMisses DEF Trunk
  <1>3. PICK m \in fat32_find_in_directory(d, name) : TRUE
    BY <1>2
  <1>4. m \in LiveEntries /\ Within(m, d) /\ EntryAt(m).name = name
    BY <1>3, FindIs
  <1>5. m = l
    BY <1>4 DEF Trunk, NamesApart
  <1> QED BY <1>3, <1>5, FindOne

LEMMA BelowFound ==
  ASSUME NEW path, NEW k, NEW above, above # Free, NEW l,
         fat32_find_in_directory(above, path[k]) = {l}
  PROVE  Below(path, k, above) = IF EntryAt(l).kind = "dir" THEN FirstOf(l) ELSE Free
  <1> DEFINE found == fat32_find_in_directory(above, path[k])
  <1>1. Below(path, k, above) =
          LET fnd == IF above = Free THEN {} ELSE found
          IN IF fnd # {} /\ EntryAt(CHOOSE loc \in fnd : TRUE).kind = "dir"
             THEN EntryAt(CHOOSE loc \in fnd : TRUE).first ELSE Free
    BY Zenon DEF Below
  <1>2. found = {l}
    OBVIOUS
  <1> HIDE DEF found
  <1>3. (IF above = Free THEN {} ELSE found) = {l}
    BY <1>2
  <1>4. (CHOOSE loc \in {l} : TRUE) = l
    OBVIOUS
  <1> QED BY ONLY <1>1, <1>3, <1>4 DEF FirstOf

LEMMA BelowFinds ==
  ASSUME NEW path, NEW k, NEW above, Below(path, k, above) # Free
  PROVE  /\ above # Free
         /\ \E l \in LiveEntries :
              /\ fat32_find_in_directory(above, path[k]) = {l} /\ EntryAt(l).kind = "dir"
              /\ Below(path, k, above) = FirstOf(l) /\ Within(l, above) /\ EntryAt(l).name = path[k]
  <1> DEFINE found == IF above = Free THEN {} ELSE fat32_find_in_directory(above, path[k])
  <1>1. found # {}
    BY DEF Below
  <1>2. above # Free /\ found = fat32_find_in_directory(above, path[k])
    BY <1>1
  <1>3. PICK l \in fat32_find_in_directory(above, path[k]) : TRUE
    BY <1>1, <1>2
  <1>4. fat32_find_in_directory(above, path[k]) = {l}
    BY <1>3, FindOne
  <1>5. l \in LiveEntries /\ Within(l, above) /\ EntryAt(l).name = path[k]
    BY <1>3, FindIs
  <1>6. Below(path, k, above) = IF EntryAt(l).kind = "dir" THEN FirstOf(l) ELSE Free
    BY <1>2, <1>4, BelowFound
  <1> QED BY <1>2, <1>4, <1>5, <1>6

(* The directories a path comes through.                                   *)
Downs(f, p, n) == f[0] = Root /\ \A k \in 1 .. n : f[k] = Below(p, k, f[k - 1])

LEMMA DownsExists ==
  ASSUME NEW n \in Nat, NEW p
  PROVE  \E f : Downs(f, p, n)
  <1>1. PICK f : Descent(f, n, p)
    BY DescentExists
  <1> QED BY <1>1, DescentIs DEF Downs

LEMMA ParentIs ==
  ASSUME NEW p \in Way, NEW n \in Nat, n = Len(p) - 1, NEW f, Downs(f, p, n)
  PROVE  ParentOf(p) = f[n]
  <1> DEFINE g == CHOOSE h : Descent(h, Len(p) - 1, p)
  <1>1. ParentOf(p) = g[Len(p) - 1]
    BY Zenon DEF ParentOf, Descent, Below
  <1>2. Descent(g, Len(p) - 1, p)
    BY DescentExists
  <1> HIDE DEF g
  <1>3. ParentOf(p) = g[n] /\ Descent(g, n, p)
    BY <1>1, <1>2
  <1>4. g[0] = Root /\ \A k \in 1 .. n : g[k] = Below(p, k, g[k - 1])
    BY ONLY <1>3, n \in Nat, DescentIs
  <1>5. f[0] = g[0] /\ \A k \in 1 .. n : f[k - 1] = g[k - 1] => f[k] = g[k]
    BY <1>4 DEF Downs
  <1>6. f[n] = g[n]
    BY ONLY <1>5, n \in Nat, Agree
  <1> QED BY <1>3, <1>6

LEMMA LookupOn ==
  ASSUME NEW p \in Way, NEW m \in Nat, NEW f, Downs(f, p, m), NEW n \in 1 .. Len(p), n - 1 <= m
  PROVE  Lookup(SubSeq(p, 1, n)) =
           IF f[n - 1] \in Clusters THEN fat32_find_in_directory(f[n - 1], p[n]) ELSE {}
  <1> DEFINE q == SubSeq(p, 1, n)
  <1>1. n \in Nat /\ n - 1 \in Nat /\ n <= Len(p) /\ 0 < 1 /\ 1 \in Nat /\ 1 <= n + 1
    BY WayIs
  <1>2. q \in Seq(Names) /\ Len(q) = n - 1 + 1 /\ \A i \in 1 .. n - 1 + 1 : q[i] = p[1 + i - 1]
    BY <1>1, PartOf, WayIs
  <1>3. Len(q) = n /\ \A i \in 1 .. n : q[i] = p[i]
    BY <1>1, <1>2
  <1>4. q \in Way
    BY <1>1, <1>2, <1>3 DEF Way
  <1> HIDE DEF q
  <1>5. Downs(f, q, n - 1)
    <2>1. \A k \in 1 .. n - 1 : k \in 1 .. m /\ k \in 1 .. n
      BY <1>1
    <2>2. \A k \in 1 .. n - 1 : q[k] = p[k]
      BY <1>3, <2>1
    <2> QED BY <2>1, <2>2 DEF Downs, Below
  <1>6. ParentOf(q) = f[n - 1] /\ NameOf(q) = p[n]
    BY <1>1, <1>3, <1>4, <1>5, ParentIs DEF NameOf
  <1> QED BY <1>6 DEF Lookup, q

(* A route through the tree is a descent through the volume.               *)
LEMMA RouteDowns ==
  ASSUME Trunk, NEW p \in Way, NEW n \in Nat, NEW f, Route(Twigs, f, p, 0, n), f[0] = Root
  PROVE  Downs(f, p, n)
  <1>1. ASSUME NEW k \in 1 .. n
        PROVE  f[k] = Below(p, k, f[k - 1])
    <2>1. k \in 0 + 1 .. n
      OBVIOUS
    <2>2. PICK t \in Twigs : t.kind = "dir" /\ t.dir = f[k - 1] /\ t.name = p[k] /\ t.first = f[k]
      BY <2>1 DEF Route, Bough, Boughs
    <2>3. PICK l \in Seen, d \in DirectoryHeads : Within(l, d) /\ t = TwigOf(l, d)
      BY TwigsAre
    <2>4. /\ d = f[k - 1] /\ EntryAt(l).name = p[k] /\ EntryAt(l).kind = "dir" /\ FirstOf(l) = f[k]
          /\ l \in LiveEntries
      BY <2>2, <2>3, SeenFacts DEF TwigOf
    <2>5. fat32_find_in_directory(f[k - 1], p[k]) = {l}
      BY <2>3, <2>4, FindSeen
    <2>6. f[k - 1] # Free
      BY <2>4, FreeOutside DEF Trunk, Separate
    <2> QED BY <2>4, <2>5, <2>6, BelowFound
  <1> QED BY <1>1 DEF Downs

Finds(p, t) == \E l \in Seen : Lookup(p) = {l} /\ t = TwigOf(l, ParentOf(p))

LEMMA WholePath ==
  ASSUME NEW p \in Way
  PROVE  SubSeq(p, 1, Len(p)) = p
  <1>1. p \in Seq(Names)
    BY WayIs
  <1> QED BY <1>1

LEMMA HasFound ==
  ASSUME Trunk, NEW p \in Way, NEW t, Has(Twigs, p, t)
  PROVE  Finds(p, t)
  <1> DEFINE n == Len(p) - 1
  <1>1. n \in Nat /\ Len(p) \in 1 .. Len(p) /\ n <= n
    BY WayIs
  <1>2. PICK f : Route(Twigs, f, p, 0, n) /\ f[0] = Root /\ f[n] = t.dir
    BY DEF Has, Goes
  <1>3. Downs(f, p, n)
    BY <1>1, <1>2, RouteDowns
  <1>4. t \in Twigs /\ t.name = p[Len(p)]
    BY DEF Has
  <1>5. PICK l \in Seen, d \in DirectoryHeads : Within(l, d) /\ t = TwigOf(l, d)
    BY <1>4, TwigsAre
  <1>6. d = f[n] /\ EntryAt(l).name = p[Len(p)] /\ l \in LiveEntries /\ d \in Clusters
    BY <1>2, <1>4, <1>5, SeenFacts DEF TwigOf, Trunk, Separate
  <1>7. ParentOf(p) = f[n]
    BY <1>1, <1>3, ParentIs
  <1>8. Lookup(p) = fat32_find_in_directory(f[n], p[Len(p)])
    BY <1>1, <1>6, <1>7 DEF Lookup, NameOf
  <1>9. Lookup(p) = {l}
    BY <1>5, <1>6, <1>8, FindSeen
  <1> QED BY <1>5, <1>6, <1>7, <1>9 DEF Finds

(* So do the paths before it, and none of them finds the entry left out.   *)
LEMMA HasSeen ==
  ASSUME Trunk, NEW p \in Way, NEW t, Has(Twigs, p, t)
  PROVE  ~Hidden(p)
  <1>1. ASSUME NEW n \in 1 .. Len(p)
        PROVE  \E u : Has(Twigs, SubSeq(p, 1, n), u) /\ SubSeq(p, 1, n) \in Way
    <2> DEFINE q == SubSeq(p, 1, n)
    <2>1. n \in Nat /\ n - 1 \in Nat /\ n <= Len(p) /\ 0 < 1 /\ 1 \in Nat /\ 1 <= n + 1 /\ 0 < n
      BY WayIs
    <2>2. q \in Seq(Names) /\ Len(q) = n - 1 + 1 /\ \A i \in 1 .. n - 1 + 1 : q[i] = p[1 + i - 1]
      BY <2>1, PartOf, WayIs
    <2>3. Len(q) = n /\ \A i \in 1 .. n : q[i] = p[i]
      BY <2>1, <2>2
    <2>4. q \in Way
      BY <2>1, <2>2, <2>3 DEF Way
    <2>5. CASE n = Len(p)
      BY <2>4, <2>5, WholePath
    <2>6. CASE n # Len(p)
      <3>1. n \in 0 .. Len(p) - 1 /\ Len(p) - 1 \in Nat /\ 0 \in Nat
        BY <2>1, <2>6, WayIs
      <3>2. PICK x : Goes(Twigs, Root, p, 0, n, x)
        BY <3>1, GoesSplit DEF Has
      <3>3. LastBough(Twigs, Root, p, 0, n, x)
        BY <2>1, <3>2, GoesLastly
      <3>4. PICK u \in Twigs : Goes(Twigs, Root, p, 0, n - 1, u.dir) /\ u.name = p[n]
        BY <3>3 DEF LastBough, Boughs
      <3> HIDE DEF q
      <3>5. \A k \in 1 .. n - 1 : p[k] = q[k]
        BY <2>1, <2>3
      <3>6. Goes(Twigs, Root, q, 0, n - 1, u.dir)
        BY <2>1, <3>4, <3>5, GoesAlike
      <3>7. q[Len(q)] = p[n]
        BY <2>1, <2>3
      <3>8. Has(Twigs, q, u)
        BY <2>3, <3>4, <3>6, <3>7 DEF Has
      <3> QED BY <2>4, <3>8 DEF q
    <2> QED BY <2>5, <2>6
  <1>2. ASSUME NEW n \in 1 .. Len(p), op.slot \in Lookup(SubSeq(p, 1, n)),
               op.kind = "rename", op.step \in {"dots", "unlink", "undo"}
        PROVE  FALSE
    <2>1. PICK u : Has(Twigs, SubSeq(p, 1, n), u) /\ SubSeq(p, 1, n) \in Way
      BY <1>1
    <2>2. Finds(SubSeq(p, 1, n), u)
      BY <2>1, HasFound
    <2> QED BY <1>2, <2>2 DEF Finds, Seen, Unseen
  <1> QED BY <1>2 DEF Hidden

(* A descent to a directory comes through directories all the way.         *)
LEMMA DownsHeads ==
  ASSUME Trunk, NEW p, NEW n \in Nat, NEW f, Downs(f, p, n), f[n] \in Clusters
  PROVE  \A k \in 0 .. n : f[k] # Free /\ f[k] \in DirectoryHeads /\ f[k] \in Clusters
  <1>1. \A k \in 1 .. n : f[k] = Below(p, k, f[k - 1])
    BY DEF Downs
  <1>2. \A k \in 0 .. n : f[k] # Free
    <2> DEFINE T == {j \in 0 .. n : f[n - j] = Free}
    <2>1. ASSUME T # {}
          PROVE  FALSE
      <3>1. T \in SUBSET Nat
        OBVIOUS
      <3>2. PICK j \in T : \A i \in T : j <= i
        <4> HIDE DEF T
        <4> QED BY <2>1, <3>1, LeastNatural
      <3>3. j \in 0 .. n /\ f[n - j] = Free
        OBVIOUS
      <3>4. j # 0
        BY <3>3, FreeOutside
      <3>5. j - 1 \in 0 .. n /\ ~(j <= j - 1) /\ n - (j - 1) \in 1 .. n /\ (n - (j - 1)) - 1 = n - j
        BY <3>3, <3>4
      <3>6. f[n - (j - 1)] # Free
        BY <3>2, <3>5
      <3>7. Below(p, n - (j - 1), Free) # Free
        BY <1>1, <3>3, <3>5, <3>6
      <3> QED BY <3>7, BelowFinds
    <2>2. ASSUME NEW k \in 0 .. n
          PROVE  f[k] # Free
      <3>1. n - k \in 0 .. n /\ n - (n - k) = k
        OBVIOUS
      <3>2. n - k \notin T
        BY <2>1
      <3> QED BY <3>1, <3>2
    <2> QED BY <2>2
  <1>3. \A k \in 0 .. n : f[k] \in DirectoryHeads
    <2>1. f[0] \in DirectoryHeads
      BY DEF Downs, DirectoryHeads
    <2>2. \A k \in 0 .. n : k = 0 \/ k \in 1 .. n
      OBVIOUS
    <2> QED BY <1>1, <1>2, <2>1, <2>2, BelowHead
  <1> QED BY <1>2, <1>3 DEF Trunk, Separate

(* And is a route through the tree, when it finds nothing left out.        *)
LEMMA DownsGoes ==
  ASSUME Trunk, NEW p, NEW n \in Nat, NEW f, Downs(f, p, n), f[n] \in Clusters,
         \A k \in 1 .. n : \A m \in fat32_find_in_directory(f[k - 1], p[k]) : m \in Seen
  PROVE  Goes(Twigs, Root, p, 0, n, f[n])
  <1>1. \A k \in 1 .. n : f[k] = Below(p, k, f[k - 1])
    BY DEF Downs
  <1>2. \A k \in 0 .. n : f[k] # Free /\ f[k] \in DirectoryHeads /\ f[k] \in Clusters
    BY DownsHeads
  <1> DEFINE w == [k \in 0 .. n |-> f[k]]
  <1>3. w \in [0 .. n -> Clusters] /\ w[0] = Root /\ w[n] = f[n]
    BY <1>2 DEF Downs
  <1>4. ASSUME NEW k \in 0 + 1 .. n
        PROVE  Bough(Twigs, w[k - 1], p[k], w[k])
    <2>1. k \in 1 .. n /\ k - 1 \in 0 .. n /\ k \in 0 .. n
      OBVIOUS
    <2>2. w[k - 1] = f[k - 1] /\ w[k] = f[k] /\ f[k] = Below(p, k, f[k - 1]) /\ f[k] # Free
      BY <1>1, <1>2, <2>1
    <2>3. PICK m \in LiveEntries :
              /\ fat32_find_in_directory(f[k - 1], p[k]) = {m} /\ EntryAt(m).kind = "dir"
              /\ f[k] = FirstOf(m) /\ Within(m, f[k - 1]) /\ EntryAt(m).name = p[k]
      <3>1. Below(p, k, f[k - 1]) # Free
        BY <2>2
      <3>2. \E m \in LiveEntries :
              /\ fat32_find_in_directory(f[k - 1], p[k]) = {m} /\ EntryAt(m).kind = "dir"
              /\ Below(p, k, f[k - 1]) = FirstOf(m) /\ Within(m, f[k - 1]) /\ EntryAt(m).name = p[k]
        BY ONLY <3>1, BelowFinds
      <3> QED BY <2>2, <3>2
    <2>4. m \in Seen /\ f[k - 1] \in DirectoryHeads
      BY <1>2, <2>1, <2>3
    <2>5. TwigOf(m, f[k - 1]) \in Twigs
      BY <2>3, <2>4, TwigsAre
    <2> DEFINE t == TwigOf(m, f[k - 1])
    <2>6. t \in Boughs(Twigs) /\ t.dir = f[k - 1] /\ t.name = p[k] /\ t.first = f[k]
      BY <2>3, <2>5 DEF Boughs, TwigOf
    <2> HIDE DEF t, w
    <2> QED BY ONLY <2>2, <2>6 DEF Bough
  <1> HIDE DEF w
  <1> QED BY <1>3, <1>4 DEF Goes, Route

(* And what a path finds that does not come through the entry left out,    *)
(* it names.                                                               *)
HasAt(p, l) == \E d \in DirectoryHeads : Within(l, d) /\ Has(Twigs, p, TwigOf(l, d))

LEMMA FoundHas ==
  ASSUME Trunk, NEW p \in Way, NEW l \in Lookup(p), ~Hidden(p)
  PROVE  l \in Seen /\ HasAt(p, l)
  <1> DEFINE n == Len(p) - 1
  <1>1. n \in Nat /\ Len(p) \in 1 .. Len(p) /\ n <= n /\ n + 1 = Len(p) /\ n \in 0 .. n
    BY WayIs
  <1>2. PICK f : Downs(f, p, n)
    BY <1>1, DownsExists
  <1>3. ParentOf(p) = f[n] /\ f[n] \in Clusters /\ l \in fat32_find_in_directory(f[n], p[Len(p)])
    BY <1>1, <1>2, ParentIs DEF Lookup, NameOf
  <1> HIDE DEF n
  <1>4. \A k \in 0 .. n : f[k] \in DirectoryHeads /\ f[k] \in Clusters
    BY <1>1, <1>2, <1>3, DownsHeads
  <1>5. ASSUME NEW k \in 1 .. Len(p), NEW m \in fat32_find_in_directory(f[k - 1], p[k])
        PROVE  m \in Seen
    <2>1. k - 1 \in 0 .. n /\ k - 1 <= n
      BY <1>1
    <2>2. m \in Lookup(SubSeq(p, 1, k))
      BY <1>1, <1>2, <1>4, <1>5, <2>1, LookupOn
    <2>3. ~(op.kind = "rename" /\ op.step \in {"dots", "unlink", "undo"} /\ m = op.slot)
      BY <2>2 DEF Hidden
    <2>4. m \in LiveEntries
      BY <1>5, FindIs
    <2> QED BY <2>3, <2>4 DEF Seen, Unseen
  <1>6. Goes(Twigs, Root, p, 0, n, f[n])
    <2>1. \A k \in 1 .. n : k \in 1 .. Len(p)
      BY <1>1
    <2> QED BY <1>1, <1>2, <1>3, <1>5, <2>1, DownsGoes
  <1>7. l \in Seen /\ Within(l, f[n]) /\ EntryAt(l).name = p[Len(p)] /\ f[n] \in DirectoryHeads
    <2>1. Len(p) - 1 = n
      BY <1>1
    <2> QED BY <1>1, <1>3, <1>4, <1>5, <2>1, FindIs
  <1>8. TwigOf(l, f[n]) \in Twigs
    BY <1>7, TwigsAre
  <1>9. Has(Twigs, p, TwigOf(l, f[n]))
    BY <1>6, <1>7, <1>8 DEF Has, TwigOf, n
  <1> QED BY <1>7, <1>9 DEF HasAt

(* The way to a name that is not there, when nothing is left out.          *)
LEMMA ParentComes ==
  ASSUME Trunk, Seen = LiveEntries, NEW p \in Way, ParentOf(p) \in Clusters
  PROVE  Comes(Twigs, p, ParentOf(p), NameOf(p))
  <1> DEFINE n == Len(p) - 1
  <1>1. n \in Nat
    BY WayIs
  <1>2. PICK f : Downs(f, p, n)
    BY <1>1, DownsExists
  <1>3. ParentOf(p) = f[n] /\ f[n] \in Clusters
    BY <1>1, <1>2, ParentIs
  <1> HIDE DEF n
  <1>4. \A k \in 1 .. n : \A m \in fat32_find_in_directory(f[k - 1], p[k]) : m \in Seen
    BY FindIs
  <1>5. Goes(Twigs, Root, p, 0, n, f[n])
    BY <1>1, <1>2, <1>3, <1>4, DownsGoes
  <1> QED BY <1>3, <1>5 DEF Comes, NameOf, n

LEMMA Pictured ==
  ASSUME Trunk
  PROVE  Pictures(View, Twigs)
  <1>1. View = [p \in TreePaths |-> View[p]] /\ \A p \in TreePaths : View[p] = Node(p)
    BY DEF View
  <1>2. ASSUME NEW p \in TreePaths, NEW t \in Twigs, Has(Twigs, p, t)
        PROVE  View[p] = Shows(t)
    <2>1. p \in Way
      BY TreePathIs
    <2>2. ~Hidden(p) /\ Finds(p, t)
      BY <1>2, <2>1, HasFound, HasSeen
    <2>3. PICK l \in Seen : Lookup(p) = {l} /\ t = TwigOf(l, ParentOf(p))
      BY <2>2 DEF Finds
    <2>4. (CHOOSE loc \in {l} : TRUE) = l
      OBVIOUS
    <2>5. Node(p) = [kind |-> EntryAt(l).kind, size |-> EntryAt(l).size]
      BY <2>2, <2>3, <2>4 DEF Node
    <2> QED BY <1>1, <2>3, <2>5 DEF Shows, TwigOf
  <1>3. ASSUME NEW p \in TreePaths, \A t \in Twigs : ~Has(Twigs, p, t)
        PROVE  View[p] = Nothing
    <2>1. p \in Way
      BY TreePathIs
    <2>2. Lookup(p) = {} \/ Hidden(p)
      BY <1>3, <2>1, FoundHas DEF HasAt, Has
    <2> QED BY <1>1, <2>2 DEF Node, Nothing
  <1> QED BY <1>1, <1>2, <1>3 DEF Pictures

-----------------------------------------------------------------------------
(* What a step makes of the call in progress: nothing, or it goes on with  *)
(* the same entry and with the same entry left out.                        *)
Twice == {"dots", "unlink", "undo"}
Bears ==
  /\ Unseen(op)' = Unseen(op)
  /\ \/ op' = Idle
     \/ /\ op'.kind = op.kind /\ op'.at = op.at
        /\ op'.entry.name = op.entry.name /\ op'.entry.size = op.entry.size
        /\ Enters(op)' => Enters(op)

LEMMA BearsOver ==
  ASSUME op' = Idle, ~(op.kind = "rename" /\ op.step \in Twice)
  PROVE  Bears
  BY DEF Bears, Unseen, Idle, Twice

LEMMA BearsOn ==
  ASSUME NEW n, op' = n, n.kind = op.kind, n.at = op.at,
         n.entry.name = op.entry.name, n.entry.size = op.entry.size, Enters(n) => Enters(op),
         op.kind = "rename" => \/ op.step \notin Twice /\ n.step \notin Twice
                               \/ op.step \in Twice /\ n.step \in Twice /\ n.slot = op.slot
  PROVE  Bears
  <1>1. Unseen(n) = Unseen(op)
    BY DEF Unseen, Twice
  <1>2. Unseen(op)' = Unseen(n) /\ (Enters(op)' <=> Enters(n))
    BY DEF Unseen, Enters
  <1> QED BY <1>1, <1>2 DEF Bears

LEMMA BearsRecover ==
  ASSUME Before, Recover, ~(op.kind = "rename" /\ op.step \in {"unlink", "undo"})
  PROVE  Bears
  <1>1. op \in Call
    BY BeforeDisk
  <1>2. CASE op.kind = "create_directory" /\ op.first # Free /\ op.step # "free"
    <2>1. op' = [op EXCEPT !.step = "free", !.cur = op.first]
      BY <1>2 DEF Recover
    <2> DEFINE n == [op EXCEPT !.step = "free", !.cur = op.first]
    <2>2. n.kind = op.kind /\ n.at = op.at /\ n.entry = op.entry /\ n.step = "free"
      BY <1>1 DEF Call
    <2>3. Enters(n) => Enters(op)
      BY <1>2, <2>2 DEF Enters
    <2> HIDE DEF n
    <2> QED BY <1>2, <2>1, <2>2, <2>3, BearsOn DEF n
  <1>3. CASE op.kind = "rename" /\ op.step = "dots"
    <2>1. op' = [op EXCEPT !.step = "undo"]
      BY <1>3 DEF Recover
    <2> DEFINE n == [op EXCEPT !.step = "undo"]
    <2>2. n.kind = op.kind /\ n.at = op.at /\ n.entry = op.entry /\ n.step = "undo" /\ n.slot = op.slot
      BY <1>1 DEF Call
    <2>3. Enters(n) => Enters(op)
      BY <1>3, <2>2 DEF Enters
    <2> HIDE DEF n
    <2> QED BY <1>3, <2>1, <2>2, <2>3, BearsOn DEF n, Twice
  <1>4. CASE op' = Idle /\ ~(op.kind = "rename" /\ op.step = "dots")
    BY <1>4, BearsOver DEF Twice
  <1> QED BY <1>2, <1>3, <1>4 DEF Recover, Finish

LEMMA BearsNext ==
  ASSUME Before, NEW n \in Call, Proceed(n), n.kind = op.kind, n.at = op.at,
         n.entry.name = op.entry.name, n.entry.size = op.entry.size,
         Enters(n) => Enters(op), op.step \notin {"unlink", "undo"} \/ op.kind # "rename",
         op.kind = "rename" => \/ op.step \notin Twice /\ n.step \notin Twice
                               \/ op.step \in Twice /\ n.step \in Twice /\ n.slot = op.slot
  PROVE  Bears
  <1>1. op' = n \/ Recover
    BY ProceedSafe
  <1>2. CASE op' = n
    BY <1>2, BearsOn
  <1>3. CASE Recover
    BY <1>3, BearsRecover
  <1> QED BY <1>1, <1>2, <1>3

LEMMA FindSlotBears == ASSUME Before, FindSlot PROVE Bears
  <1>1. op \in Call /\ op.step = "slot"
    BY BeforeDisk DEF FindSlot
  <1>2. CASE Fail
    BY <1>1, <1>2, BearsRecover DEF Fail
  <1>3. ASSUME NEW loc, op' = [op EXCEPT !.slot = loc, !.step = "entry"]
        PROVE  Bears
    <2> DEFINE n == [op EXCEPT !.slot = loc, !.step = "entry"]
    <2>1. n.kind = op.kind /\ n.at = op.at /\ n.entry = op.entry /\ n.step = "entry"
      BY <1>1 DEF Call
    <2>2. Enters(n) => Enters(op)
      BY <1>1, <2>1 DEF Enters
    <2>3. op' = n
      BY <1>3
    <2> HIDE DEF n
    <2> QED BY <1>1, <2>1, <2>2, <2>3, BearsOn DEF Twice
  <1>4. ASSUME NEW last, op' = [op EXCEPT !.last = last, !.step = "mark"]
        PROVE  Bears
    <2> DEFINE n == [op EXCEPT !.last = last, !.step = "mark"]
    <2>1. n.kind = op.kind /\ n.at = op.at /\ n.entry = op.entry /\ n.step = "mark"
      BY <1>1 DEF Call
    <2>2. Enters(n) => Enters(op)
      BY <1>1, <2>1 DEF Enters
    <2>3. op' = n
      BY <1>4
    <2> HIDE DEF n
    <2> QED BY <1>1, <2>1, <2>2, <2>3, BearsOn DEF Twice
  <1> QED BY <1>2, <1>3, <1>4 DEF FindSlot

LEMMA MarkBears == ASSUME Before, MarkCluster PROVE Bears
  <1>1. op \in Call /\ op.step = "mark"
    BY BeforeDisk DEF MarkCluster
  <1>2. PICK c \in Clusters : Proceed([op EXCEPT !.new = c, !.step = "zero"])
    BY DEF MarkCluster, Lowest, FreeClusters
  <1> DEFINE n == [op EXCEPT !.new = c, !.step = "zero"]
  <1>3. n \in Call /\ n.kind = op.kind /\ n.at = op.at /\ n.entry = op.entry /\ n.step = "zero"
    BY <1>1 DEF Call
  <1>4. Enters(n) => Enters(op)
    BY <1>1, <1>3 DEF Enters
  <1>5. Proceed(n)
    BY <1>2
  <1> HIDE DEF n
  <1> QED BY <1>1, <1>3, <1>4, <1>5, BearsNext DEF Twice

LEMMA ZeroBears == ASSUME Before, ZeroCluster PROVE Bears
  <1>1. op \in Call /\ op.step = "zero" /\ op.kind \notin {"none", "remove"} /\ TypeInv
    BY BeforeDisk DEF ZeroCluster, StepOK, Before
  <1> DEFINE n == Allocated
  <1>2. n \in Call /\ Proceed(n)
    BY <1>1, AllocatedType DEF ZeroCluster
  <1>3. /\ n.kind = op.kind /\ n.at = op.at
        /\ n.entry.name = op.entry.name /\ n.entry.size = op.entry.size
        /\ op.kind = "rename" => n.step = "link"
    <2>1. CASE op.kind = "create_directory" /\ op.first = Free
      BY <1>1, <2>1 DEF Allocated, Call, Entry
    <2>2. CASE op.kind = "write" /\ op.first = Free
      BY <1>1, <2>2 DEF Allocated, Call, GrowOrWrite, DataOrUpdate
    <2>3. CASE ~(op.kind \in {"write", "create_directory"} /\ op.first = Free)
      BY <1>1, <2>3 DEF Allocated, Call
    <2> QED BY <2>1, <2>2, <2>3
  <1> HIDE DEF n
  <1>4. Enters(n) => Enters(op)
    BY <1>1, <1>3 DEF Enters
  <1> QED BY <1>1, <1>2, <1>3, <1>4, BearsNext DEF Twice

LEMMA LinkBears == ASSUME Before, LinkCluster PROVE Bears
  <1>1. op \in Call /\ op.step = "link" /\ op.new \in Clusters
    BY DEF LinkCluster, Before, TypeInv, TypeOK, CallOK
  <1> DEFINE n == IF op.kind = "write"
                  THEN GrowOrWrite([op EXCEPT !.last = op.new, !.need = @ - 1])
                  ELSE [op EXCEPT !.slot = [cluster |-> op.new, slot |-> 0], !.step = "entry"]
  <1>2. Proceed(n)
    BY DEF LinkCluster
  <1>3. n \in Call
    <2>1. CASE op.kind = "write"
      <3>1. op.need > 0
        BY <1>1, <2>1 DEF Before, TypeInv, CallOK
      <3>2. [op EXCEPT !.last = op.new, !.need = @ - 1] \in Call
        <4>1. op.need - 1 \in Nat
          BY <1>1, <3>1 DEF Call
        <4> QED BY <1>1, <4>1 DEF Call
      <3> DEFINE m == [op EXCEPT !.last = op.new, !.need = @ - 1]
      <3>3. m.kind = "write" /\ m \in Call
        BY <1>1, <2>1, <3>2 DEF Call
      <3> HIDE DEF m
      <3>4. GrowOrWrite(m) \in Call
        BY <3>3, GrowOrWriteType
      <3> QED BY <2>1, <3>4 DEF m
    <2>2. CASE op.kind # "write"
      BY <1>1, <2>2, SlotNumbers DEF Call, Location
    <2> QED BY <2>1, <2>2
  <1>4. /\ n.kind = op.kind /\ n.at = op.at /\ n.entry = op.entry
        /\ op.kind = "rename" => n.step = "entry"
    <2>1. CASE op.kind = "write"
      BY <1>1, <2>1 DEF Call, GrowOrWrite, DataOrUpdate
    <2>2. CASE op.kind # "write"
      BY <1>1, <2>2 DEF Call
    <2> QED BY <2>1, <2>2
  <1> HIDE DEF n
  <1>5. Enters(n) => Enters(op)
    BY <1>1, <1>4 DEF Enters
  <1> QED BY <1>1, <1>2, <1>3, <1>4, <1>5, BearsNext DEF Twice

LEMMA DotsBears == ASSUME Before, WriteDots PROVE Bears
  <1>1. op \in Call /\ op.step = "dots"
    BY BeforeDisk DEF WriteDots
  <1> DEFINE n == [op EXCEPT !.step = IF op.kind = "rename" THEN "unlink" ELSE "slot"]
  <1>2. Proceed(n)
    BY DEF WriteDots
  <1>3. /\ n \in Call /\ n.kind = op.kind /\ n.at = op.at /\ n.entry = op.entry /\ n.slot = op.slot
        /\ n.step = IF op.kind = "rename" THEN "unlink" ELSE "slot"
    BY <1>1 DEF Call
  <1> HIDE DEF n
  <1>4. Enters(n) => Enters(op)
    BY <1>1, <1>3 DEF Enters
  <1> QED BY <1>1, <1>2, <1>3, <1>4, BearsNext DEF Twice

(* A write only moves on from chain to data to entry.                      *)
LEMMA DataBears ==
  ASSUME Before, op.kind = "write", NEW m \in Call, m.kind = op.kind, m.at = op.at, m.entry = op.entry,
         Proceed(DataOrUpdate(m))
  PROVE  Bears
  <1> DEFINE n == DataOrUpdate(m)
  <1>1. n \in Call /\ n.kind = op.kind /\ n.at = op.at /\ n.entry = op.entry
    BY DataOrUpdateType, DataIs
  <1>2. ~Enters(n)
    BY <1>1 DEF Enters
  <1>3. Proceed(n)
    OBVIOUS
  <1> HIDE DEF n
  <1> QED BY <1>1, <1>2, <1>3, BearsNext

LEMMA CutBears == ASSUME Before, CutChain PROVE Bears
  <1>1. op \in Call /\ op.step = "cut" /\ op.kind = "write"
    <2>1. op \in Call /\ StepOK(op)
      BY BeforeDisk
    <2>2. op.step = "cut"
      BY DEF CutChain
    <2>3. op.kind \in Operations \cup {"none"}
      BY <2>1 DEF Call
    <2> QED BY <2>1, <2>2, <2>3 DEF StepOK
  <1>2. \/ Fail
        \/ \E tail \in Clusters : Proceed([op EXCEPT !.cur = tail, !.step = "free"])
        \/ Proceed(DataOrUpdate(op))
        \/ Recover
    BY Zenon DEF CutChain
  <1>3. CASE Fail \/ Recover
    BY <1>1, <1>3, BearsRecover DEF Fail
  <1>4. CASE Proceed(DataOrUpdate(op))
    BY <1>1, <1>4, DataBears
  <1>5. ASSUME NEW tail \in Clusters, Proceed([op EXCEPT !.cur = tail, !.step = "free"])
        PROVE  Bears
    <2> DEFINE n == [op EXCEPT !.cur = tail, !.step = "free"]
    <2>1. n \in Call /\ n.kind = op.kind /\ n.at = op.at /\ n.entry = op.entry
      BY <1>1 DEF Call
    <2>2. ~Enters(n) /\ Proceed(n)
      BY <1>1, <1>5, <2>1 DEF Enters
    <2> HIDE DEF n
    <2> QED BY <1>1, <2>1, <2>2, BearsNext
  <1> QED BY <1>2, <1>3, <1>4, <1>5

LEMMA FreeBears == ASSUME Before, FreeCluster PROVE Bears
  <1>1. op \in Call /\ op.step = "free" /\ op.kind \in {"create_directory", "write", "remove"}
    <2>1. op \in Call /\ StepOK(op)
      BY BeforeDisk
    <2>2. op.step = "free"
      BY DEF FreeCluster
    <2>3. op.kind \in Operations \cup {"none"}
      BY <2>1 DEF Call
    <2> QED BY <2>1, <2>2, <2>3 DEF StepOK
  <1>2. \/ fat[op.cur] \in Clusters /\ Proceed([op EXCEPT !.cur = fat[op.cur]])
        \/ op.kind = "remove" /\ Proceed([op EXCEPT !.step = "unlink"])
        \/ op.kind = "write" /\ Proceed(DataOrUpdate(op))
        \/ Finish("error")
        \/ Recover
    BY Zenon DEF FreeCluster, WriteFails
  <1>3. CASE Finish("error") \/ Recover
    BY <1>1, <1>3, BearsRecover, BearsOver DEF Finish
  <1>4. CASE op.kind = "write" /\ Proceed(DataOrUpdate(op))
    BY <1>1, <1>4, DataBears
  <1>5. CASE fat[op.cur] \in Clusters /\ Proceed([op EXCEPT !.cur = fat[op.cur]])
    <2> DEFINE n == [op EXCEPT !.cur = fat[op.cur]]
    <2>1. n \in Call /\ n.kind = op.kind /\ n.at = op.at /\ n.entry = op.entry /\ n.step = op.step
      BY <1>1, <1>5 DEF Call
    <2>2. (Enters(n) => Enters(op)) /\ Proceed(n)
      BY <1>1, <1>5, <2>1 DEF Enters
    <2> HIDE DEF n
    <2> QED BY <1>1, <2>1, <2>2, BearsNext
  <1>6. CASE op.kind = "remove" /\ Proceed([op EXCEPT !.step = "unlink"])
    <2> DEFINE n == [op EXCEPT !.step = "unlink"]
    <2>1. n \in Call /\ n.kind = op.kind /\ n.at = op.at /\ n.entry = op.entry
      BY <1>1 DEF Call
    <2>2. ~Enters(n) /\ Proceed(n)
      BY <1>6, <2>1 DEF Enters
    <2> HIDE DEF n
    <2> QED BY <1>6, <2>1, <2>2, BearsNext
  <1> QED BY <1>2, <1>3, <1>4, <1>5, <1>6

LEMMA WriteDataBears == ASSUME Before, WriteData PROVE Bears
  <1>1. op \in Call /\ op.step = "data" /\ op.kind = "write"
    <2>1. op \in Call /\ StepOK(op)
      BY BeforeDisk
    <2>2. op.step = "data"
      BY DEF WriteData
    <2>3. op.kind \in Operations \cup {"none"}
      BY <2>1 DEF Call
    <2> QED BY <2>1, <2>2, <2>3 DEF StepOK
  <1>2. Fail \/ Proceed(DataOrUpdate([op EXCEPT !.pos = @ + 1]))
    BY Zenon DEF WriteData
  <1>3. CASE Fail
    BY <1>1, <1>3, BearsRecover DEF Fail
  <1>4. CASE Proceed(DataOrUpdate([op EXCEPT !.pos = @ + 1]))
    <2> DEFINE m == [op EXCEPT !.pos = @ + 1]
    <2>1. m \in Call /\ m.kind = op.kind /\ m.at = op.at /\ m.entry = op.entry
      BY <1>1 DEF Call
    <2>2. Proceed(DataOrUpdate(m))
      BY <1>4
    <2> HIDE DEF m
    <2> QED BY <1>1, <2>1, <2>2, DataBears
  <1> QED BY <1>2, <1>3, <1>4

LEMMA OtherBears ==
  ASSUME Before, DiskFull \/ UpdateEntry \/ WriteLost \/ PowerLoss
  PROVE  Bears
  <1>1. op \in Call /\ StepOK(op) /\ ~damaged'
    BY BeforeDisk DEF Before
  <1>2. CASE DiskFull
    BY <1>1, <1>2, BearsRecover DEF DiskFull, Fail
  <1>3. CASE UpdateEntry
    <2>1. op' = Idle \/ Recover
      BY <1>3 DEF UpdateEntry, Complete, Finish, WriteFails
    <2>2. op.step = "update" /\ op.kind \in Operations \cup {"none"}
      BY <1>1, <1>3 DEF UpdateEntry, Call
    <2>3. op.kind = "write"
      BY <1>1, <2>2 DEF StepOK
    <2> QED BY <2>1, <2>3, BearsRecover, BearsOver
  <1>4. CASE WriteLost
    <2>1. Recover /\ ~WriteWindow(FALSE)
      BY <1>4, WriteFailsSafe DEF WriteLost
    <2>2. ~(op.kind = "rename" /\ op.step \in {"unlink", "undo"})
      BY <2>1 DEF WriteWindow
    <2> QED BY <2>1, <2>2, BearsRecover
  <1>5. CASE PowerLoss
    <2>1. op' = Idle /\ ~PowerWindow
      BY <1>1, <1>5 DEF PowerLoss, Finish, Strike
    <2> QED BY <2>1, BearsOver DEF PowerWindow, TwiceNamed, Twice
  <1> QED BY <1>2, <1>3, <1>4, <1>5

-----------------------------------------------------------------------------
(* What becomes of the tree when some entries go and some come.            *)
LEMMA TwigsAtAre ==
  /\ \A L, t : t \in TwigsAt(L) <=> \E l \in L : \E d \in DirectoryHeads : Within(l, d) /\ t = TwigOf(l, d)
  /\ \A L, t : t \in TwigsAt(L)' <=>
                 \E l \in L : \E d \in DirectoryHeads' : Within(l, d)' /\ t = TwigOf(l, d)'
  <1>1. ASSUME NEW L, NEW t
        PROVE  t \in TwigsAt(L) <=> \E l \in L : \E d \in DirectoryHeads : Within(l, d) /\ t = TwigOf(l, d)
    BY DEF TwigsAt
  <1>2. ASSUME NEW L, NEW t
        PROVE  t \in TwigsAt(L)' <=>
                 \E l \in L : \E d \in DirectoryHeads' : Within(l, d)' /\ t = TwigOf(l, d)'
    BY DEF TwigsAt
  <1> QED BY <1>1, <1>2

LEMMA TwigsOne ==
  ASSUME Trunk, NEW l \in LiveEntries, NEW d \in DirectoryHeads, Within(l, d)
  PROVE  TwigsAt({l}) = {TwigOf(l, d)}
  <1>1. \A e \in DirectoryHeads : Within(l, e) => e = d
    BY SeenFacts DEF OneHome
  <1>2. \A t : t \in TwigsAt({l}) <=> t = TwigOf(l, d)
    BY <1>1, TwigsAtAre
  <1> QED BY <1>2

LEMMA TwigsOneNext ==
  ASSUME OneHome', NEW l \in LiveEntries', NEW d \in DirectoryHeads', Within(l, d)'
  PROVE  TwigsAt({l})' = {TwigOf(l, d)'}
  <1>1. \A e \in DirectoryHeads' : Within(l, e)' => e = d
    BY DEF OneHome
  <1>2. \A t : t \in TwigsAt({l})' <=> t = TwigOf(l, d)'
    BY <1>1, TwigsAtAre
  <1> QED BY <1>2

Rests(l) == /\ \A d : TwigOf(l, d)' = TwigOf(l, d)
            /\ \A d \in DirectoryHeads : Within(l, d) => d \in DirectoryHeads' /\ Within(l, d)'
            /\ \A d \in DirectoryHeads' : Within(l, d)' => d \in DirectoryHeads /\ Within(l, d)

LEMMA TwigsTurn ==
  ASSUME Trunk, NEW A \in SUBSET Seen, NEW B, Seen' = (Seen \ A) \cup B, \A l \in Seen \ A : Rests(l)
  PROVE  Twigs' = (Twigs \ TwigsAt(A)) \cup TwigsAt(B)'
  <1>1. ASSUME NEW t \in Twigs', t \notin TwigsAt(B)'
        PROVE  t \in Twigs /\ t \notin TwigsAt(A)
    <2>1. PICK l \in Seen' : \E d \in DirectoryHeads' : Within(l, d)' /\ t = TwigOf(l, d)'
      BY TwigsAre
    <2>2. PICK d \in DirectoryHeads' : Within(l, d)' /\ t = TwigOf(l, d)'
      BY <2>1
    <2>3. l \in Seen \ A
      BY <1>1, <2>2, TwigsAtAre
    <2>4. d \in DirectoryHeads /\ Within(l, d) /\ t = TwigOf(l, d)
      BY <2>2, <2>3 DEF Rests
    <2>5. t \in Twigs
      BY <2>3, <2>4, TwigsAre
    <2>6. ASSUME t \in TwigsAt(A)
          PROVE  FALSE
      <3>1. PICK m \in A : \E e \in DirectoryHeads : Within(m, e) /\ t = TwigOf(m, e)
        BY <2>6, TwigsAtAre
      <3>2. PICK e \in DirectoryHeads : Within(m, e) /\ t = TwigOf(m, e)
        BY <3>1
      <3>3. l \in LiveEntries /\ m \in LiveEntries /\ l # m
        BY <2>3, SeenFacts
      <3>4. d = e /\ EntryAt(l).name = EntryAt(m).name
        BY <2>4, <3>2 DEF TwigOf
      <3> QED BY <2>4, <3>2, <3>3, <3>4 DEF Trunk, NamesApart
    <2> QED BY <2>5, <2>6
  <1>2. ASSUME NEW t \in Twigs, t \notin TwigsAt(A)
        PROVE  t \in Twigs'
    <2>1. PICK l \in Seen : \E d \in DirectoryHeads : Within(l, d) /\ t = TwigOf(l, d)
      BY TwigsAre
    <2>2. PICK d \in DirectoryHeads : Within(l, d) /\ t = TwigOf(l, d)
      BY <2>1
    <2>3. l \in Seen \ A /\ l \in Seen'
      BY <1>2, <2>2, TwigsAtAre
    <2>4. d \in DirectoryHeads' /\ Within(l, d)' /\ t = TwigOf(l, d)'
      BY <2>2, <2>3 DEF Rests
    <2> QED BY <2>3, <2>4, TwigsAre
  <1>3. ASSUME NEW t \in TwigsAt(B)'
        PROVE  t \in Twigs'
    <2>1. PICK l \in B : \E d \in DirectoryHeads' : Within(l, d)' /\ t = TwigOf(l, d)'
      BY TwigsAtAre
    <2>2. l \in Seen'
      OBVIOUS
    <2> QED BY <2>1, <2>2, TwigsAre
  <1> QED BY <1>1, <1>2, <1>3

LEMMA TwigSame ==
  ASSUME NEW l, EntryAt(l)' = EntryAt(l)
  PROVE  \A d : TwigOf(l, d)' = TwigOf(l, d)
  BY DEF TwigOf, FirstOf

LEMMA TwigsStay ==
  ASSUME Trunk, OneHome', Placed, [Next]_vars, EntriesStay, Unseen(op)' = Unseen(op)
  PROVE  Twigs' = Twigs /\ Seen' = Seen /\ \A l \in Seen : Rests(l)
  <1>1. LiveEntries' = LiveEntries /\ DirectoryHeads' = DirectoryHeads /\ Seen' = Seen
    BY StayHeads DEF EntriesStay, Seen
  <1>2. ASSUME NEW l \in Seen
        PROVE  Rests(l)
    <2>1. l \in LiveEntries /\ l \in LiveEntries' /\ EntryAt(l)' = EntryAt(l)
      BY <1>1, SeenFacts DEF EntriesStay
    <2>2. \A d : TwigOf(l, d)' = TwigOf(l, d)
      BY <2>1, TwigSame
    <2>3. ASSUME NEW d \in DirectoryHeads, Within(l, d)
          PROVE  d \in DirectoryHeads' /\ Within(l, d)'
      BY <1>1, <2>1, <2>3, WithinKept
    <2>4. ASSUME NEW d \in DirectoryHeads', Within(l, d)'
          PROVE  d \in DirectoryHeads /\ Within(l, d)
      <3>1. PICK e \in DirectoryHeads : Within(l, e)
        BY <2>1 DEF Trunk, EntriesListed
      <3>2. e \in DirectoryHeads' /\ Within(l, e)'
        BY <2>3, <3>1
      <3>3. e = d
        BY <2>1, <2>4, <3>2 DEF OneHome
      <3> QED BY <3>1, <3>3
    <2> QED BY <2>2, <2>3, <2>4 DEF Rests
  <1>3. Twigs' = (Twigs \ TwigsAt({})) \cup TwigsAt({})'
    <2>1. {} \in SUBSET Seen /\ Seen' = (Seen \ {}) \cup {} /\ \A l \in Seen \ {} : Rests(l)
      BY <1>1, <1>2
    <2> QED BY ONLY Trunk, <2>1, TwigsTurn
  <1>4. TwigsAt({}) = {} /\ TwigsAt({})' = {}
    <2>1. \A t : t \notin TwigsAt({}) /\ t \notin TwigsAt({})'
      BY TwigsAtAre
    <2> QED BY <2>1
  <1> QED BY <1>1, <1>2, <1>3, <1>4

-----------------------------------------------------------------------------
(* Every entry has a name, and the size its operation says.                *)
LEMMA CalledOver ==
  ASSUME op' = Idle, \A l \in LiveEntries' : EntryAt(l)'.name \in Names
  PROVE  Called(op)' /\ Unseen(op)' = {}
  <1>1. ~Enters(op)' /\ op'.kind = "none" /\ Unseen(op)' = {}
    BY DEF Enters, Idle, Unseen
  <1> QED BY <1>1 DEF Called

LEMMA CalledOn ==
  ASSUME Placed, Called(op), EntriesStay, Bears
  PROVE  Called(op)'
  <1>1. \A l \in LiveEntries' : EntryAt(l)'.name \in Names
    BY DEF EntriesStay, Called
  <1>2. CASE op' = Idle
    BY <1>1, <1>2, CalledOver
  <1>3. CASE op'.kind = op.kind /\ op'.at = op.at /\ op'.entry.name = op.entry.name
             /\ op'.entry.size = op.entry.size /\ (Enters(op)' => Enters(op))
    <2>1. PICK a : a = op.at /\ a = op'.at
      BY <1>3
    <2>2. EntryAt(op.at)' = EntryAt(a)'
      BY <2>1 DEF EntryAt
    <2>3. ASSUME op.kind = "write"
          PROVE  EntryAt(a)' = EntryAt(op.at)
      <3>1. a \in LiveEntries
        BY <2>1, <2>3, PlacedFacts DEF WriteRight, LiveOf
      <3> QED BY <2>1, <3>1 DEF EntriesStay
    <2> QED BY <1>1, <1>3, <2>1, <2>2, <2>3 DEF Called
  <1> QED BY <1>2, <1>3 DEF Bears

LEMMA UpdateCalled ==
  ASSUME Placed, Called(op), UpdateEntry
  PROVE  Called(op)' /\ Unseen(op)' = Unseen(op) /\ op' = Idle
  <1>1. op \in Call /\ Disk /\ op.step = "update" /\ StepOK(op)
    BY PlacedFacts DEF UpdateEntry
  <1>2. op.kind = "write"
    <2>1. op.kind \in Operations \cup {"none"}
      BY <1>1 DEF Call
    <2> QED BY <1>1, <2>1 DEF StepOK
  <1>3. op' = Idle
    BY <1>1, <1>2, CompleteOver DEF UpdateEntry
  <1>4. op.at \in LiveEntries /\ op.at \in Location /\ op.entry \in Entry /\ op.entry.name = EntryAt(op.at).name
    BY <1>1, <1>2, PlacedFacts DEF WriteRight, LiveOf, Call
  <1>5. PICK loc, e : /\ loc = op.at /\ e = [op.entry EXCEPT !.first = op.first] /\ PutEntry(loc, e)
                      /\ e.name = op.entry.name
    BY <1>4 DEF UpdateEntry, Entry
  <1>6. ASSUME NEW l \in LiveEntries'
        PROVE  EntryAt(l)'.name \in Names
    <2>1. l \in Location /\ (l = loc \/ l \in LiveEntries) /\ EntryAt(l)' = IF l = loc THEN e ELSE EntryAt(l)
      BY <1>1, <1>4, <1>5, SlotPut
    <2> QED BY <1>4, <1>5, <2>1 DEF Called
  <1>7. Unseen(op) = {}
    BY <1>2 DEF Unseen
  <1> QED BY <1>3, <1>6, <1>7, CalledOver

LEMMA DropCalled ==
  ASSUME Placed, Called(op), UnlinkEntry \/ UndoEntry
  PROVE  Called(op)' /\ op' = Idle /\ Unseen(op)' = {}
  <1>1. op \in Call /\ Disk /\ op.step \in {"unlink", "undo"} /\ StepOK(op)
    BY PlacedFacts DEF UnlinkEntry, UndoEntry
  <1>2. op.kind \in {"rename", "remove"}
    <2>1. op.kind \in Operations \cup {"none"}
      BY <1>1 DEF Call
    <2> QED BY <1>1, <2>1 DEF StepOK
  <1>3. op' = Idle
    <2>1. Complete \/ Recover \/ op' = Idle
      BY DEF UnlinkEntry, UndoEntry, Finish, WriteFails
    <2> QED BY <1>1, <1>2, <2>1, CompleteOver
  <1>4. PICK loc \in Location : PutEntry(loc, Mark("deleted"))
    BY <1>1 DEF UnlinkEntry, UndoEntry, Call
  <1>5. EntriesShrink
    BY <1>1, <1>4, PutShrinks DEF Live
  <1>6. ASSUME NEW l \in LiveEntries'
        PROVE  EntryAt(l)'.name \in Names
    BY <1>5, EntryMapped DEF Called
  <1> QED BY <1>3, <1>6, CalledOver

LEMMA EntryCalled ==
  ASSUME Placed, Called(op), WriteEntry
  PROVE  Called(op)'
  <1>1. PICK o \in Call : o = op
    BY PlacedFacts
  <1>2. /\ o.step = "entry" /\ o.kind \in {"create_file", "create_directory", "rename"}
        /\ \A l \in Location : l # o.slot => EntryAt(l)' = EntryAt(l)
        /\ EntryAt(o.slot)' = o.entry
        /\ \A l \in LiveEntries' : l \in Location /\ (l = o.slot \/ l \in LiveEntries)
    BY <1>1, EntryEffect
  <1>3. o.entry.name \in Names
    BY <1>1, <1>2 DEF Called, Enters
  <1>4. \A l \in LiveEntries' : EntryAt(l)'.name \in Names
    <2> SUFFICES ASSUME NEW l \in LiveEntries'
                 PROVE  EntryAt(l)'.name \in Names
      OBVIOUS
    <2>1. CASE l = o.slot
      BY <1>2, <1>3, <2>1
    <2>2. CASE l # o.slot
      BY <1>2, <2>2 DEF Called
    <2> QED BY <2>1, <2>2
  <1>5. CASE o.kind = "rename" /\ o.slot # o.at
    <2>1. op' = [o EXCEPT !.step = IF o.entry.kind = "dir" THEN "dots" ELSE "unlink"]
      BY <1>1, <1>5, EntryEffect
    <2>2. op'.kind = "rename" /\ op'.step \in {"dots", "unlink"}
      BY <1>5, <2>1 DEF Call
    <2>3. ~Enters(op)'
      BY <2>2 DEF Enters
    <2> QED BY <1>4, <2>2, <2>3 DEF Called
  <1>6. CASE ~(o.kind = "rename" /\ o.slot # o.at)
    <2>1. op' = Idle
      <3>1. CASE o.kind = "create_directory"
        BY <1>1, <3>1, EntryEffect
      <3>2. CASE o.kind # "create_directory"
        <4>1. Complete
          BY <1>1, <1>6, EntryEffect
        <4> QED BY <1>1, <1>2, <3>2, <4>1, CompleteOver
      <3> QED BY <3>1, <3>2
    <2> QED BY <1>4, <2>1, CalledOver
  <1> QED BY <1>5, <1>6

LEMMA RequestCalled ==
  ASSUME Placed, Called(op), Request
  PROVE  Called(op)' /\ Unseen(op)' = Unseen(op) /\ EntriesStay
  <1>1. PICK path \in Paths :
          \/ fat32_create_file(path)
          \/ fat32_create_directory(path)
          \/ \E offset \in Offsets, length \in Lengths : fat32_write(path, offset, length)
          \/ \E new_path \in Paths : fat32_rename(path, new_path)
          \/ fat32_remove(path)
    BY DEF Request
  <1>2. /\ op.step = "idle" /\ UNCHANGED <<fat, slots>> /\ TypeInv /\ NoCycle /\ Disk
    BY <1>1, PlacedFacts DEF fat32_create_file, fat32_create_directory, fat32_write, fat32_rename,
       fat32_remove, Ready, Placed, Before
  <1>3. EntriesStay /\ Unseen(op) = {}
    BY <1>2, UnchangedKeeps DEF Unseen
  <1>4. \A l \in LiveEntries' : EntryAt(l)'.name \in Names
    BY <1>3 DEF EntriesStay, Called
  <1>5. PICK n : n = op'
    OBVIOUS
  <1>6. Idle \in Call
    BY IdleType
  <1>7. CASE op' = Idle
    BY <1>3, <1>4, <1>7, CalledOver
  <1> DEFINE Fits == /\ Enters(n) => n.entry.name \in Names
                     /\ n.kind = "create_directory" => n.entry.size = 0
                     /\ n.kind = "write" => EntryAt(n.at)'.size <= n.entry.size
                     /\ n.kind = "rename" => n.step \notin Twice
  <1>8. ASSUME Fits
        PROVE  Called(op)' /\ Unseen(op)' = Unseen(op)
    <2>1. (Enters(op)' <=> Enters(n)) /\ EntryAt(op.at)' = EntryAt(n.at)'
      BY <1>5 DEF Enters, EntryAt
    <2>2. Unseen(op)' = {}
      BY <1>5, <1>8 DEF Unseen, Twice
    <2> QED BY <1>3, <1>4, <1>5, <1>8, <2>1, <2>2 DEF Called
  <1>9. ASSUME fat32_create_file(path), op' # Idle
        PROVE  Fits
    <2>1. PICK dir :
            n = [Idle EXCEPT !.kind = "create_file", !.step = "slot", !.dir = dir,
                   !.entry = fat32_build_entry("file", NameOf(path), Free, 0)]
      BY <1>5, <1>9 DEF fat32_create_file, Refuse, Finish, Begin
    <2>2. n.kind = "create_file" /\ n.entry.name = NameOf(path)
      BY <1>6, <2>1 DEF Call, fat32_build_entry
    <2> QED BY <2>2, NameType
  <1>10. ASSUME fat32_create_directory(path), op' # Idle
         PROVE  Fits
    <2>1. PICK dir :
            n = [Idle EXCEPT !.kind = "create_directory", !.step = "mark", !.dir = dir,
                   !.entry = fat32_build_entry("dir", NameOf(path), Free, 0)]
      BY <1>5, <1>10 DEF fat32_create_directory, Refuse, Finish, Begin
    <2>2. n.kind = "create_directory" /\ n.entry.name = NameOf(path) /\ n.entry.size = 0
      BY <1>6, <2>1 DEF Call, fat32_build_entry
    <2> QED BY <2>2, NameType
  <1>11. ASSUME fat32_remove(path), op' # Idle
         PROVE  Fits
    <2>1. PICK loc \in Lookup(path) :
            n = [Idle EXCEPT !.kind = "remove", !.at = loc,
                   !.first = EntryAt(loc).first, !.cur = EntryAt(loc).first,
                   !.step = IF EntryAt(loc).first = Free THEN "unlink" ELSE "free"]
      BY <1>5, <1>11 DEF fat32_remove, Refuse, Finish, Begin
    <2>2. n.kind = "remove"
      BY <1>6, <2>1 DEF Call
    <2> QED BY <2>2 DEF Enters
  <1>12. ASSUME NEW new_path \in Paths, fat32_rename(path, new_path), op' # Idle
         PROVE  Fits
    <2>1. PICK loc \in Lookup(path) : n = RenameCall(loc, ParentOf(path), ParentOf(new_path), NameOf(new_path))
      BY <1>5, <1>12 DEF fat32_rename, Refuse, Finish, Begin
    <2>2. EntryAt(loc) \in Entry
      BY <1>2, LookupPlaced, FirstType
    <2>3. PICK name : name = NameOf(new_path) /\ name \in Names
      BY NameType
    <2>4. n.kind = "rename" /\ n.step \in {"entry", "slot"} /\ n.entry = [EntryAt(loc) EXCEPT !.name = name]
      BY <1>6, <2>1, <2>3 DEF RenameCall, Call
    <2>5. n.entry.name = name
      BY <2>2, <2>4 DEF Entry
    <2> QED BY <2>3, <2>4, <2>5 DEF Twice
  <1>13. ASSUME NEW offset \in Offsets, NEW length \in Lengths,
                fat32_write(path, offset, length), op' # Idle
         PROVE  Fits
    <2>1. PICK loc \in Lookup(path) :
            /\ offset + length < Word /\ ChainEnds(EntryAt(loc).first)
            /\ n = Resize(WriteCall(loc, EntryAt(loc), offset, length))
      BY <1>2, <1>5, <1>13 DEF fat32_write, Refuse, Finish, Begin
    <2>2. loc \in Location /\ EntryAt(loc) \in Entry
      BY <1>2, LookupPlaced, FirstType
    <2> DEFINE call == WriteCall(loc, EntryAt(loc), offset, length)
               size == NewSize(EntryAt(loc), offset, length)
               old  == EntryAt(loc).size
    <2>3. /\ call \in Call /\ call.kind = "write" /\ call.at = loc /\ call.first = EntryAt(loc).first
          /\ call.entry.size = size
      <3>1. /\ TypeInv /\ loc \in Location /\ EntryAt(loc) \in Entry
            /\ offset \in Offsets /\ length \in Lengths /\ offset + length < Word
        BY <1>2, <2>1, <2>2
      <3>2. /\ call \in Call /\ call.kind = "write" /\ call.at = loc /\ call.first = EntryAt(loc).first
            /\ call.entry.size = size
            /\ call.entry = [EntryAt(loc) EXCEPT !.size = size]
            /\ call.step = "idle"
        BY ONLY <3>1, WriteCallFields
      <3> QED BY <3>2
    <2>4. old <= size
      <3>1. size >= old /\ size \in Nat /\ old \in Nat
        BY <2>2, NewSizeGrows
      <3> HIDE DEF size, old
      <3> QED BY <3>1
    <2>5. ChainEnds(call.first) /\ n = Resize(call)
      BY <2>1, <2>3
    <2> HIDE DEF call, size
    <2>6. PICK R : R = RequiredClusters(call.entry.size)
      OBVIOUS
    <2>7. n.kind = "write" /\ n.at = call.at /\ n.entry = call.entry
      <3>1. NoCycle /\ call \in Call /\ call.kind = "write" /\ ChainEnds(call.first) /\ n = Resize(call)
        BY <1>2, <2>3, <2>5
      <3> QED BY ONLY <2>6, <3>1, ResizeGrowth
    <2>8. EntryAt(n.at)' = EntryAt(loc)
      <3>1. n.at = loc
        BY <2>3, <2>7
      <3> QED BY <1>2, <3>1 DEF EntryAt
    <2> QED BY <2>3, <2>4, <2>7, <2>8 DEF Enters
  <1> HIDE DEF Fits
  <1> QED BY <1>1, <1>3, <1>7, <1>8, <1>9, <1>10, <1>11, <1>12, <1>13

(* The steps that leave every entry as it is.                              *)
Spares == \/ FindSlot \/ DiskFull \/ MarkCluster \/ ZeroCluster \/ LinkCluster \/ WriteDots
         \/ CutChain \/ FreeCluster \/ WriteData \/ WriteLost \/ PowerLoss \/ UNCHANGED vars

LEMMA SparesStep ==
  ASSUME Placed, Called(op), Spares
  PROVE  EntriesStay /\ Unseen(op)' = Unseen(op) /\ Called(op)' /\ Bears
  <1>1. EntriesStay
    <2>1. CASE FindSlot \/ DiskFull \/ WriteLost \/ PowerLoss \/ UNCHANGED vars
      <3>1. UNCHANGED <<fat, slots>>
        BY <2>1 DEF FindSlot, DiskFull, WriteLost, PowerLoss, vars, Fail
      <3> QED BY <3>1, UnchangedKeeps
    <2>2. CASE ~(FindSlot \/ DiskFull \/ WriteLost \/ PowerLoss \/ UNCHANGED vars)
      BY <2>2, MarkKeeps, ZeroKeeps, LinkKeeps, DotsKeep, CutKeeps, FreeKeeps, WriteDataKeeps DEF Spares
    <2> QED BY <2>1, <2>2
  <1>2. Bears
    <2>1. CASE UNCHANGED vars
      <3>1. op' = op
        BY <2>1 DEF vars
      <3> QED BY <3>1, BearsOn
    <2>2. CASE ~UNCHANGED vars
      <3>1. Before
        BY DEF Placed
      <3> QED BY <2>2, <3>1, FindSlotBears, MarkBears, ZeroBears, LinkBears, DotsBears, CutBears, FreeBears,
                 WriteDataBears, OtherBears DEF Spares
    <2> QED BY <2>1, <2>2
  <1>3. Unseen(op)' = Unseen(op)
    BY <1>2 DEF Bears
  <1> QED BY <1>1, <1>2, <1>3, CalledOn

(* Such a step goes on with the call in progress, or ends it with an error.*)
Continues == \/ op' = Idle /\ ret' # "ok"
             \/ op'.step # "idle" /\ op'.kind = op.kind /\ op'.dir = op.dir

LEMMA OnwardIs ==
  ASSUME NEW o \in Call
  PROVE  /\ DataOrUpdate(o).kind = o.kind /\ DataOrUpdate(o).dir = o.dir /\ DataOrUpdate(o).step # "idle"
         /\ GrowOrWrite(o).kind = o.kind /\ GrowOrWrite(o).dir = o.dir /\ GrowOrWrite(o).step # "idle"
  <1>1. /\ DataOrUpdate(o).kind = o.kind /\ DataOrUpdate(o).dir = o.dir
        /\ DataOrUpdate(o).step = IF o.pos < o.lim THEN "data" ELSE "update"
    BY DEF DataOrUpdate, Call
  <1>2. CASE o.need > 0
    <2>1. GrowOrWrite(o) = [o EXCEPT !.step = "mark"]
      BY <1>2 DEF GrowOrWrite
    <2> QED BY <1>1, <2>1 DEF Call
  <1>3. CASE ~(o.need > 0)
    <2>1. GrowOrWrite(o) = DataOrUpdate(o)
      BY <1>3 DEF GrowOrWrite
    <2> QED BY <1>1, <2>1
  <1> QED BY <1>2, <1>3

LEMMA ContinuesRecover ==
  ASSUME op \in Call, Recover
  PROVE  Continues
  <1>1. CASE op' = [op EXCEPT !.step = "free", !.cur = op.first]
    BY <1>1 DEF Continues, Call
  <1>2. CASE op' = [op EXCEPT !.step = "undo"]
    BY <1>2 DEF Continues, Call
  <1>3. CASE Finish("error")
    BY <1>3 DEF Continues, Finish
  <1> QED BY <1>1, <1>2, <1>3 DEF Recover

LEMMA ContinuesOn ==
  ASSUME op \in Call, NEW n, Proceed(n), n.kind = op.kind, n.dir = op.dir, n.step # "idle"
  PROVE  Continues
  <1>1. op' = n \/ Recover
    BY DEF Proceed, WriteFails
  <1> QED BY <1>1, ContinuesRecover DEF Continues

LEMMA SparesContinue ==
  ASSUME Placed, Spares, op.step # "idle"
  PROVE  Continues
  <1>1. op \in Call /\ op.new \in Clusters \cup {Free} /\ op.need \in Nat
    BY PlacedFacts DEF Call
  <1>2. CASE UNCHANGED vars
    BY <1>2 DEF Continues, vars
  <1>3. CASE FindSlot
    <2>1. \/ \E loc : op' = [op EXCEPT !.slot = loc, !.step = "entry"]
          \/ \E last : op' = [op EXCEPT !.last = last, !.step = "mark"]
          \/ Recover
      BY <1>3 DEF FindSlot, Fail
    <2>2. ASSUME NEW loc, op' = [op EXCEPT !.slot = loc, !.step = "entry"]
          PROVE  Continues
      BY <1>1, <2>2 DEF Continues, Call
    <2>3. ASSUME NEW last, op' = [op EXCEPT !.last = last, !.step = "mark"]
          PROVE  Continues
      BY <1>1, <2>3 DEF Continues, Call
    <2> QED BY <1>1, <2>1, <2>2, <2>3, ContinuesRecover
  <1>4. CASE DiskFull \/ WriteLost
    BY <1>1, <1>4, ContinuesRecover DEF DiskFull, WriteLost, Fail, WriteFails
  <1>5. CASE PowerLoss
    BY <1>5 DEF PowerLoss, Finish, Continues
  <1>6. CASE MarkCluster
    <2>1. PICK c : Proceed([op EXCEPT !.new = c, !.step = "zero"])
      BY <1>6 DEF MarkCluster
    <2> DEFINE n == [op EXCEPT !.new = c, !.step = "zero"]
    <2>2. n.kind = op.kind /\ n.dir = op.dir /\ n.step # "idle" /\ Proceed(n)
      BY <1>1, <2>1 DEF Call
    <2> HIDE DEF n
    <2> QED BY <1>1, <2>2, ContinuesOn
  <1>7. CASE ZeroCluster
    <2> DEFINE n == Allocated
    <2>1. n.kind = op.kind /\ n.dir = op.dir /\ n.step # "idle"
      <3>1. CASE op.kind = "create_directory" /\ op.first = Free
        BY <1>1, <3>1 DEF Allocated, Call, Entry
      <3>2. CASE op.kind = "write" /\ op.first = Free
        <4> DEFINE m == [op EXCEPT !.first = op.new, !.last = op.new, !.need = @ - 1]
        <4>1. m \in Call /\ m.kind = op.kind /\ m.dir = op.dir
          <5>1. op.need - 1 \in Nat
            <6>1. op.need > 0
              BY <1>7, <3>2, PlacedFacts DEF CallOK, ZeroCluster
            <6> QED BY <1>1, <6>1
          <5> QED BY <1>1, <5>1 DEF Call
        <4>2. n = GrowOrWrite(m)
          BY <3>2 DEF Allocated
        <4> HIDE DEF m, n
        <4> QED BY <4>1, <4>2, OnwardIs
      <3>3. CASE ~(op.kind \in {"write", "create_directory"} /\ op.first = Free)
        BY <1>1, <3>3 DEF Allocated, Call
      <3> QED BY <3>1, <3>2, <3>3
    <2>2. Proceed(n)
      BY <1>7 DEF ZeroCluster
    <2> HIDE DEF n
    <2> QED BY <1>1, <2>1, <2>2, ContinuesOn
  <1>8. CASE LinkCluster
    <2> DEFINE n == IF op.kind = "write"
                    THEN GrowOrWrite([op EXCEPT !.last = op.new, !.need = @ - 1])
                    ELSE [op EXCEPT !.slot = [cluster |-> op.new, slot |-> 0], !.step = "entry"]
    <2>1. n.kind = op.kind /\ n.dir = op.dir /\ n.step # "idle"
      <3>1. CASE op.kind = "write"
        <4> DEFINE m == [op EXCEPT !.last = op.new, !.need = @ - 1]
        <4>1. m \in Call /\ m.kind = op.kind /\ m.dir = op.dir
          <5>1. op.need - 1 \in Nat
            <6>1. op.need > 0
              BY <1>8, <3>1, PlacedFacts DEF CallOK, LinkCluster
            <6> QED BY <1>1, <6>1
          <5> QED BY <1>1, <5>1 DEF Call
        <4>2. n = GrowOrWrite(m)
          BY <3>1
        <4> HIDE DEF m, n
        <4> QED BY <4>1, <4>2, OnwardIs
      <3>2. CASE op.kind # "write"
        BY <1>1, <3>2 DEF Call
      <3> QED BY <3>1, <3>2
    <2>2. Proceed(n)
      BY <1>8 DEF LinkCluster
    <2> HIDE DEF n
    <2> QED BY <1>1, <2>1, <2>2, ContinuesOn
  <1>9. CASE WriteDots
    <2> DEFINE n == [op EXCEPT !.step = IF op.kind = "rename" THEN "unlink" ELSE "slot"]
    <2>1. n.kind = op.kind /\ n.dir = op.dir /\ n.step = IF op.kind = "rename" THEN "unlink" ELSE "slot"
      BY <1>1 DEF Call
    <2>2. Proceed(n)
      BY <1>9 DEF WriteDots
    <2> HIDE DEF n
    <2> QED BY <1>1, <2>1, <2>2, ContinuesOn
  <1>10. ASSUME NEW m \in Call, m.kind = op.kind, m.dir = op.dir, Proceed(DataOrUpdate(m))
         PROVE  Continues
    <2> DEFINE n == DataOrUpdate(m)
    <2>1. n.kind = op.kind /\ n.dir = op.dir /\ n.step # "idle" /\ Proceed(n)
      BY <1>10, OnwardIs
    <2> HIDE DEF n
    <2> QED BY <1>1, <2>1, ContinuesOn
  <1>11. CASE CutChain
    <2>1. \/ \E tail : Proceed([op EXCEPT !.cur = tail, !.step = "free"])
          \/ Proceed(DataOrUpdate(op))
          \/ Recover
      BY <1>11, Zenon DEF CutChain, Fail
    <2>2. ASSUME NEW tail, Proceed([op EXCEPT !.cur = tail, !.step = "free"])
          PROVE  Continues
      <3> DEFINE n == [op EXCEPT !.cur = tail, !.step = "free"]
      <3>1. n.kind = op.kind /\ n.dir = op.dir /\ n.step # "idle" /\ Proceed(n)
        BY <1>1, <2>2 DEF Call
      <3> HIDE DEF n
      <3> QED BY <1>1, <3>1, ContinuesOn
    <2> QED BY <1>1, <1>10, <2>1, <2>2, ContinuesRecover
  <1>12. CASE FreeCluster
    <2>1. \/ Proceed([op EXCEPT !.cur = fat[op.cur]])
          \/ Proceed([op EXCEPT !.step = "unlink"])
          \/ Proceed(DataOrUpdate(op))
          \/ Finish("error")
          \/ Recover
      BY <1>12, Zenon DEF FreeCluster, WriteFails
    <2>2. CASE Proceed([op EXCEPT !.cur = fat[op.cur]])
      <3> DEFINE n == [op EXCEPT !.cur = fat[op.cur]]
      <3>1. n.kind = op.kind /\ n.dir = op.dir /\ n.step # "idle" /\ Proceed(n)
        BY <1>1, <2>2 DEF Call
      <3> HIDE DEF n
      <3> QED BY <1>1, <3>1, ContinuesOn
    <2>3. CASE Proceed([op EXCEPT !.step = "unlink"])
      <3> DEFINE n == [op EXCEPT !.step = "unlink"]
      <3>1. n.kind = op.kind /\ n.dir = op.dir /\ n.step # "idle" /\ Proceed(n)
        BY <1>1, <2>3 DEF Call
      <3> HIDE DEF n
      <3> QED BY <1>1, <3>1, ContinuesOn
    <2>4. CASE Finish("error")
      BY <2>4 DEF Finish, Continues
    <2> QED BY <1>1, <1>10, <2>1, <2>2, <2>3, <2>4, ContinuesRecover
  <1>13. CASE WriteData
    <2>1. Recover \/ Proceed(DataOrUpdate([op EXCEPT !.pos = @ + 1]))
      BY <1>13, Zenon DEF WriteData, Fail
    <2>2. CASE Proceed(DataOrUpdate([op EXCEPT !.pos = @ + 1]))
      <3> DEFINE m == [op EXCEPT !.pos = @ + 1]
      <3>1. m \in Call /\ m.kind = op.kind /\ m.dir = op.dir /\ Proceed(DataOrUpdate(m))
        BY <1>1, <2>2 DEF Call
      <3> HIDE DEF m
      <3> QED BY <1>10, <3>1
    <2> QED BY <1>1, <2>1, <2>2, ContinuesRecover
  <1> QED BY <1>2, <1>3, <1>4, <1>5, <1>6, <1>7, <1>8, <1>9, <1>11, <1>12, <1>13 DEF Spares

LEMMA NextCases ==
  ASSUME [Next]_vars
  PROVE  Spares \/ Request \/ WriteEntry \/ UpdateEntry \/ UnlinkEntry \/ UndoEntry
  BY DEF Next, Step, Spares

LEMMA CalledStep ==
  ASSUME Placed, [Next]_vars, Called(op)
  PROVE  Called(op)'
  BY NextCases, SparesStep, RequestCalled, EntryCalled, UpdateCalled, DropCalled

LEMMA InitCalled == ASSUME Init PROVE Called(op) /\ LiveEntries = {} /\ Unseen(op) = {}
  <1>1. \A l \in Location : EntryAt(l) = Mark("end")
    BY DEF Init, EntryAt, Location
  <1>2. LiveEntries = {}
    BY <1>1 DEF LiveEntries, Live, Mark, fat32_build_entry
  <1>3. op.kind = "none" /\ ~Enters(op) /\ Unseen(op) = {}
    BY DEF Init, Idle, Enters, Unseen
  <1> QED BY <1>2, <1>3 DEF Called

-----------------------------------------------------------------------------
(* What each step makes of the tree.                                       *)
LEMMA HomeNext == ASSUME Trunk' PROVE OneHome'
  BY DEF OneHome, Trunk, Separate, Within

(* One entry is written: the others stay where they are.                   *)
LEMMA PutRests ==
  ASSUME Trunk, OneHome', UNCHANGED fat, NEW loc \in Location, NEW e, PutEntry(loc, e),
         NEW A \in SUBSET Seen, NEW B, Seen' = (Seen \ A) \cup B, loc \notin Seen \ A,
         \A l \in Seen \ A : \A d \in DirectoryHeads : Within(l, d) => d \in DirectoryHeads'
  PROVE  \A l \in Seen \ A : Rests(l)
  <1>1. ASSUME NEW l \in Seen \ A
        PROVE  Rests(l)
    <2>1. l \in LiveEntries /\ l \in Location /\ l # loc
      BY SeenFacts
    <2>2. l \in LiveEntries' /\ EntryAt(l)' = EntryAt(l)
      BY <2>1, SlotPut DEF Trunk
    <2>3. \A d : TwigOf(l, d)' = TwigOf(l, d)
      BY <2>2, TwigSame
    <2>4. \A d : Within(l, d)' <=> Within(l, d)
      BY ChainsKept
    <2>5. ASSUME NEW d \in DirectoryHeads', Within(l, d)'
          PROVE  d \in DirectoryHeads /\ Within(l, d)
      <3>1. PICK h \in DirectoryHeads : Within(l, h)
        BY <2>1 DEF Trunk, EntriesListed
      <3>2. h \in DirectoryHeads' /\ Within(l, h)'
        BY <2>4, <3>1
      <3>3. h = d
        BY <2>2, <2>5, <3>2 DEF OneHome
      <3> QED BY <3>1, <3>3
    <2> QED BY <2>3, <2>4, <2>5 DEF Rests
  <1> QED BY <1>1

LEMMA PutTurn ==
  ASSUME Trunk, OneHome', UNCHANGED fat, NEW loc \in Location, NEW e, PutEntry(loc, e),
         NEW A \in SUBSET Seen, NEW B, Seen' = (Seen \ A) \cup B, loc \notin Seen \ A,
         \A l \in Seen \ A : \A d \in DirectoryHeads : Within(l, d) => d \in DirectoryHeads'
  PROVE  Twigs' = (Twigs \ TwigsAt(A)) \cup TwigsAt(B)'
  BY PutRests, TwigsTurn

(* A new entry: a file or an empty directory.                              *)
LEMMA CreateTurns ==
  ASSUME Trunk, OneHome', Placed, WriteEntry, op.kind # "rename", op.kind = "create_file" => op.entry.size = 0,
         NEW p, Comes(Twigs, p, op.dir, op.entry.name),
         NEW kind, kind = IF op.kind = "create_file" THEN "file" ELSE "dir"
  PROVE  EnterAt(Twigs, Twigs', p, kind) /\ op' = Idle
  <1>1. PICK o \in Call : o = op
    BY PlacedFacts
  <1>2. /\ o.step = "entry" /\ o.kind \in {"create_file", "create_directory"}
        /\ o.slot \in Location /\ o.dir \in DirectoryHeads /\ Within(o.slot, o.dir)
        /\ \A l \in Location : l # o.slot => EntryAt(l)' = EntryAt(l) /\ FirstOf(l)' = FirstOf(l)
        /\ EntryAt(o.slot)' = o.entry
        /\ \A l \in LiveEntries' : l \in Location /\ (l = o.slot \/ l \in LiveEntries)
        /\ \A l \in LiveEntries : l \in Location /\ (l = o.slot \/ l \in LiveEntries')
        /\ o.slot \in LiveEntries' <=> o.entry.kind \in Live
        /\ o.slot \notin LiveEntries
        /\ UNCHANGED fat
    BY <1>1, EntryEffect
  <1>3. o.entry.kind = (IF o.kind = "create_file" THEN "file" ELSE "dir") /\ o.entry.size = 0
        /\ \A l \in LiveEntries : Within(l, o.dir) => EntryAt(l).name # o.entry.name
    BY <1>1, <1>2, PlacedFacts DEF CreateRight, Enters, DirectoryRight, Trunk, Called
  <1>4. op' = Idle
    <2>1. CASE o.kind = "create_directory"
      BY <1>1, <2>1, EntryEffect
    <2>2. CASE o.kind # "create_directory"
      <3>1. Complete
        BY <1>1, EntryEffect
      <3> QED BY <1>1, <1>2, <2>2, <3>1, CompleteOver
    <2> QED BY <2>1, <2>2
  <1>5. LiveEntries' = LiveEntries \cup {o.slot}
    BY <1>2, <1>3 DEF Live
  <1>6. Unseen(op) = {} /\ Unseen(op)' = {}
    BY <1>1, <1>2, <1>4 DEF Unseen, Idle
  <1>7. Seen = LiveEntries /\ Seen' = LiveEntries \cup {o.slot}
    BY <1>5, <1>6 DEF Seen
  <1>8. \A h \in DirectoryHeads : h \in DirectoryHeads'
    <2>1. \A l \in LiveOf("dir") : l \in LiveOf("dir")' /\ FirstOf(l)' = FirstOf(l)
      BY <1>2 DEF LiveOf, LiveEntries
    <2> QED BY <2>1 DEF DirectoryHeads
  <1>9. Twigs' = (Twigs \ TwigsAt({})) \cup TwigsAt({o.slot})'
    <2>1. PutEntry(o.slot, o.entry)
      BY <1>1 DEF WriteEntry
    <2>2. /\ {} \in SUBSET Seen /\ Seen' = (Seen \ {}) \cup {o.slot} /\ o.slot \notin Seen \ {}
          /\ \A l \in Seen \ {} : \A d \in DirectoryHeads : Within(l, d) => d \in DirectoryHeads'
      BY <1>2, <1>7, <1>8
    <2>3. Trunk /\ OneHome' /\ UNCHANGED fat /\ o.slot \in Location
      BY <1>2
    <2> QED BY ONLY <2>1, <2>2, <2>3, PutTurn
  <1>10. TwigsAt({}) = {}
    <2>1. \A t : t \notin TwigsAt({})
      BY TwigsAtAre
    <2> QED BY <2>1
  <1> DEFINE u == TwigOf(o.slot, o.dir)'
  <1>11. TwigsAt({o.slot})' = {u}
    <2>1. Within(o.slot, o.dir)'
      BY <1>2, ChainsKept
    <2>2. o.slot \in LiveEntries' /\ o.dir \in DirectoryHeads'
      BY <1>2, <1>5, <1>8
    <2> QED BY <2>1, <2>2, TwigsOneNext
  <1>12. u.dir = o.dir /\ u.name = o.entry.name /\ u.kind = o.entry.kind /\ u.first = o.entry.first /\ u.size = 0
    BY <1>2, <1>3 DEF TwigOf, FirstOf
  <1> HIDE DEF u
  <1>13. Twigs' = Twigs \cup {u}
    BY <1>9, <1>10, <1>11
  <1>14. ASSUME NEW x \in Twigs
         PROVE  x # u /\ x.dir \in DirectoryHeads
    <2>1. PICK l \in Seen : \E d \in DirectoryHeads : Within(l, d) /\ x = TwigOf(l, d)
      BY TwigsAre
    <2>2. PICK d \in DirectoryHeads : Within(l, d) /\ x = TwigOf(l, d)
      BY <2>1
    <2>3. x.dir = d /\ x.name = EntryAt(l).name /\ l \in LiveEntries
      BY <1>7, <2>2 DEF TwigOf
    <2> QED BY <1>3, <1>12, <2>2, <2>3
  <1>15. u.kind = "dir" => u.first \notin DirectoryHeads
    <2> SUFFICES ASSUME u.kind = "dir"
                 PROVE  u.first \notin DirectoryHeads
      OBVIOUS
    <2>1. o.kind = "create_directory" /\ u.first = o.first
      BY <1>1, <1>2, <1>3, <1>12, PlacedFacts DEF CallSound
    <2>2. o.first # Free
      BY <1>1, <1>2, <2>1, PlacedFacts DEF CreateRight
    <2>3. Loose(o.first)
      BY <1>1, <1>2, <2>1, <2>2, PlacedFacts DEF CallSound
    <2> QED BY <2>1, <2>3 DEF Loose, Named, DirectoryHeads, LiveOf
  <1>16. \A x \in Twigs' : u.kind = "dir" => x.dir # u.first
    BY <1>2, <1>12, <1>13, <1>14, <1>15
  <1>17. u \in Twigs' /\ u \notin Twigs
    BY <1>13, <1>14
  <1>18. Comes(Twigs, p, u.dir, u.name) /\ u.kind = kind
    BY <1>1, <1>3, <1>12
  <1> QED BY <1>4, <1>12, <1>13, <1>16, <1>17, <1>18 DEF EnterAt

(* A new name in the same directory.                                       *)
LEMMA RenameTurns ==
  ASSUME Trunk, OneHome', Placed, WriteEntry, op.kind = "rename", op.slot = op.at,
         NEW p, HasAt(p, op.at), NEW q, Comes(Twigs, q, op.dir, op.entry.name)
  PROVE  ShiftAt(Twigs, Twigs', p, q) /\ op' = Idle
  <1>1. PICK o \in Call : o = op
    BY PlacedFacts
  <1>2. /\ o.step = "entry" /\ o.slot \in Location /\ o.dir \in DirectoryHeads /\ Within(o.slot, o.dir)
        /\ \A l \in Location : l # o.slot => EntryAt(l)' = EntryAt(l) /\ FirstOf(l)' = FirstOf(l)
        /\ EntryAt(o.slot)' = o.entry
        /\ \A l \in LiveEntries' : l \in Location /\ (l = o.slot \/ l \in LiveEntries)
        /\ \A l \in LiveEntries : l \in Location /\ (l = o.slot \/ l \in LiveEntries')
        /\ o.slot \in LiveEntries' <=> o.entry.kind \in Live
        /\ UNCHANGED fat
    BY <1>1, EntryEffect
  <1>3. /\ o.slot \in LiveEntries /\ o.entry = [EntryAt(o.slot) EXCEPT !.name = o.entry.name]
        /\ EntryAt(o.slot) \in Entry
        /\ \A l \in LiveEntries : Within(l, o.dir) => EntryAt(l).name # o.entry.name
    BY <1>1, <1>2, PlacedFacts, FirstType DEF RenameRight, Enters, DirectoryRight
  <1>4. /\ o.entry.kind = EntryAt(o.slot).kind /\ o.entry.first = EntryAt(o.slot).first
        /\ o.entry.size = EntryAt(o.slot).size
    BY <1>3 DEF Entry
  <1>5. op' = Idle
    <2>1. Complete
      BY <1>1, EntryEffect
    <2> QED BY <1>1, <1>2, <2>1, CompleteOver
  <1>6. LiveEntries' = LiveEntries
    <2>1. o.slot \in LiveEntries'
      BY <1>2, <1>3, <1>4 DEF LiveEntries
    <2>2. \A l \in LiveEntries' : l = o.slot \/ l \in LiveEntries
      BY <1>2
    <2>3. \A l \in LiveEntries : l = o.slot \/ l \in LiveEntries'
      BY <1>2
    <2>4. o.slot \in LiveEntries
      BY <1>3
    <2> QED BY ONLY <2>1, <2>2, <2>3, <2>4
  <1>7. Unseen(op) = {} /\ Unseen(op)' = {}
    BY <1>1, <1>2, <1>5 DEF Unseen, Idle
  <1>8. Seen = LiveEntries /\ Seen' = LiveEntries
    BY <1>6, <1>7 DEF Seen
  <1>9. DirectoryHeads' = DirectoryHeads
    BY <1>1, EntryNames DEF NamesStay
  <1>10. Twigs' = (Twigs \ TwigsAt({o.slot})) \cup TwigsAt({o.slot})'
    <2>1. PutEntry(o.slot, o.entry)
      BY <1>1 DEF WriteEntry
    <2>2. /\ {o.slot} \in SUBSET Seen /\ Seen' = (Seen \ {o.slot}) \cup {o.slot} /\ o.slot \notin Seen \ {o.slot}
          /\ \A l \in Seen \ {o.slot} : \A d \in DirectoryHeads : Within(l, d) => d \in DirectoryHeads'
      BY <1>3, <1>8, <1>9
    <2>3. Trunk /\ OneHome' /\ UNCHANGED fat /\ o.slot \in Location
      BY <1>2
    <2> QED BY ONLY <2>1, <2>2, <2>3, PutTurn
  <1> DEFINE t == TwigOf(o.slot, o.dir)
             u == TwigOf(o.slot, o.dir)'
  <1>11. TwigsAt({o.slot}) = {t} /\ TwigsAt({o.slot})' = {u} /\ t \in Twigs
    <2>1. Within(o.slot, o.dir)'
      BY <1>2, ChainsKept
    <2>2. o.slot \in LiveEntries' /\ o.dir \in DirectoryHeads'
      BY <1>2, <1>3, <1>6, <1>9
    <2> QED BY <1>2, <1>3, <1>8, <2>1, <2>2, TwigsOne, TwigsOneNext, TwigsAre
  <1>12. /\ u.dir = o.dir /\ u.name = o.entry.name /\ u.kind = o.entry.kind /\ u.first = o.entry.first
         /\ u.size = o.entry.size
         /\ t.dir = o.dir /\ t.name = EntryAt(o.slot).name /\ t.kind = EntryAt(o.slot).kind
         /\ t.first = EntryAt(o.slot).first /\ t.size = EntryAt(o.slot).size
    BY <1>2 DEF TwigOf, FirstOf
  <1> HIDE DEF t, u
  <1>13. Twigs' = (Twigs \ {t}) \cup {u}
    BY <1>10, <1>11
  <1>14. ASSUME NEW x \in Twigs
         PROVE  x # u
    <2>1. PICK l \in Seen : \E d \in DirectoryHeads : Within(l, d) /\ x = TwigOf(l, d)
      BY TwigsAre
    <2>2. PICK d \in DirectoryHeads : Within(l, d) /\ x = TwigOf(l, d)
      BY <2>1
    <2>3. x.dir = d /\ x.name = EntryAt(l).name /\ l \in LiveEntries
      BY <1>8, <2>2 DEF TwigOf
    <2> QED BY <1>3, <1>12, <2>2, <2>3
  <1>15. t \notin Twigs' /\ u \in Twigs' /\ u \notin Twigs
    BY <1>11, <1>13, <1>14
  <1>16. u.kind = t.kind /\ u.first = t.first /\ u.size = t.size
    BY <1>4, <1>12
  <1>17. Has(Twigs, p, t)
    <2>1. PICK d \in DirectoryHeads : Within(o.slot, d) /\ Has(Twigs, p, TwigOf(o.slot, d))
      BY <1>1 DEF HasAt
    <2>2. d = o.dir
      BY <1>2, <1>3, <2>1, SeenFacts DEF OneHome
    <2> QED BY <2>1, <2>2 DEF t
  <1>18. Comes(Twigs, q, u.dir, u.name)
    BY <1>1, <1>12
  <1> QED BY <1>5, <1>11, <1>13, <1>15, <1>16, <1>17, <1>18 DEF ShiftAt

(* The new entry of a move to another directory is left out as long as the *)
(* old one is there.                                                       *)
LEMMA MoveTurns ==
  ASSUME Trunk, OneHome', Placed, WriteEntry, op.kind = "rename", op.slot # op.at
  PROVE  Twigs' = Twigs /\ Seen' = Seen /\ \A l \in Seen : Rests(l)
  <1>1. PICK o \in Call : o = op
    BY PlacedFacts
  <1>2. /\ o.step = "entry" /\ o.slot \in Location
        /\ \A l \in Location : l # o.slot => EntryAt(l)' = EntryAt(l) /\ FirstOf(l)' = FirstOf(l)
        /\ EntryAt(o.slot)' = o.entry
        /\ \A l \in LiveEntries' : l \in Location /\ (l = o.slot \/ l \in LiveEntries)
        /\ \A l \in LiveEntries : l \in Location /\ (l = o.slot \/ l \in LiveEntries')
        /\ o.slot \notin LiveEntries
        /\ UNCHANGED fat
    BY <1>1, EntryEffect
  <1>3. /\ op'.kind = "rename" /\ op'.step \in {"dots", "unlink"} /\ op'.slot = o.slot
    <2>1. op' = [o EXCEPT !.step = IF o.entry.kind = "dir" THEN "dots" ELSE "unlink"]
      BY <1>1, EntryEffect
    <2> QED BY <1>1, <2>1 DEF Call
  <1>4. Unseen(op) = {} /\ Unseen(op)' = {o.slot}
    BY <1>1, <1>2, <1>3 DEF Unseen
  <1>5. Seen = LiveEntries /\ Seen' = LiveEntries
    BY <1>2, <1>4 DEF Seen
  <1>6. \A h \in DirectoryHeads : h \in DirectoryHeads'
    <2>1. \A l \in LiveOf("dir") : l \in LiveOf("dir")' /\ FirstOf(l)' = FirstOf(l)
      BY <1>2 DEF LiveOf, LiveEntries
    <2> QED BY <2>1 DEF DirectoryHeads
  <1>7. Twigs' = (Twigs \ TwigsAt({})) \cup TwigsAt({})' /\ \A l \in Seen \ {} : Rests(l)
    <2>1. PutEntry(o.slot, o.entry)
      BY <1>1 DEF WriteEntry
    <2>2. /\ {} \in SUBSET Seen /\ Seen' = (Seen \ {}) \cup {} /\ o.slot \notin Seen \ {}
          /\ \A l \in Seen \ {} : \A d \in DirectoryHeads : Within(l, d) => d \in DirectoryHeads'
      BY <1>2, <1>5, <1>6
    <2>3. Trunk /\ OneHome' /\ UNCHANGED fat /\ o.slot \in Location
      BY <1>2
    <2>4. \A l \in Seen \ {} : Rests(l)
      BY ONLY <2>1, <2>2, <2>3, PutRests
    <2> QED BY ONLY <2>1, <2>2, <2>3, <2>4, PutTurn
  <1>8. TwigsAt({}) = {} /\ TwigsAt({})' = {}
    <2>1. \A t : t \notin TwigsAt({}) /\ t \notin TwigsAt({})'
      BY TwigsAtAre
    <2> QED BY <2>1
  <1> QED BY <1>5, <1>7, <1>8

(* The end of a write: the file has its new size.                          *)
LEMMA UpdateTurns ==
  ASSUME Trunk, OneHome', Placed, UpdateEntry, NEW p, HasAt(p, op.at),
         NEW end, op.entry.size = IF end > EntryAt(op.at).size THEN end ELSE EntryAt(op.at).size
  PROVE  GrowAt(Twigs, Twigs', p, end) /\ op' = Idle
  <1>1. op \in Call /\ Disk /\ op.step = "update" /\ StepOK(op) /\ UNCHANGED fat
    BY PlacedFacts DEF UpdateEntry
  <1>2. op.kind = "write"
    <2>1. op.kind \in Operations \cup {"none"}
      BY <1>1 DEF Call
    <2> QED BY <1>1, <2>1 DEF StepOK
  <1>3. op' = Idle
    BY <1>1, <1>2, CompleteOver DEF UpdateEntry
  <1>4. /\ op.at \in LiveEntries /\ op.at \in Location /\ op.entry \in Entry /\ op.entry.kind = "file"
        /\ op.entry.name = EntryAt(op.at).name /\ EntryAt(op.at).kind = "file"
    BY <1>1, <1>2, PlacedFacts DEF WriteRight, LiveOf, Call
  <1>5. PICK loc, e : /\ loc = op.at /\ e = [op.entry EXCEPT !.first = op.first] /\ PutEntry(loc, e)
                      /\ e.name = op.entry.name /\ e.kind = op.entry.kind /\ e.size = op.entry.size
    BY <1>4 DEF UpdateEntry, Entry
  <1>6. /\ \A l \in LiveEntries' : l \in Location /\ (l = loc \/ l \in LiveEntries)
        /\ \A l \in LiveEntries : l \in Location /\ (l = loc \/ l \in LiveEntries')
        /\ loc \in LiveEntries' /\ EntryAt(loc)' = e
    <2>1. Disk /\ loc \in Location /\ PutEntry(loc, e) /\ e.kind \in Live
      BY <1>1, <1>4, <1>5 DEF Live
    <2>2. /\ \A l \in Location : EntryAt(l)' = IF l = loc THEN e ELSE EntryAt(l)
          /\ \A l \in LiveEntries' : l \in Location /\ (l = loc \/ l \in LiveEntries)
          /\ \A l \in LiveEntries : l \in Location /\ (l = loc \/ l \in LiveEntries')
          /\ loc \in LiveEntries' <=> e.kind \in Live
      BY <2>1, SlotPut
    <2> QED BY ONLY <2>1, <2>2
  <1>7. LiveEntries' = LiveEntries
    <2>1. loc \in LiveEntries
      BY <1>4, <1>5
    <2> QED BY ONLY <1>6, <2>1
  <1>8. Unseen(op) = {} /\ Unseen(op)' = {}
    BY <1>2, <1>3 DEF Unseen, Idle
  <1>9. Seen = LiveEntries /\ Seen' = LiveEntries
    BY <1>7, <1>8 DEF Seen
  <1>10. DirectoryHeads' = DirectoryHeads
    BY UpdateNames DEF NamesStay
  <1>11. Twigs' = (Twigs \ TwigsAt({loc})) \cup TwigsAt({loc})'
    <2>1. /\ {loc} \in SUBSET Seen /\ Seen' = (Seen \ {loc}) \cup {loc} /\ loc \notin Seen \ {loc}
          /\ \A l \in Seen \ {loc} : \A d \in DirectoryHeads : Within(l, d) => d \in DirectoryHeads'
      BY <1>4, <1>5, <1>9, <1>10
    <2>2. Trunk /\ OneHome' /\ UNCHANGED fat /\ loc \in Location /\ PutEntry(loc, e)
      BY <1>1, <1>4, <1>5
    <2> QED BY ONLY <2>1, <2>2, PutTurn
  <1>12. PICK d \in DirectoryHeads : Within(loc, d) /\ Has(Twigs, p, TwigOf(loc, d))
    BY <1>5 DEF HasAt
  <1> DEFINE t == TwigOf(loc, d)
             u == TwigOf(loc, d)'
  <1>13. TwigsAt({loc}) = {t} /\ TwigsAt({loc})' = {u} /\ t \in Twigs
    <2>1. Within(loc, d)'
      BY <1>1, <1>12, ChainsKept
    <2>2. loc \in LiveEntries /\ loc \in LiveEntries' /\ d \in DirectoryHeads'
      BY <1>4, <1>5, <1>6, <1>10
    <2> QED BY <1>9, <1>12, <2>1, <2>2, TwigsOne, TwigsOneNext, TwigsAre
  <1>14. /\ u.dir = d /\ u.name = e.name /\ u.kind = e.kind /\ u.size = e.size
         /\ t.dir = d /\ t.name = EntryAt(loc).name /\ t.kind = EntryAt(loc).kind /\ t.size = EntryAt(loc).size
    BY <1>6 DEF TwigOf
  <1>15. (u.size = IF end > t.size THEN end ELSE t.size) /\ Has(Twigs, p, t)
    BY <1>5, <1>12, <1>14
  <1> HIDE DEF t, u
  <1>16. Twigs' = (Twigs \ {t}) \cup {u}
    BY <1>11, <1>13
  <1>17. u \in Twigs' /\ t.kind = "file" /\ u.kind = "file" /\ u.dir = t.dir /\ u.name = t.name
    BY <1>4, <1>5, <1>14, <1>16
  <1> QED BY <1>3, <1>13, <1>15, <1>16, <1>17 DEF GrowAt

(* An entry goes: what goes and what stays.                                *)
LEMMA DropEffect ==
  ASSUME Placed, UnlinkEntry \/ UndoEntry, NEW loc, loc = IF op.step = "unlink" THEN op.at ELSE op.slot
  PROVE  /\ op.kind \in {"rename", "remove"} /\ (op.step = "undo" => op.kind = "rename")
         /\ op.step \in {"unlink", "undo"} /\ op' = Idle /\ UNCHANGED fat
         /\ loc \in LiveEntries /\ loc \in Location /\ PutEntry(loc, Mark("deleted"))
         /\ LiveEntries' = LiveEntries \ {loc}
         /\ \A l \in LiveEntries : l # loc => EntryAt(l)' = EntryAt(l) /\ FirstOf(l)' = FirstOf(l)
         /\ \A h \in DirectoryHeads : h \in DirectoryHeads' \/ h = FirstOf(loc)
  <1>1. op \in Call /\ Disk /\ op.step \in {"unlink", "undo"} /\ StepOK(op) /\ UNCHANGED fat
    BY PlacedFacts DEF UnlinkEntry, UndoEntry
  <1>2. op.kind \in {"rename", "remove"} /\ (op.step = "undo" => op.kind = "rename")
    <2>1. op.kind \in Operations \cup {"none"}
      BY <1>1 DEF Call
    <2> QED BY <1>1, <2>1 DEF StepOK
  <1>3. op' = Idle
    <2>1. Complete \/ Recover \/ op' = Idle
      BY DEF UnlinkEntry, UndoEntry, Finish, WriteFails
    <2> QED BY <1>1, <1>2, <2>1, CompleteOver
  <1>4. loc \in LiveEntries /\ loc \in Location
    <2>1. CASE op.kind = "rename"
      BY <1>1, <2>1, RenameTwins DEF LiveEntries
    <2>2. CASE op.kind = "remove"
      BY <1>1, <1>2, <2>2, PlacedFacts DEF RemoveRight, LiveEntries
    <2> QED BY <1>2, <2>1, <2>2
  <1>5. PutEntry(loc, Mark("deleted"))
    BY <1>1 DEF UnlinkEntry, UndoEntry
  <1>6. PICK e : e = Mark("deleted") /\ e.kind = "deleted"
    <2>1. Mark("deleted").kind = "deleted"
      BY Zenon DEF Mark, fat32_build_entry
    <2> QED BY ONLY <2>1
  <1>7. /\ \A l \in Location : EntryAt(l)' = IF l = loc THEN e ELSE EntryAt(l)
        /\ \A l \in Location : FirstOf(l)' = IF l = loc THEN e.first ELSE FirstOf(l)
        /\ \A l \in LiveEntries' : l \in Location /\ (l = loc \/ l \in LiveEntries)
        /\ \A l \in LiveEntries : l \in Location /\ (l = loc \/ l \in LiveEntries')
        /\ loc \in LiveEntries' <=> e.kind \in Live
    <2>1. Disk /\ loc \in Location /\ PutEntry(loc, e)
      BY <1>1, <1>4, <1>5, <1>6
    <2> QED BY ONLY <2>1, SlotPut
  <1>8. LiveEntries' = LiveEntries \ {loc}
    <2>1. loc \notin LiveEntries'
      BY <1>6, <1>7 DEF Live
    <2> QED BY ONLY <1>7, <2>1
  <1>9. \A l \in LiveEntries : l # loc => EntryAt(l)' = EntryAt(l) /\ FirstOf(l)' = FirstOf(l)
    BY <1>7
  <1>10. ASSUME NEW h \in DirectoryHeads, h # FirstOf(loc)
         PROVE  h \in DirectoryHeads'
    <2>1. CASE h = Root
      BY <2>1 DEF DirectoryHeads
    <2>2. CASE h # Root
      <3>1. PICK m \in LiveOf("dir") : FirstOf(m) = h
        BY <2>2 DEF DirectoryHeads
      <3>2. m \in LiveEntries /\ m # loc /\ EntryAt(m).kind = "dir"
        BY <1>10, <3>1 DEF LiveOf
      <3>3. m \in LiveOf("dir")' /\ FirstOf(m)' = h
        BY <1>8, <1>9, <3>1, <3>2 DEF LiveOf
      <3> QED BY <3>3 DEF DirectoryHeads
    <2> QED BY <2>1, <2>2
  <1> QED BY <1>1, <1>2, <1>3, <1>4, <1>5, <1>8, <1>9, <1>10

LEMMA RemoveTurns ==
  ASSUME Trunk, OneHome', Placed, UnlinkEntry, op.kind = "remove", NEW p, HasAt(p, op.at)
  PROVE  LeaveAt(Twigs, Twigs', p) /\ op' = Idle
  <1>1. PICK loc : loc = op.at
    OBVIOUS
  <1>2. op.step = "unlink"
    BY DEF UnlinkEntry
  <1>3. /\ op' = Idle /\ UNCHANGED fat
        /\ loc \in LiveEntries /\ loc \in Location /\ PutEntry(loc, Mark("deleted"))
        /\ LiveEntries' = LiveEntries \ {loc}
        /\ \A h \in DirectoryHeads : h \in DirectoryHeads' \/ h = FirstOf(loc)
    BY <1>1, <1>2, DropEffect
  <1>4. ASSUME NEW l \in LiveEntries
        PROVE  ~Within(l, FirstOf(loc))
    <2>1. FirstOf(loc) = op.first /\ \A c \in ChainSet(op.first) : Barren(c)
      BY <1>1, <1>3, PlacedFacts DEF CallSound, RemoveRight
    <2>2. l \in Location /\ EntryAt(l).kind \in Live
      BY DEF LiveEntries
    <2> QED BY <2>1, <2>2 DEF Within, Barren, KindIn, EntryAt, Location
  <1>5. Unseen(op) = {} /\ Unseen(op)' = {}
    BY <1>3 DEF Unseen, Idle
  <1>6. Seen = LiveEntries /\ Seen' = LiveEntries \ {loc}
    BY <1>3, <1>5 DEF Seen
  <1>7. Twigs' = (Twigs \ TwigsAt({loc})) \cup TwigsAt({})'
    <2>1. /\ {loc} \in SUBSET Seen /\ Seen' = (Seen \ {loc}) \cup {} /\ loc \notin Seen \ {loc}
          /\ \A l \in Seen \ {loc} : \A d \in DirectoryHeads : Within(l, d) => d \in DirectoryHeads'
      BY <1>3, <1>4, <1>6
    <2> QED BY ONLY Trunk, OneHome', <1>3, <2>1, PutTurn
  <1>8. TwigsAt({})' = {}
    <2>1. \A t : t \notin TwigsAt({})'
      BY TwigsAtAre
    <2> QED BY <2>1
  <1>9. PICK d \in DirectoryHeads : Within(loc, d) /\ Has(Twigs, p, TwigOf(loc, d))
    BY <1>1 DEF HasAt
  <1> DEFINE t == TwigOf(loc, d)
  <1>10. TwigsAt({loc}) = {t} /\ t \in Twigs /\ t.first = FirstOf(loc) /\ Has(Twigs, p, t)
    BY <1>3, <1>6, <1>9, TwigsOne, TwigsAre DEF TwigOf
  <1> HIDE DEF t
  <1>11. Twigs' = Twigs \ {t}
    BY <1>7, <1>8, <1>10
  <1>12. ASSUME NEW x \in Twigs
         PROVE  x.dir # t.first
    <2>1. PICK l \in Seen : \E h \in DirectoryHeads : Within(l, h) /\ x = TwigOf(l, h)
      BY TwigsAre
    <2>2. PICK h \in DirectoryHeads : Within(l, h) /\ x = TwigOf(l, h)
      BY <2>1
    <2>3. x.dir = h /\ l \in LiveEntries
      BY <1>6, <2>2 DEF TwigOf
    <2> QED BY <1>4, <1>10, <2>2, <2>3
  <1> QED BY <1>3, <1>10, <1>11, <1>12 DEF LeaveAt

(* The old entry of a move goes, and the new one is there.                 *)
LEMMA MovedTurns ==
  ASSUME Trunk, OneHome', Placed, UnlinkEntry, op.kind = "rename",
         NEW p, HasAt(p, op.at), NEW q, Comes(Twigs, q, op.dir, op.entry.name)
  PROVE  ShiftAt(Twigs, Twigs', p, q) /\ op' = Idle
  <1>1. PICK loc, new, h : loc = op.at /\ new = op.slot /\ h = op.dir
    OBVIOUS
  <1>2. op.step = "unlink"
    BY DEF UnlinkEntry
  <1>3. /\ op' = Idle /\ UNCHANGED fat
        /\ loc \in LiveEntries /\ loc \in Location /\ PutEntry(loc, Mark("deleted"))
        /\ LiveEntries' = LiveEntries \ {loc}
        /\ \A l \in LiveEntries : l # loc => EntryAt(l)' = EntryAt(l) /\ FirstOf(l)' = FirstOf(l)
        /\ \A k \in DirectoryHeads : k \in DirectoryHeads' \/ k = FirstOf(loc)
    BY <1>1, <1>2, DropEffect
  <1>4. new \in LiveEntries /\ new # loc /\ FirstOf(new) = FirstOf(loc)
    BY <1>1, <1>2, RenameTwins
  <1>5. /\ EntryAt(new) = [EntryAt(loc) EXCEPT !.name = EntryAt(new).name]
        /\ EntryAt(loc) \in Entry
        /\ h \in DirectoryHeads /\ Within(new, h) /\ EntryAt(new).name = op.entry.name
    <2>1. EntryAt(op.slot) = op.entry /\ op.entry = [EntryAt(op.at) EXCEPT !.name = op.entry.name]
      BY <1>2, PlacedFacts DEF RenameRight
    <2> QED BY <1>1, <1>2, <1>3, <2>1, PlacedFacts, FirstType DEF RenameRight
  <1>6. /\ EntryAt(new).kind = EntryAt(loc).kind /\ EntryAt(new).first = EntryAt(loc).first
        /\ EntryAt(new).size = EntryAt(loc).size
    BY <1>5 DEF Entry
  <1>7. \A k \in DirectoryHeads : k \in DirectoryHeads'
    <2> SUFFICES ASSUME NEW k \in DirectoryHeads, k # Root
                 PROVE  k \in DirectoryHeads'
      BY DEF DirectoryHeads
    <2>1. PICK m \in LiveOf("dir") : FirstOf(m) = k
      BY DEF DirectoryHeads
    <2>2. m \in LiveEntries /\ EntryAt(m).kind = "dir"
      BY DEF LiveOf
    <2>3. PICK l \in LiveEntries : l # loc /\ EntryAt(l).kind = "dir" /\ FirstOf(l) = k
      BY <1>4, <1>6, <2>1, <2>2
    <2>4. l \in LiveOf("dir")' /\ FirstOf(l)' = k
      BY <1>3, <2>3 DEF LiveOf
    <2> QED BY <2>4 DEF DirectoryHeads
  <1>8. Unseen(op) = {new} /\ Unseen(op)' = {}
    BY <1>1, <1>2, <1>3 DEF Unseen, Idle
  <1>9. Seen = LiveEntries \ {new} /\ Seen' = LiveEntries \ {loc} /\ loc \in Seen
    BY <1>3, <1>4, <1>8 DEF Seen
  <1>10. Twigs' = (Twigs \ TwigsAt({loc})) \cup TwigsAt({new})'
    <2>1. /\ {loc} \in SUBSET Seen /\ Seen' = (Seen \ {loc}) \cup {new} /\ loc \notin Seen \ {loc}
          /\ \A l \in Seen \ {loc} : \A d \in DirectoryHeads : Within(l, d) => d \in DirectoryHeads'
      BY <1>3, <1>4, <1>7, <1>9
    <2> QED BY ONLY Trunk, OneHome', <1>3, <2>1, PutTurn
  <1>11. PICK d \in DirectoryHeads : Within(loc, d) /\ Has(Twigs, p, TwigOf(loc, d))
    BY <1>1 DEF HasAt
  <1>12. h \in DirectoryHeads /\ Within(new, h)
    BY <1>5
  <1> DEFINE t == TwigOf(loc, d)
             u == TwigOf(new, h)'
  <1>13. TwigsAt({loc}) = {t} /\ t \in Twigs
    BY <1>3, <1>9, <1>11, TwigsOne, TwigsAre
  <1>14. TwigsAt({new})' = {u}
    <2>1. Within(new, h)' /\ new \in LiveEntries' /\ h \in DirectoryHeads'
      BY <1>3, <1>4, <1>7, <1>12, ChainsKept
    <2> QED BY <2>1, TwigsOneNext
  <1>15. /\ u.dir = h /\ u.name = EntryAt(new).name /\ u.kind = EntryAt(new).kind
         /\ u.first = FirstOf(new) /\ u.size = EntryAt(new).size
         /\ t.dir = d /\ t.name = EntryAt(loc).name /\ t.kind = EntryAt(loc).kind
         /\ t.first = FirstOf(loc) /\ t.size = EntryAt(loc).size
    BY <1>3, <1>4 DEF TwigOf
  <1> HIDE DEF t, u
  <1>16. Twigs' = (Twigs \ {t}) \cup {u}
    BY <1>10, <1>13, <1>14
  <1>17. ASSUME NEW x \in Twigs
         PROVE  x # u
    <2>1. PICK l \in Seen : \E c \in DirectoryHeads : Within(l, c) /\ x = TwigOf(l, c)
      BY TwigsAre
    <2>2. PICK c \in DirectoryHeads : Within(l, c) /\ x = TwigOf(l, c)
      BY <2>1
    <2>3. x.dir = c /\ x.name = EntryAt(l).name /\ l \in LiveEntries /\ l # new
      BY <1>9, <2>2 DEF TwigOf
    <2> SUFFICES ASSUME x = u
                 PROVE  FALSE
      OBVIOUS
    <2>4. c = h /\ EntryAt(l).name = EntryAt(new).name
      BY <1>15, <2>3
    <2> QED BY <1>4, <1>12, <2>2, <2>3, <2>4 DEF Trunk, NamesApart
  <1>18. t \notin Twigs' /\ u \in Twigs' /\ u \notin Twigs
    BY <1>13, <1>16, <1>17
  <1>19. u.kind = t.kind /\ u.first = t.first /\ u.size = t.size
    BY <1>4, <1>6, <1>15
  <1>20. Has(Twigs, p, t) /\ Comes(Twigs, q, u.dir, u.name)
    BY <1>1, <1>5, <1>11, <1>15 DEF t
  <1> QED BY <1>3, <1>13, <1>16, <1>18, <1>19, <1>20 DEF ShiftAt

LEMMA UndoTurns ==
  ASSUME Trunk, OneHome', Placed, UndoEntry
  PROVE  Twigs' = Twigs
  <1>1. PICK loc : loc = op.slot
    OBVIOUS
  <1>2. op.step = "undo"
    BY DEF UndoEntry
  <1>3. /\ op.kind = "rename" /\ op' = Idle /\ UNCHANGED fat
        /\ loc \in LiveEntries /\ loc \in Location /\ PutEntry(loc, Mark("deleted"))
        /\ LiveEntries' = LiveEntries \ {loc}
        /\ \A l \in LiveEntries : l # loc => EntryAt(l)' = EntryAt(l) /\ FirstOf(l)' = FirstOf(l)
        /\ \A h \in DirectoryHeads : h \in DirectoryHeads' \/ h = FirstOf(loc)
    BY <1>1, <1>2, DropEffect
  <1>4. Unseen(op) = {loc} /\ Unseen(op)' = {}
    BY <1>1, <1>2, <1>3 DEF Unseen, Idle
  <1>5. Seen = LiveEntries \ {loc} /\ Seen' = LiveEntries \ {loc}
    BY <1>3, <1>4 DEF Seen
  <1>6. \A h \in DirectoryHeads : h \in DirectoryHeads'
    <2> SUFFICES ASSUME NEW h \in DirectoryHeads, h # Root
                 PROVE  h \in DirectoryHeads'
      BY DEF DirectoryHeads
    <2>1. PICK m \in LiveOf("dir") : FirstOf(m) = h
      BY DEF DirectoryHeads
    <2>2. m \in LiveEntries /\ EntryAt(m).kind = "dir"
      BY DEF LiveOf
    <2>3. PICK l \in Seen : EntryAt(l).kind = "dir" /\ FirstOf(l) = h
      BY <2>1, <2>2, SeenFacts
    <2>4. l \in LiveOf("dir")' /\ FirstOf(l)' = h
      BY <1>3, <1>5, <2>3 DEF LiveOf
    <2> QED BY <2>4 DEF DirectoryHeads
  <1>7. Twigs' = (Twigs \ TwigsAt({})) \cup TwigsAt({})'
    <2>1. /\ {} \in SUBSET Seen /\ Seen' = (Seen \ {}) \cup {} /\ loc \notin Seen \ {}
          /\ \A l \in Seen \ {} : \A d \in DirectoryHeads : Within(l, d) => d \in DirectoryHeads'
      BY <1>5, <1>6
    <2> QED BY ONLY Trunk, OneHome', <1>3, <2>1, PutTurn
  <1>8. TwigsAt({}) = {} /\ TwigsAt({})' = {}
    <2>1. \A t : t \notin TwigsAt({}) /\ t \notin TwigsAt({})'
      BY TwigsAtAre
    <2> QED BY <2>1
  <1> QED BY <1>7, <1>8

-----------------------------------------------------------------------------
(* What the operation in progress is about is what its caller asked: the   *)
(* paths of the call lead to the entry and to the directory it works on.   *)
LinkedTo(o, c) ==
  /\ o.step # "idle" /\ c.name = o.kind
  /\ o.kind \in {"create_file", "create_directory"} => Comes(Twigs, c.path, o.dir, o.entry.name)
  /\ o.kind \in {"write", "rename", "remove"} => o.at \in Seen /\ HasAt(c.path, o.at)
  /\ o.kind = "write" => o.entry.size = IF c.end > EntryAt(o.at).size THEN c.end ELSE EntryAt(o.at).size
  /\ o.kind = "rename" => Comes(Twigs, c.new_path, o.dir, o.entry.name)

Stays == Twigs' = Twigs /\ Seen' = Seen /\ \A l \in Seen : Rests(l)

LEMMA HasStays ==
  ASSUME Stays, NEW l \in Seen
  PROVE  l \in Seen' /\ EntryAt(l)'.size = EntryAt(l).size /\ \A p : HasAt(p, l) => HasAt(p, l)'
  <1>1. Rests(l) /\ l \in Seen' /\ Twigs' = Twigs
    BY DEF Stays
  <1>2. EntryAt(l)'.size = EntryAt(l).size
    <2>1. TwigOf(l, Root)' = TwigOf(l, Root)
      BY <1>1 DEF Rests
    <2> QED BY <2>1 DEF TwigOf
  <1>3. ASSUME NEW p, HasAt(p, l)
        PROVE  HasAt(p, l)'
    <2>1. PICK d \in DirectoryHeads : Within(l, d) /\ Has(Twigs, p, TwigOf(l, d))
      BY <1>3 DEF HasAt
    <2>2. d \in DirectoryHeads' /\ Within(l, d)' /\ TwigOf(l, d)' = TwigOf(l, d)
      BY <1>1, <2>1 DEF Rests
    <2>3. Has(Twigs', p, TwigOf(l, d)')
      BY <1>1, <2>1, <2>2
    <2> QED BY <2>2, <2>3 DEF HasAt
  <1> QED BY <1>1, <1>2, <1>3

LEMMA LinkedStays ==
  ASSUME Stays, NEW n, NEW c, LinkedTo(n, c), op'.step # "idle", op'.kind = n.kind, op'.dir = n.dir,
         op'.at = n.at, op'.entry.name = n.entry.name, op'.entry.size = n.entry.size
  PROVE  LinkedTo(op, c)'
  <1>1. PICK a : a = n.at /\ a = op'.at
    OBVIOUS
  <1>2. Twigs' = Twigs
    BY DEF Stays
  <1>3. (HasAt(c.path, op.at)' <=> HasAt(c.path, a)') /\ EntryAt(op.at)' = EntryAt(a)'
    BY <1>1 DEF HasAt, Within, TwigOf, EntryAt, FirstOf
  <1>4. n.kind \in {"write", "rename", "remove"} =>
          a \in Seen' /\ HasAt(c.path, a)' /\ EntryAt(a)'.size = EntryAt(a).size
    BY <1>1, HasStays DEF LinkedTo
  <1>5. c.name = op'.kind
    BY DEF LinkedTo
  <1>6. op'.kind \in {"create_file", "create_directory"} => Comes(Twigs', c.path, op'.dir, op'.entry.name)
    BY <1>2 DEF LinkedTo
  <1>7. op'.kind = "rename" => Comes(Twigs', c.new_path, op'.dir, op'.entry.name)
    BY <1>2 DEF LinkedTo
  <1>8. op'.kind = "write" => op'.entry.size = IF c.end > EntryAt(op.at)'.size THEN c.end ELSE EntryAt(op.at)'.size
    BY <1>1, <1>3, <1>4 DEF LinkedTo
  <1>9. op'.kind \in {"write", "rename", "remove"} => op'.at \in Seen' /\ HasAt(c.path, op.at)'
    BY <1>1, <1>3, <1>4
  <1> QED BY <1>5, <1>6, <1>7, <1>8, <1>9 DEF LinkedTo

(* A step that leaves every entry as it is goes on with the call, or ends  *)
(* it with an error.                                                       *)
LEMMA SparesLinked ==
  ASSUME Trunk, OneHome', Placed, [Next]_vars, Spares, op.step # "idle", NEW c, LinkedTo(op, c)
  PROVE  Stays /\ ((op' = Idle /\ ret' # "ok") \/ LinkedTo(op, c)')
  <1>1. Called(op)
    BY DEF Trunk
  <1>2. EntriesStay /\ Unseen(op)' = Unseen(op) /\ Bears
    BY <1>1, SparesStep
  <1>3. Stays
    BY <1>2, TwigsStay DEF Stays
  <1>4. CASE op' = Idle /\ ret' # "ok"
    BY <1>3, <1>4
  <1>5. CASE op'.step # "idle" /\ op'.kind = op.kind /\ op'.dir = op.dir
    <2>1. op' # Idle
      BY <1>5 DEF Idle
    <2>2. PICK n : n = op
      OBVIOUS
    <2>3. op'.at = n.at /\ op'.entry.name = n.entry.name /\ op'.entry.size = n.entry.size
      BY <1>2, <2>1, <2>2 DEF Bears
    <2>4. LinkedTo(n, c)
      BY <2>2
    <2>5. op'.kind = n.kind /\ op'.dir = n.dir /\ op'.step # "idle"
      BY <1>5, <2>2
    <2> QED BY ONLY <1>3, <2>3, <2>4, <2>5, LinkedStays
  <1> QED BY <1>4, <1>5, SparesContinue DEF Continues

LEMMA MoveLinked ==
  ASSUME Trunk, OneHome', Placed, WriteEntry, op.kind = "rename", op.slot # op.at, NEW c, LinkedTo(op, c)
  PROVE  Stays /\ LinkedTo(op, c)'
  <1>1. PICK o \in Call : o = op
    BY PlacedFacts
  <1>2. op' = [o EXCEPT !.step = IF o.entry.kind = "dir" THEN "dots" ELSE "unlink"]
    BY <1>1, EntryEffect
  <1>3. op'.kind = o.kind /\ op'.dir = o.dir /\ op'.at = o.at /\ op'.entry = o.entry /\ op'.step # "idle"
    BY <1>2 DEF Call
  <1>4. Stays
    BY MoveTurns DEF Stays
  <1>5. LinkedTo(o, c)
    BY <1>1
  <1>6. op'.entry.name = o.entry.name /\ op'.entry.size = o.entry.size
    BY <1>3
  <1>7. LinkedTo(op, c)'
    BY ONLY <1>3, <1>4, <1>5, <1>6, LinkedStays
  <1> QED BY <1>4, <1>7

(* What a call that is done has made of the entries.                       *)
Reshaped(G, H, c) == \/ c.name = "create_file" /\ EnterAt(G, H, c.path, "file")
                     \/ c.name = "create_directory" /\ EnterAt(G, H, c.path, "dir")
                     \/ c.name = "write" /\ GrowAt(G, H, c.path, c.end)
                     \/ c.name = "rename" /\ ShiftAt(G, H, c.path, c.new_path)
                     \/ c.name = "remove" /\ LeaveAt(G, H, c.path)

(* The last write of a call reports success, or a fault has struck it.     *)
Ended == op' = Idle /\ (ret' = "ok" \/ faults' # faults)

LEMMA CompleteEnds ==
  ASSUME TypeOK, Complete, op' = Idle
  PROVE  Ended
  <1>1. CASE Finish("ok")
    BY <1>1 DEF Finish, Ended
  <1>2. CASE WriteFails(TRUE)
    <2>1. faults' = faults + 1 /\ faults \in Nat
      BY <1>2 DEF WriteFails, Strike, TypeOK
    <2> QED BY <2>1 DEF Ended
  <1> QED BY <1>1, <1>2 DEF Complete

(* A step of a call in progress leaves the tree alone, and goes on or ends *)
(* with an error; or it does what was asked, and the call ends.            *)
LEMMA CallTurns ==
  ASSUME TypeOK, Trunk, OneHome', Placed, [Next]_vars, GrowthRight(op), op.step # "idle",
         NEW c, LinkedTo(op, c)
  PROVE  \/ Twigs' = Twigs /\ LinkedTo(op, c)'
         \/ Twigs' = Twigs /\ op' = Idle /\ ret' # "ok"
         \/ Reshaped(Twigs, Twigs', c) /\ Ended
  <1>1. op.kind = "create_file" => op.entry.size = 0
    BY DEF GrowthRight
  <1>2. CASE Spares
    BY <1>2, SparesLinked DEF Stays
  <1>3. CASE Request
    BY <1>3 DEF Request, fat32_create_file, fat32_create_directory, fat32_write, fat32_rename,
       fat32_remove, Ready
  <1>4. CASE WriteEntry
    <2>1. CASE op.kind # "rename"
      <3>1. op.kind \in {"create_file", "create_directory"} /\ Complete
        <4>1. PICK o \in Call : o = op
          BY PlacedFacts
        <4> QED BY <1>4, <2>1, <4>1, EntryEffect
      <3>2. c.name = op.kind /\ Comes(Twigs, c.path, op.dir, op.entry.name)
        BY <3>1 DEF LinkedTo
      <3>3. PICK kind : kind = IF op.kind = "create_file" THEN "file" ELSE "dir"
        OBVIOUS
      <3>4. EnterAt(Twigs, Twigs', c.path, kind) /\ op' = Idle
        BY <1>1, <1>4, <2>1, <3>2, <3>3, CreateTurns
      <3>5. Ended
        BY <3>1, <3>4, CompleteEnds
      <3> QED BY <3>1, <3>2, <3>3, <3>4, <3>5 DEF Reshaped
    <2>2. CASE op.kind = "rename" /\ op.slot # op.at
      BY <1>4, <2>2, MoveLinked DEF Stays
    <2>3. CASE op.kind = "rename" /\ op.slot = op.at
      <3>1. c.name = "rename" /\ HasAt(c.path, op.at) /\ Comes(Twigs, c.new_path, op.dir, op.entry.name)
        BY <2>3 DEF LinkedTo
      <3>2. ShiftAt(Twigs, Twigs', c.path, c.new_path) /\ op' = Idle
        BY <1>4, <2>3, <3>1, RenameTurns
      <3>3. Complete
        BY <1>4, <2>3 DEF WriteEntry
      <3>4. Ended
        BY <3>2, <3>3, CompleteEnds
      <3> QED BY <3>1, <3>2, <3>4 DEF Reshaped
    <2> QED BY <2>1, <2>2, <2>3
  <1>5. CASE UpdateEntry
    <2>1. op.kind = "write"
      <3>1. op \in Call /\ op.step = "update" /\ StepOK(op)
        BY <1>5, PlacedFacts DEF UpdateEntry
      <3>2. op.kind \in Operations \cup {"none"}
        BY <3>1 DEF Call
      <3> QED BY <3>1, <3>2 DEF StepOK, Operations
    <2>2. /\ c.name = "write" /\ HasAt(c.path, op.at)
          /\ op.entry.size = IF c.end > EntryAt(op.at).size THEN c.end ELSE EntryAt(op.at).size
      BY <2>1 DEF LinkedTo
    <2>3. GrowAt(Twigs, Twigs', c.path, c.end) /\ op' = Idle
      BY <1>5, <2>2, UpdateTurns
    <2>4. Ended
      BY <1>5, <2>3, CompleteEnds DEF UpdateEntry
    <2> QED BY <2>2, <2>3, <2>4 DEF Reshaped
  <1>6. CASE UnlinkEntry
    <2>1. Complete
      BY <1>6 DEF UnlinkEntry
    <2>2. PICK loc : loc = IF op.step = "unlink" THEN op.at ELSE op.slot
      OBVIOUS
    <2>3. op.kind \in {"rename", "remove"}
      BY <1>6, <2>2, DropEffect
    <2>4. CASE op.kind = "rename"
      <3>1. c.name = "rename" /\ HasAt(c.path, op.at) /\ Comes(Twigs, c.new_path, op.dir, op.entry.name)
        BY <2>4 DEF LinkedTo
      <3>2. ShiftAt(Twigs, Twigs', c.path, c.new_path) /\ op' = Idle
        BY <1>6, <2>4, <3>1, MovedTurns
      <3>3. Ended
        BY <2>1, <3>2, CompleteEnds
      <3> QED BY <3>1, <3>2, <3>3 DEF Reshaped
    <2>5. CASE op.kind = "remove"
      <3>1. c.name = "remove" /\ HasAt(c.path, op.at)
        BY <2>5 DEF LinkedTo
      <3>2. LeaveAt(Twigs, Twigs', c.path) /\ op' = Idle
        BY <1>6, <2>5, <3>1, RemoveTurns
      <3>3. Ended
        BY <2>1, <3>2, CompleteEnds
      <3> QED BY <3>1, <3>2, <3>3 DEF Reshaped
    <2> QED BY <2>3, <2>4, <2>5
  <1>7. CASE UndoEntry
    <2>1. Twigs' = Twigs
      BY <1>7, UndoTurns
    <2>2. PICK loc : loc = IF op.step = "unlink" THEN op.at ELSE op.slot
      OBVIOUS
    <2>3. op' = Idle /\ op.step = "undo" /\ op.kind = "rename"
      BY <1>7, <2>2, DropEffect DEF UndoEntry
    <2>4. Finish("error") \/ Recover
      BY <1>7 DEF UndoEntry, WriteFails
    <2>5. ret' = "error"
      BY <2>3, <2>4 DEF Finish, Recover
    <2> QED BY <2>1, <2>3, <2>5
  <1> QED BY <1>2, <1>3, <1>4, <1>5, <1>6, <1>7, NextCases
-----------------------------------------------------------------------------
(* A call begins: it is refused, or about what it was asked.               *)
LEMMA CallsAre ==
  ASSUME NEW c \in Calls
  PROVE  /\ c.path \in Paths /\ c.path \in Way
         /\ c.name = "rename" => c.new_path \in Paths /\ c.new_path \in Way
         /\ c.name = "write" => c.end \in Nat
         /\ c # Abstract!NoCall
  <1>1. Paths \subseteq Way
    BY CallerAssumption DEF Way
  <1>2. CASE c \in [name : {"create_file", "create_directory", "remove"}, path : Paths]
    BY <1>1, <1>2 DEF Abstract!NoCall
  <1>3. CASE c \in [name : {"rename"}, path : Paths, new_path : Paths]
    BY <1>1, <1>3 DEF Abstract!NoCall
  <1>4. CASE c \in [name : {"write"}, path : Paths,
                    end : {offset + length : offset \in Offsets, length \in Lengths}]
    <2>1. c.name = "write" /\ c.path \in Paths /\ c.end \in {offset + length : offset \in Offsets, length \in Lengths}
      BY <1>4
    <2>2. c.end \in Nat
      BY <2>1, CallerAssumption DEF Size
    <2> QED BY <1>1, <2>1, <2>2 DEF Abstract!NoCall
  <1> QED BY <1>2, <1>3, <1>4 DEF Calls

LEMMA PerformIs ==
  ASSUME NEW c \in Calls, Perform(c)
  PROVE  Request /\ op.step = "idle"
  <1>1. Request
    BY CallsAre DEF Perform, Request
  <1>2. op.step = "idle"
    BY DEF Perform, fat32_create_file, fat32_create_directory, fat32_write, fat32_rename, fat32_remove, Ready
  <1> QED BY <1>1, <1>2

(* What begins is the call, when it has the fields that say so.            *)
Begun(n, c) ==
  /\ n.kind = c.name
  /\ c.name \in {"create_file", "create_directory"} =>
       ParentOf(c.path) \in Clusters /\ n.dir = ParentOf(c.path) /\ n.entry.name = NameOf(c.path)
  /\ c.name \in {"write", "rename", "remove"} => n.at \in Lookup(c.path)
  /\ c.name = "write" => n.entry.size = IF c.end > EntryAt(n.at).size THEN c.end ELSE EntryAt(n.at).size
  /\ c.name = "rename" =>
       ParentOf(c.new_path) \in Clusters /\ n.dir = ParentOf(c.new_path) /\ n.entry.name = NameOf(c.new_path)

LEMMA CreateBegins ==
  ASSUME NEW c \in Calls, NEW n, n = op',
         \/ c.name = "create_file" /\ fat32_create_file(c.path)
         \/ c.name = "create_directory" /\ fat32_create_directory(c.path)
  PROVE  (op' = Idle /\ ret' # "ok") \/ Begun(n, c)
  <1>1. CASE Refuse
    BY <1>1 DEF Refuse, Finish
  <1>2. CASE ~Refuse
    <2>1. PICK kind, step, what :
            /\ kind = c.name /\ ParentOf(c.path) \in Clusters
            /\ n = [Idle EXCEPT !.kind = kind, !.step = step, !.dir = ParentOf(c.path),
                      !.entry = fat32_build_entry(what, NameOf(c.path), Free, 0)]
      BY <1>2 DEF fat32_create_file, fat32_create_directory, Begin
    <2>2. n.kind = c.name /\ n.dir = ParentOf(c.path) /\ n.entry.name = NameOf(c.path)
      BY <2>1, IdleType DEF Call, fat32_build_entry
    <2>3. c.name \in {"create_file", "create_directory"}
      OBVIOUS
    <2> QED BY <2>1, <2>2, <2>3 DEF Begun
  <1> QED BY <1>1, <1>2

LEMMA RemoveBegins ==
  ASSUME NEW c \in Calls, NEW n, n = op', c.name = "remove", fat32_remove(c.path)
  PROVE  (op' = Idle /\ ret' # "ok") \/ Begun(n, c)
  <1>1. CASE Refuse
    BY <1>1 DEF Refuse, Finish
  <1>2. CASE ~Refuse
    <2>1. PICK loc \in Lookup(c.path) :
            n = [Idle EXCEPT !.kind = "remove", !.at = loc,
                   !.first = EntryAt(loc).first, !.cur = EntryAt(loc).first,
                   !.step = IF EntryAt(loc).first = Free THEN "unlink" ELSE "free"]
      BY <1>2 DEF fat32_remove, Begin
    <2>2. n.kind = "remove" /\ n.at = loc
      BY <2>1, IdleType DEF Call
    <2> QED BY <2>2 DEF Begun
  <1> QED BY <1>1, <1>2

LEMMA RenameBegins ==
  ASSUME Disk, NEW c \in Calls, NEW n, n = op', c.name = "rename", fat32_rename(c.path, c.new_path)
  PROVE  (op' = Idle /\ ret' # "ok") \/ Begun(n, c)
  <1>1. CASE Refuse
    BY <1>1 DEF Refuse, Finish
  <1>2. CASE ~Refuse
    <2>1. PICK loc \in Lookup(c.path) :
            /\ ParentOf(c.new_path) \in Clusters
            /\ n = RenameCall(loc, ParentOf(c.path), ParentOf(c.new_path), NameOf(c.new_path))
      BY <1>2 DEF fat32_rename, Begin
    <2>2. PICK name, to : name = NameOf(c.new_path) /\ to = ParentOf(c.new_path)
      OBVIOUS
    <2>3. EntryAt(loc) \in Entry
      BY CallsAre, LookupPlaced, FirstType
    <2>4. n.kind = "rename" /\ n.at = loc /\ n.dir = to /\ n.entry = [EntryAt(loc) EXCEPT !.name = name]
      BY <2>1, <2>2, IdleType DEF RenameCall, Call
    <2>5. n.entry.name = name
      BY <2>3, <2>4 DEF Entry
    <2> QED BY <2>1, <2>2, <2>4, <2>5 DEF Begun
  <1> QED BY <1>1, <1>2

LEMMA WriteBegins ==
  ASSUME TypeInv, Disk, NoCycle, NEW c \in Calls, NEW n, n = op', c.name = "write",
         NEW offset \in Offsets, NEW length \in Lengths, offset + length = c.end,
         fat32_write(c.path, offset, length)
  PROVE  (op' = Idle /\ ret' # "ok") \/ Begun(n, c)
  <1>1. CASE Refuse
    BY <1>1 DEF Refuse, Finish
  <1>2. CASE ~Refuse
    <2>1. PICK loc \in Lookup(c.path) :
            /\ offset + length < Word /\ ChainEnds(EntryAt(loc).first)
            /\ n = Resize(WriteCall(loc, EntryAt(loc), offset, length))
      BY <1>2 DEF fat32_write, Begin
    <2>2. loc \in Location /\ EntryAt(loc) \in Entry
      BY CallsAre, LookupPlaced, FirstType
    <2> DEFINE call == WriteCall(loc, EntryAt(loc), offset, length)
               size == NewSize(EntryAt(loc), offset, length)
    <2>3. /\ call \in Call /\ call.kind = "write" /\ call.at = loc /\ call.first = EntryAt(loc).first
          /\ call.entry.size = size
      <3>1. /\ TypeInv /\ loc \in Location /\ EntryAt(loc) \in Entry
            /\ offset \in Offsets /\ length \in Lengths /\ offset + length < Word
        BY <2>1, <2>2
      <3>2. /\ call \in Call /\ call.kind = "write" /\ call.at = loc /\ call.first = EntryAt(loc).first
            /\ call.entry.size = size
            /\ call.entry = [EntryAt(loc) EXCEPT !.size = size]
            /\ call.step = "idle"
        BY ONLY <3>1, WriteCallFields
      <3> QED BY <3>2
    <2>4. size = IF c.end > EntryAt(loc).size THEN c.end ELSE EntryAt(loc).size
      BY DEF NewSize
    <2>5. ChainEnds(call.first) /\ n = Resize(call)
      BY <2>1, <2>3
    <2> HIDE DEF call, size
    <2>6. PICK R : R = RequiredClusters(call.entry.size)
      OBVIOUS
    <2>7. n.kind = "write" /\ n.at = call.at /\ n.entry = call.entry
      BY ONLY NoCycle, <2>3, <2>5, <2>6, ResizeGrowth
    <2> QED BY <2>3, <2>4, <2>7 DEF Begun
  <1> QED BY <1>1, <1>2

LEMMA BegunLinks ==
  ASSUME Trunk, op.step = "idle", NEW c \in Calls, NEW n \in Call, StepOK(n), Begun(n, c)
  PROVE  LinkedTo(n, c)
  <1>1. Unseen(op) = {} /\ \A p : ~Hidden(p)
    BY DEF Unseen, Hidden
  <1>2. Seen = LiveEntries
    BY <1>1 DEF Seen
  <1>3. n.kind = c.name
    BY DEF Begun
  <1>4. c.name \in {"create_file", "create_directory", "remove", "rename", "write"} /\ n.step # "idle"
    <2>1. c.name \in {"create_file", "create_directory", "remove", "rename", "write"}
      BY DEF Calls
    <2> QED BY <1>3, <2>1 DEF StepOK, Appending
  <1>5. ASSUME NEW p \in Way, ParentOf(p) \in Clusters
        PROVE  Comes(Twigs, p, ParentOf(p), NameOf(p))
    BY <1>2, <1>5, ParentComes
  <1>6. ASSUME c.name \in {"write", "rename", "remove"}
        PROVE  n.at \in Seen /\ HasAt(c.path, n.at)
    <2>1. n.at \in Lookup(c.path) /\ c.path \in Way /\ ~Hidden(c.path)
      BY <1>1, <1>6, CallsAre DEF Begun
    <2> QED BY <2>1, FoundHas
  <1>7. c.name \in {"create_file", "create_directory"} => Comes(Twigs, c.path, n.dir, n.entry.name)
    BY <1>5, CallsAre DEF Begun
  <1>8. c.name = "rename" => Comes(Twigs, c.new_path, n.dir, n.entry.name)
    BY <1>5, CallsAre DEF Begun
  <1> QED BY <1>3, <1>4, <1>6, <1>7, <1>8 DEF LinkedTo, Begun

LEMMA AskedTurns ==
  ASSUME Trunk, OneHome', Placed, [Next]_vars, NEW c \in Calls, Perform(c)
  PROVE  Twigs' = Twigs /\ ((op' = Idle /\ ret' # "ok") \/ LinkedTo(op, c)')
  <1>1. Request /\ op.step = "idle" /\ Called(op) /\ TypeInv /\ Disk /\ NoCycle
    BY PerformIs DEF Trunk, Placed, Before
  <1>2. Stays
    BY <1>1, RequestCalled, TwigsStay DEF Stays
  <1>3. PICK n \in Call : n = op' /\ StepOK(n)
    <2>1. op' \in Call /\ StepOK(op)'
      BY PlacedFacts
    <2> QED BY <2>1 DEF StepOK
  <1>4. (op' = Idle /\ ret' # "ok") \/ Begun(n, c)
    BY <1>1, <1>3, CreateBegins, RemoveBegins, RenameBegins, WriteBegins DEF Perform
  <1>5. CASE Begun(n, c)
    <2>1. LinkedTo(n, c)
      BY <1>1, <1>3, <1>5, BegunLinks
    <2>2. n.step # "idle"
      BY <2>1 DEF LinkedTo
    <2>3. LinkedTo(op, c)'
      BY ONLY <1>2, <1>3, <2>1, <2>2, LinkedStays
    <2> QED BY <1>2, <2>3 DEF Stays
  <1> QED BY <1>2, <1>4, <1>5 DEF Stays
-----------------------------------------------------------------------------
(* The refinement.                                                         *)

(* A directory on the move whose dot entries are written: both its entries *)
(* lead to it, and only its dot-dot entry says which of them counts.       *)
Halfway(o) == o.kind = "rename" /\ o.step = "unlink" /\ o.entry.kind = "dir"

LEMMA HalfwaySpares ==
  ASSUME Trunk, Placed, [Next]_vars, Halfway(op)'
  PROVE  Spares
  <1>1. op'.kind = "rename" /\ op'.step = "unlink" /\ op'.entry.kind = "dir" /\ op' # Idle /\ Called(op)
    BY DEF Halfway, Trunk, Idle
  <1>2. CASE Request
    <2>1. op.step = "idle"
      BY <1>2 DEF Request, fat32_create_file, fat32_create_directory, fat32_write, fat32_rename,
         fat32_remove, Ready
    <2>2. Unseen(op) = {} /\ Unseen(op)' = {op'.slot}
      BY <1>1, <2>1 DEF Unseen
    <2> QED BY <1>1, <1>2, <2>2, RequestCalled
  <1>3. CASE WriteEntry
    <2>1. PICK o \in Call : o = op
      BY PlacedFacts
    <2>2. CASE o.kind = "rename" /\ o.slot # o.at
      <3>1. op' = [o EXCEPT !.step = IF o.entry.kind = "dir" THEN "dots" ELSE "unlink"]
        BY <1>3, <2>1, <2>2, EntryEffect
      <3>2. op'.entry = o.entry /\ op'.step = IF o.entry.kind = "dir" THEN "dots" ELSE "unlink"
        BY <2>1, <3>1 DEF Call
      <3> QED BY <1>1, <3>2
    <2>3. CASE o.kind = "create_directory"
      BY <1>1, <1>3, <2>1, <2>3, EntryEffect
    <2>4. CASE o.kind # "create_directory" /\ ~(o.kind = "rename" /\ o.slot # o.at)
      <3>1. Complete /\ o.step = "entry"
        BY <1>3, <2>1, <2>4, EntryEffect
      <3> QED BY <1>1, <2>1, <2>4, <3>1, CompleteOver
    <2> QED BY <2>2, <2>3, <2>4
  <1>4. CASE UpdateEntry
    <2>1. op.kind = "write" /\ op.step = "update"
      <3>1. op \in Call /\ op.step = "update" /\ StepOK(op)
        BY <1>4, PlacedFacts DEF UpdateEntry
      <3>2. op.kind \in Operations \cup {"none"}
        BY <3>1 DEF Call
      <3> QED BY <3>1, <3>2 DEF StepOK
    <2> QED BY <1>1, <1>4, <2>1, CompleteOver DEF UpdateEntry
  <1>5. CASE UnlinkEntry \/ UndoEntry
    <2>1. PICK loc : loc = IF op.step = "unlink" THEN op.at ELSE op.slot
      OBVIOUS
    <2> QED BY <1>1, <1>5, <2>1, DropEffect
  <1> QED BY <1>2, <1>3, <1>4, <1>5, NextCases

(* What the entries show, and what a call that is done has made of it.     *)
DoneIn(t, u, c) == \/ c.name = "create_file" /\ CreateIn(t, u, c.path, "file")
                   \/ c.name = "create_directory" /\ CreateIn(t, u, c.path, "dir")
                   \/ c.name = "write" /\ WriteIn(t, u, c.path, c.end)
                   \/ c.name = "rename" /\ RenameIn(t, u, c.path, c.new_path)
                   \/ c.name = "remove" /\ RemoveIn(t, u, c.path)

LEMMA ViewChanges ==
  ASSUME NEW G, NEW H, NEW t, NEW u, TreeLike(G), TreeLike(H), NEW c \in Calls, Reshaped(G, H, c),
         Pictures(t, G), Pictures(u, H)
  PROVE  DoneIn(t, u, c)
  BY CallsAre, EnterChanges, LeaveChanges, GrowChanges, ShiftChanges DEF Reshaped, DoneIn

(* What is done is what module FileTree says of the call.                  *)
LEMMA DoneAllowed ==
  ASSUME NEW c, c = called, DoneIn(tree, View, c), tree = [p \in TreePaths |-> tree[p]], tree' = View
  PROVE  Abstract!Done
  <1>1. DOMAIN tree = TreePaths /\ Nothing = Abstract!Absent
    BY DEF Nothing, Abstract!Absent, Abstract!Node
  <1>2. \A p : IsDir(tree, p) <=> Abstract!IsDirectory(p)
    BY DEF IsDir, Abstract!IsDirectory
  <1>3. \A kind, size : Abstract!Node(kind, size) = [kind |-> kind, size |-> size]
    BY DEF Abstract!Node
  <1>4. \A p : Abstract!Container(p) = Container(p)
    BY DEF Container, Abstract!Container
  <1>5. ASSUME NEW p, NEW kind, CreateIn(tree, View, p, kind)
        PROVE  Abstract!Create(p, kind)
    BY <1>1, <1>2, <1>3, <1>4, <1>5 DEF CreateIn, Abstract!Create
  <1>6. ASSUME NEW p, RemoveIn(tree, View, p)
        PROVE  Abstract!Remove(p)
    BY <1>1, <1>6 DEF RemoveIn, Abstract!Remove
  <1>7. ASSUME NEW p, NEW end, WriteIn(tree, View, p, end)
        PROVE  Abstract!Write(p, end)
    BY <1>3, <1>7 DEF WriteIn, Abstract!Write
  <1>8. ASSUME NEW p, NEW q, RenameIn(tree, View, p, q)
        PROVE  Abstract!Rename(p, q)
    BY <1>1, <1>2, <1>4, <1>8 DEF RenameIn, Abstract!Rename
  <1> QED BY <1>5, <1>6, <1>7, <1>8 DEF DoneIn, Abstract!Done

(* What holds while the volume is undamaged, what follows from it, and     *)
(* what only the steps show: the entries form a tree also while a          *)
(* directory is on the move; and a call in progress has done nothing yet,  *)
(* one that has ended has done what it was asked, or failed, or was struck *)
(* by a fault.                                                             *)
Unharmed == ~damaged /\ Called(op)
Standing == TypeOK /\ Consistent /\ Unharmed
Growing  == Trunk /\ (Halfway(op) \/ TreeLike(Twigs)) /\ Pictures(View, Twigs)
Grown    == TreeLike(Twigs)
Pending  ==
  /\ tree = [p \in TreePaths |-> tree[p]]
  /\ called # Abstract!NoCall => called \in Calls
  /\ called = Abstract!NoCall => op.step = "idle" /\ tree = View
  /\ op.step # "idle" => LinkedTo(op, called) /\ tree = View
  /\ called # Abstract!NoCall /\ op.step = "idle" =>
       \/ DoneIn(tree, View, called) /\ (ret = "ok" \/ struck)
       \/ tree = View /\ ret # "ok"

LEMMA StandingGrows == ASSUME Standing PROVE Growing
  <1>1. Trunk
    BY TrunkIs DEF Standing, Unharmed
  <1>2. Upward(op)
    BY DEF Standing, Unharmed, Consistent, Rooted
  <1>3. Halfway(op) \/ TreeLike(Twigs)
    BY <1>1, <1>2, UpwardSeen, TwigsTree DEF Halfway
  <1> QED BY <1>1, <1>3, Pictured DEF Growing

LEMMA TreeIsNext ==
  ASSUME [TreeNext]_<<vars, history>>
  PROVE  [Next]_vars /\ (~damaged => ~damaged')
  <1>1. Asked => Next
    BY PerformIs DEF Asked, Next
  <1>2. Worked => Next
    BY DEF Worked, Next
  <1>3. Answered \/ UNCHANGED <<vars, history>> => UNCHANGED vars
    BY DEF Answered
  <1>4. ~damaged => ~damaged'
    BY DEF TreeNext, vars
  <1> QED BY <1>1, <1>2, <1>3, <1>4 DEF TreeNext

LEMMA TreeStep ==
  ASSUME TypeOK, TypeOK', Consistent, Consistent', [TreeNext]_<<vars, history>>, ~damaged, Called(op)
  PROVE  ~damaged' /\ [Next]_vars /\ Placed /\ Called(op)' /\ GrowthRight(op)
  <1>1. [Next]_vars /\ ~damaged'
    BY TreeIsNext
  <1>2. Placed
    BY <1>1, ArrangedPlaced DEF Consistent
  <1>3. GrowthRight(op)
    BY DEF Consistent, Sized
  <1> QED BY <1>1, <1>2, <1>3, CalledStep

LEMMA InitTree ==
  ASSUME TreeInit
  PROVE  Init /\ Unharmed /\ ~Halfway(op) /\ Pending
  <1>1. Init /\ tree = View /\ called = Abstract!NoCall
    BY DEF TreeInit
  <1>2. Unharmed
    BY <1>1, InitCalled DEF Unharmed, Init
  <1>3. ~Halfway(op) /\ op.step = "idle"
    BY <1>1 DEF Halfway, Init, Idle
  <1>4. tree = [p \in TreePaths |-> tree[p]]
    BY <1>1 DEF View
  <1> QED BY <1>1, <1>2, <1>3, <1>4 DEF Pending

LEMMA GrownStep ==
  ASSUME Standing, Standing', Growing, Growing', Grown, [TreeNext]_<<vars, history>>
  PROVE  Grown'
  <1>1. Placed /\ [Next]_vars
    BY TreeStep DEF Standing, Unharmed
  <1>2. CASE Halfway(op)'
    <2>1. Trunk /\ Trunk' /\ Called(op)
      BY DEF Growing, Trunk
    <2>2. OneHome' /\ EntriesStay /\ Unseen(op)' = Unseen(op)
      BY <1>1, <1>2, <2>1, HomeNext, HalfwaySpares, SparesStep
    <2>3. Twigs' = Twigs
      BY <1>1, <2>1, <2>2, TwigsStay
    <2> QED BY <2>3 DEF Grown
  <1> QED BY <1>2 DEF Growing, Grown

LEMMA ViewStays ==
  ASSUME Growing, Growing', Twigs' = Twigs
  PROVE  View' = View
  <1>1. Pictures(View, Twigs) /\ Pictures(View', Twigs')
    BY DEF Growing
  <1> QED BY ONLY Twigs' = Twigs, <1>1, PicturesSame

LEMMA LinkedSame ==
  ASSUME NEW c, called' = c, LinkedTo(op, c)'
  PROVE  LinkedTo(op, called)'
  BY DEF LinkedTo, HasAt

(* A step of the disk alone, or none.                                      *)
LEMMA RestStep ==
  ASSUME Growing, Growing', Placed, [Next]_vars, UNCHANGED vars
  PROVE  View' = View /\ (op.step # "idle" => \A c : LinkedTo(op, c) => LinkedTo(op, c)')
  <1>1. Trunk /\ Trunk' /\ OneHome' /\ Called(op) /\ Spares
    BY HomeNext DEF Growing, Trunk, Spares
  <1>2. Twigs' = Twigs
    BY <1>1, SparesStep, TwigsStay
  <1>3. ASSUME op.step # "idle", NEW c, LinkedTo(op, c)
        PROVE  LinkedTo(op, c)'
    <2>1. op' # Idle
      BY <1>3 DEF vars, Idle
    <2> QED BY <1>1, <1>3, <2>1, SparesLinked
  <1> QED BY <1>2, <1>3, ViewStays

LEMMA PendingStep ==
  ASSUME Standing, Standing', Growing, Growing', Grown, Grown', Pending, [TreeNext]_<<vars, history>>
  PROVE  Pending' /\ [Abstract!Next]_<<tree, called, outcome>>
  <1>1. Placed /\ [Next]_vars /\ GrowthRight(op) /\ TypeOK
    BY TreeStep DEF Standing, Unharmed
  <1>2. Trunk /\ Trunk' /\ OneHome'
    BY HomeNext DEF Growing
  <1>3. View = [p \in TreePaths |-> View[p]]
    BY DEF View
  <1>4. PICK c : c = called
    OBVIOUS
  <1>5. CASE UNCHANGED <<vars, history>>
    <2>1. View' = View /\ (op.step # "idle" => LinkedTo(op, called)')
      <3>1. UNCHANGED vars /\ called' = c
        BY <1>4, <1>5 DEF history
      <3>2. View' = View /\ (op.step # "idle" => LinkedTo(op, c)')
        BY <1>1, <1>4, <3>1, RestStep DEF Pending
      <3> QED BY <3>1, <3>2, LinkedSame
    <2>2. UNCHANGED <<tree, called, outcome, struck, op, ret>>
      BY <1>5 DEF vars, history
    <2> QED BY <2>1, <2>2 DEF Pending
  <1>6. CASE Asked /\ tree' = View
    <2>1. PICK d \in Calls : Perform(d) /\ called' = d
      BY <1>6 DEF Asked
    <2>2. called = Abstract!NoCall /\ tree = View /\ outcome' = outcome
      BY <1>6 DEF Asked, Pending
    <2>3. Twigs' = Twigs /\ ((op' = Idle /\ ret' # "ok") \/ LinkedTo(op, d)')
      BY <1>1, <1>2, <2>1, AskedTurns
    <2>4. View' = View /\ d # Abstract!NoCall
      BY <2>3, ViewStays, CallsAre
    <2>5. Abstract!Ask(d)
      BY <1>6, <2>1, <2>2 DEF Abstract!Ask
    <2>6. CASE op' = Idle /\ ret' # "ok"
      <3>1. op'.step = "idle"
        BY <2>6 DEF Idle
      <3>2. Pending'
        BY <1>3, <1>6, <2>1, <2>4, <2>6, <3>1 DEF Pending
      <3> QED BY <2>5, <3>2 DEF Abstract!Next
    <2>7. CASE LinkedTo(op, d)'
      <3>1. LinkedTo(op, called)' /\ op'.step # "idle"
        BY <2>1, <2>7, LinkedSame DEF LinkedTo
      <3>2. Pending'
        BY <1>3, <1>6, <2>1, <2>4, <3>1 DEF Pending
      <3> QED BY <2>5, <3>2 DEF Abstract!Next
    <2> QED BY <2>3, <2>6, <2>7
  <1>7. CASE Worked /\ tree' = View
    <2>1. op.step # "idle"
      BY <1>7 DEF Worked, Step, FindSlot, DiskFull, MarkCluster, ZeroCluster, LinkCluster, WriteDots, WriteEntry,
         UnlinkEntry, UndoEntry, CutChain, FreeCluster, WriteData, UpdateEntry, WriteLost, Writing, PowerLoss
    <2>2. LinkedTo(op, c) /\ tree = View /\ c # Abstract!NoCall /\ c \in Calls
      BY <1>4, <2>1 DEF Pending
    <2>3. called' = c /\ UNCHANGED <<tree, called, outcome>> /\ struck' = (faults' # faults)
      BY <1>4, <1>7, <2>2 DEF Worked
    <2>4. \/ Twigs' = Twigs /\ LinkedTo(op, c)'
          \/ Twigs' = Twigs /\ op' = Idle /\ ret' # "ok"
          \/ Reshaped(Twigs, Twigs', c) /\ Ended
      BY <1>1, <1>2, <2>1, <2>2, CallTurns
    <2>5. CASE Twigs' = Twigs /\ LinkedTo(op, c)'
      <3>1. LinkedTo(op, called)' /\ op'.step # "idle" /\ View' = View
        BY <2>3, <2>5, LinkedSame, ViewStays DEF LinkedTo
      <3> QED BY <1>3, <1>7, <2>2, <2>3, <3>1 DEF Pending
    <2>6. CASE Twigs' = Twigs /\ op' = Idle /\ ret' # "ok"
      <3>1. op'.step = "idle" /\ View' = View
        BY <2>6, ViewStays DEF Idle
      <3> QED BY <1>3, <1>7, <2>2, <2>3, <2>6, <3>1 DEF Pending
    <2>7. CASE Reshaped(Twigs, Twigs', c) /\ Ended
      <3>1. DoneIn(View, View', c)
        <4>1. TreeLike(Twigs) /\ TreeLike(Twigs') /\ Pictures(View, Twigs) /\ Pictures(View', Twigs')
          BY DEF Grown, Growing
        <4> QED BY ONLY <2>2, <2>7, <4>1, ViewChanges
      <3>2. op'.step = "idle" /\ (ret' = "ok" \/ struck')
        BY <2>3, <2>7 DEF Ended, Idle
      <3>3. DoneIn(tree, View, called)'
        BY <1>7, <2>3, <3>1
      <3> QED BY <1>3, <1>7, <2>2, <2>3, <3>2, <3>3 DEF Pending
    <2> QED BY <2>4, <2>5, <2>6, <2>7
  <1>8. CASE Answered /\ tree' = View
    <2>1. /\ c # Abstract!NoCall /\ op.step = "idle" /\ called' = Abstract!NoCall /\ UNCHANGED vars
          /\ outcome' = IF ret = "ok" THEN "ok" ELSE IF struck THEN "broken" ELSE "error"
      BY <1>4, <1>8 DEF Answered
    <2>2. View' = View
      BY <1>1, <2>1, RestStep
    <2>3. op'.step = "idle"
      BY <2>1 DEF vars
    <2>4. Pending'
      BY <1>3, <1>8, <2>1, <2>2, <2>3 DEF Pending
    <2>5. \/ DoneIn(tree, View, c) /\ (ret = "ok" \/ struck)
          \/ tree = View /\ ret # "ok"
      BY <1>4, <2>1 DEF Pending
    <2>6. Abstract!Return(outcome')
      BY <1>4, <2>1 DEF Abstract!Return
    <2>7. CASE DoneIn(tree, View, c) /\ (ret = "ok" \/ struck)
      <3>1. Abstract!Done
        BY <1>4, <1>8, <2>7, DoneAllowed DEF Pending
      <3>2. outcome' = "ok" \/ outcome' = "broken"
        BY <2>1, <2>7
      <3>3. Abstract!Succeed \/ Abstract!Break
        BY <2>6, <3>1, <3>2 DEF Abstract!Succeed, Abstract!Break
      <3> QED BY <2>4, <3>3 DEF Abstract!Next
    <2>8. CASE tree = View /\ ret # "ok"
      <3>1. outcome' = "broken" \/ outcome' = "error"
        BY <2>1, <2>8
      <3>2. Abstract!Fail \/ Abstract!Break
        BY <1>8, <2>6, <2>8, <3>1 DEF Abstract!Fail, Abstract!Break
      <3> QED BY <2>4, <3>2 DEF Abstract!Next
    <2> QED BY <2>5, <2>7, <2>8
  <1> QED BY <1>5, <1>6, <1>7, <1>8 DEF TreeNext

(* On a volume that stays undamaged, the driver of fat32.cpp implements    *)
(* the tree and its calls: a call that returns success has changed the     *)
(* tree in one step and exactly as its arguments ask, a call that returns  *)
(* an error has not changed it, and one whose last write a fault struck    *)
(* has done all of it or nothing, whatever it returns.                     *)
THEOREM Fat32ImplementsTree == TreeSpec => ImplementsTree
  <1>1. TreeInit => Init /\ Unharmed /\ ~Halfway(op) /\ Pending
    BY InitTree
  <1>2. [TreeNext]_<<vars, history>> => [Next]_vars
    BY TreeIsNext
  <1>3. TreeSpec => []TypeOK /\ []Consistent
    <2>1. TreeSpec => Spec
      BY <1>1, <1>2, PTL DEF TreeSpec, Spec
    <2> QED BY <2>1, Fat32TypeOK, Fat32Consistent, PTL
  <1>4. TypeOK /\ TypeOK' /\ Consistent /\ Consistent' /\ Unharmed /\ [TreeNext]_<<vars, history>> => Unharmed'
    BY TreeStep DEF Unharmed
  <1>5. TypeOK /\ Consistent /\ Unharmed => Standing
    BY DEF Standing
  <1>6. TreeSpec => []Standing
    BY <1>1, <1>3, <1>4, <1>5, PTL DEF TreeSpec
  <1>7. Standing => Growing
    BY StandingGrows
  <1>8. Growing /\ ~Halfway(op) => Grown
    BY DEF Growing, Grown
  <1>9. Standing /\ Standing' /\ Growing /\ Growing' /\ Grown /\ [TreeNext]_<<vars, history>> => Grown'
    BY GrownStep
  <1>10. TreeSpec => []Growing /\ []Grown
    BY <1>1, <1>6, <1>7, <1>8, <1>9, PTL DEF TreeSpec
  <1>11. Standing /\ Standing' /\ Growing /\ Growing' /\ Grown /\ Grown' /\ Pending
         /\ [TreeNext]_<<vars, history>> => Pending' /\ [Abstract!Next]_<<tree, called, outcome>>
    BY PendingStep
  <1>12. TreeInit /\ Growing => Abstract!Init
    <2> SUFFICES ASSUME TreeInit, Growing PROVE Abstract!Init
      OBVIOUS
    <2>1. Twigs = {}
      <3>1. Seen = {}
        BY InitCalled DEF TreeInit, Seen
      <3> QED BY <3>1, TwigsAre
    <2>2. \A p \in TreePaths : View[p] = Nothing
      BY <2>1 DEF Growing, Pictures
    <2>3. tree = [p \in TreePaths |-> Abstract!Absent]
      <3>1. tree = [p \in TreePaths |-> View[p]] /\ Nothing = Abstract!Absent
        BY DEF TreeInit, View, Nothing, Abstract!Absent, Abstract!Node
      <3> QED BY ONLY <2>2, <3>1
    <2> QED BY <2>3 DEF Abstract!Init, TreeInit
  <1>13. Abstract!vars = <<tree, called, outcome>>
    BY DEF Abstract!vars
  <1> QED BY <1>1, <1>6, <1>10, <1>11, <1>12, <1>13, PTL DEF TreeSpec, ImplementsTree, Abstract!Spec, Abstract!vars
=============================================================================
