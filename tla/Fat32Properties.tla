-------------------------- MODULE Fat32Properties --------------------------
(***************************************************************************)
(* What makes the volume of module Fat32 correct.                          *)
(***************************************************************************)
EXTENDS Fat32Read

Quiet == op.step = "idle" /\ ~damaged

LiveEntries == {loc \in Location : EntryAt(loc).kind \in Live}
FirstOf(loc) == EntryAt(loc).first

(* The first clusters of the directories reachable from the root, and the  *)
(* live entries of one of them.                                            *)
EntriesOf(dir) == {LocationOf(dir, p) : p \in {q \in Scanned(dir) : KindAt(dir, q) \in Live}}
Directories ==
  LET reach[k \in 0 .. N] ==
        IF k = 0 THEN {Root}
        ELSE LET above == reach[k - 1]
                 children == {l \in UNION {EntriesOf(d) : d \in above} : EntryAt(l).kind = "dir"}
             IN above \cup {FirstOf(l) : l \in children}
  IN reach[N]

(* While a rename across directories is between its two entries, both name *)
(* the same chain.                                                         *)
RenamePair(l, m) == TwiceNamed /\ {l, m} = {op.at, op.slot}

(* No cluster has two owners, at any moment of any operation: two table    *)
(* entries never hold the same successor, two directory entries never the  *)
(* same first cluster, and nobody holds the root's.                        *)
NoCrossLink ==
  ~damaged =>
    /\ \A c, d \in Clusters : c # d /\ fat[c] \in Clusters => fat[c] # fat[d]
    /\ \A l \in LiveEntries, m \in LiveEntries :
         l # m /\ FirstOf(l) # Free /\ ~RenamePair(l, m) => FirstOf(l) # FirstOf(m)
    /\ \A c \in Clusters, l \in LiveEntries : fat[c] \in Clusters => FirstOf(l) # fat[c]
    /\ \A c \in Clusters : fat[c] # Root
    /\ \A l \in LiveEntries : FirstOf(l) # Root

(* Between operations every entry's chain is allocated to its end mark: a  *)
(* file is never left with a cluster the allocator may give away.          *)
NoDanglingEntry == Quiet => \A l \in LiveEntries : ChainEnds(FirstOf(l))

(* Between operations the directories form a tree.  Every live entry can   *)
(* be reached from the root: none sits behind an end mark, in a directory  *)
(* removed with it, or in a cycle of directories that a rename cut off;    *)
(* and every directory starts with "." naming itself and ".." naming the   *)
(* directory that lists it.                                                *)
EveryEntryReachable == \A l \in LiveEntries : \E d \in Directories : l \in EntriesOf(d)
DotsNameParent ==
  \A d \in Directories : \A l \in EntriesOf(d) :
    EntryAt(l).kind = "dir" =>
      /\ slots[FirstOf(l)][0] = fat32_build_entry("dot", NoName, FirstOf(l), 0)
      /\ slots[FirstOf(l)][1] = fat32_build_entry("dotdot", NoName, d, 0)
DirectoriesFormTree == Quiet => EveryEntryReachable /\ DotsNameParent

(* Between operations a directory holds a name once.                       *)
NamesUnique ==
  Quiet => \A d \in Directories : \A l, m \in EntriesOf(d) :
    l # m => EntryAt(l).name # EntryAt(m).name

(* The clusters that are allocated and that nothing can reach any more:    *)
(* no entry, and no operation that still holds them.                       *)
Held == IF op.step = "idle" THEN {}
        ELSE ChainSet(op.first) \cup ChainSet(op.cur) \cup {op.new}
Orphans == {c \in Clusters : fat[c] # Free}
             \ (ChainSet(Root) \cup Held \cup UNION {ChainSet(FirstOf(l)) : l \in LiveEntries})

(* The first clusters of a file that was empty are known only to fat32_write  *)
(* until it has succeeded.                                                    *)
GivesUpOnEmptyFile == /\ op.kind = "write" /\ FirstOf(op.at) = Free
                      /\ op'.step = "idle" /\ ret' = "error"

(* Without a fault no step loses a cluster, but for one: fat32_write gives *)
(* up for want of space on a file that was empty.                          *)
NoClusterLost ==
  [][faults' = 0 /\ ~damaged' /\ ~GivesUpOnEmptyFile => Orphans' \subseteq Orphans]_vars

(* The entry a call is for: the one it is to write, rename or remove.      *)
CalledFor(o, l) == l = o.at /\ o.kind \in {"write", "rename", "remove"}

(* An operation changes nothing of any file it was not called for, and a   *)
(* call that creates something, of no file: their entries, the clusters of *)
(* their chains and what these hold stay as they are.                      *)
OthersUntouched ==
  [][\A l \in LiveEntries :
       ~damaged' /\ EntryAt(l).kind = "file" /\ ~CalledFor(op, l) =>
         /\ EntryAt(l)' = EntryAt(l)
         /\ \A c \in ChainSet(FirstOf(l)) : fat'[c] = fat[c] /\ slots'[c] = slots[c]]_vars

(* Only a removal takes away the last entry of a chain: a rename keeps the *)
(* file reachable under one of its names at every moment, and a failed or  *)
(* interrupted operation never drops a file.                               *)
OnlyRemovalDrops ==
  [][\A l \in LiveEntries :
       ~damaged' /\ FirstOf(l) # Free /\ op.kind # "remove" =>
         \E m \in LiveEntries' : FirstOf(m)' = FirstOf(l)]_vars

(* Every call returns.  Two loops of write.cpp have no bound but the chain *)
(* itself: the search for a free directory slot, which goes round a chain  *)
(* that closes on itself, and the freeing of a chain, which goes on while  *)
(* there is a next cluster.  The other walks count up to cluster_count.    *)
CallsReturn == op.step # "idle" ~> op.step = "idle"
=============================================================================
