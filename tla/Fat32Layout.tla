---------------------------- MODULE Fat32Layout ----------------------------
(***************************************************************************)
(* What lies where on the volume: the invariant behind the properties that *)
(* say what an operation does to the files it was not called for.  Chains  *)
(* of directories and chains of files hold different things, every entry   *)
(* is in the chain of a directory, and a directory ends at its first end   *)
(* mark; and for the operation in progress, what it has read and will use. *)
(***************************************************************************)
EXTENDS Fat32Ownership

LiveOf(kind)   == {l \in LiveEntries : EntryAt(l).kind = kind}
DirectoryHeads == {Root} \cup {FirstOf(l) : l \in LiveOf("dir")}
Within(l, d)   == l.cluster \in ChainSet(d)

KindIn(c, s) == slots[c][s].kind
Barren(c) == \A s \in Slot : KindIn(c, s) \notin Live
Plain(c)  == \A s \in Slot : KindIn(c, s) \in {"end", "data"}
Blank(c)  == \A s \in Slot : KindIn(c, s) = "end"

(* After an end mark come end marks, to the end of the chain.              *)
EndsOnce(c) ==
  /\ \A s, t \in Slot : s < t /\ KindIn(c, s) = "end" => KindIn(c, t) = "end"
  /\ fat[c] \in Clusters /\ KindIn(c, Slots - 1) = "end" => KindIn(fat[c], 0) = "end"

Dot(c)       == slots[c][0] = fat32_build_entry("dot", NoName, c, 0)
DotDot(c, d) == slots[c][1] = fat32_build_entry("dotdot", NoName, d, 0)

EntriesListed == \A l \in LiveEntries : \E d \in DirectoryHeads : Within(l, d)
FilesPlain == \A l \in LiveOf("file") : \A c \in ChainSet(FirstOf(l)) : Plain(c)
EndsTidy   == \A d \in DirectoryHeads : \A c \in ChainSet(d) : EndsOnce(c)
NamesApart == \A d \in DirectoryHeads : \A l, m \in LiveEntries :
                l # m /\ Within(l, d) /\ Within(m, d) => EntryAt(l).name # EntryAt(m).name

(* While a directory moves, one of its two entries is not the one its dots *)
(* go by.                                                                  *)
Moving(o, l) == /\ o.kind = "rename"
                /\ \/ o.step \in {"dots", "undo"} /\ l = o.slot
                   \/ o.step = "unlink" /\ l = o.at
DotsRight(o) ==
  \A l \in LiveOf("dir") :
    /\ FirstOf(l) # Free
    /\ Dot(FirstOf(l))
    /\ ~Moving(o, l) => \A d \in DirectoryHeads : Within(l, d) => DotDot(FirstOf(l), d)
-----------------------------------------------------------------------------
(* The operation in progress.                                              *)

Enters(o) == \/ o.kind \in {"create_file", "create_directory"} /\ o.step # "free"
             \/ o.kind = "rename" /\ o.step \in {"slot", "entry"} \cup Appending

(* The directory that gets the entry, and that does not have its name yet. *)
DirectoryRight(o) ==
  Enters(o) => /\ o.dir \in DirectoryHeads
               /\ \A l \in LiveEntries : Within(l, o.dir) => EntryAt(l).name # o.entry.name

(* The chain that gets a cluster: none yet, the one of the file, or that   *)
(* of the directory, which has no slot left.                               *)
LastRight(o) ==
  o.step \in Appending =>
    \/ /\ o.last = Free /\ o.first = Free
       /\ o.kind \in {"create_directory", "write"} /\ o.step # "link"
    \/ /\ fat[o.last] = EndOfChain
       /\ \/ o.kind = "write" /\ o.last \in ChainSet(o.first)
          \/ /\ o.kind # "write" /\ o.last \in ChainSet(o.dir)
             /\ KindIn(o.last, Slots - 1) # "end"

(* The slot for the entry: the one of the entry to rename, or one that     *)
(* comes before every end mark.                                            *)
SlotRight(o) ==
  o.step = "entry" =>
    /\ Within(o.slot, o.dir)
    /\ \/ o.kind = "rename" /\ o.slot = o.at
       \/ /\ EntryAt(o.slot).kind \in {"end", "deleted"}
          /\ \A s \in Slot : s < o.slot.slot => KindIn(o.slot.cluster, s) # "end"
          /\ o.slot.slot = 0 => \A c \in Clusters :
               fat[c] = o.slot.cluster => KindIn(c, Slots - 1) # "end"

CreateRight(o) ==
  /\ Enters(o) /\ o.kind # "rename" =>
       o.entry.kind = IF o.kind = "create_file" THEN "file" ELSE "dir"
  /\ o.kind = "create_directory" /\ o.first = Free => o.step \in {"mark", "zero"}

NewDirectoryRight(o) ==
  o.kind = "create_directory" /\ o.first # Free /\ o.step # "free" =>
    /\ fat[o.first] = EndOfChain
    /\ IF o.step = "dots" THEN Blank(o.first)
       ELSE /\ Dot(o.first) /\ DotDot(o.first, o.dir)
            /\ \A s \in Slot : s > 1 => KindIn(o.first, s) = "end"

WriteRight(o) ==
  o.kind = "write" =>
    /\ o.at \in LiveOf("file") /\ FirstOf(o.at) \in {Free, o.first}
    /\ o.entry.kind = "file" /\ o.entry.name = EntryAt(o.at).name
    /\ \A c \in ChainSet(o.first) : Plain(c)

RenameRight(o) ==
  o.kind = "rename" =>
    /\ o.at \in LiveEntries /\ o.entry = [EntryAt(o.at) EXCEPT !.name = o.entry.name]
    /\ o.step \in {"dots", "unlink", "undo"} =>
         /\ o.slot \in LiveEntries /\ o.slot # o.at /\ EntryAt(o.slot) = o.entry
         /\ o.dir \in DirectoryHeads /\ Within(o.slot, o.dir)
    /\ o.step \in {"dots", "undo"} => o.entry.kind = "dir"

RemoveRight(o) ==
  o.kind = "remove" => o.at \in LiveEntries /\ \A c \in ChainSet(o.first) : Barren(c)

LayoutOf(o) ==
  /\ DirectoryRight(o) /\ LastRight(o) /\ SlotRight(o) /\ CreateRight(o) /\ NewDirectoryRight(o)
  /\ WriteRight(o) /\ RenameRight(o) /\ RemoveRight(o)
  /\ o.step = "link" => Blank(o.new)

Volume(o) == EntriesListed /\ FilesPlain /\ EndsTidy /\ NamesApart /\ DotsRight(o)

(* Everything is where the operations expect it, at every moment of every  *)
(* call: entries only in directories, before their first end mark and with *)
(* different names, dots where a directory begins, and neither in a file.  *)
Layout == ~damaged => Volume(op) /\ LayoutOf(op)

-----------------------------------------------------------------------------
(* The tree.  Directory d is where the entry of h is that its dots go by.  *)
Leads(h, d, o) == \E l \in LiveOf("dir") : FirstOf(l) = h /\ ~Moving(o, l) /\ Within(l, d)

(* No set of directories holds all that leads to it.                       *)
Upward(o) ==
  \A S \in SUBSET (DirectoryHeads \ {Root}) :
    S # {} => \E h \in S, d \in DirectoryHeads \ S : Leads(h, d, o)

(* A directory moves only to where it is not above: the destination, and   *)
(* whatever is above the destination, are without it.                      *)
Moves(o) == /\ o.kind = "rename" /\ o.entry.kind = "dir"
            /\ \/ o.step \in {"slot", "dots"} \cup Appending
               \/ o.step = "entry" /\ o.slot # o.at
Lineage(U) == \A l \in LiveOf("dir") : FirstOf(l) \in U => \E d \in U : Within(l, d)
MoveRight(o) ==
  Moves(o) => \E U \in SUBSET DirectoryHeads : o.dir \in U /\ o.first \notin U /\ Lineage(U)

(* Every directory comes down from the root, at every moment of every call.*)
Rooted == ~damaged => Upward(op) /\ MoveRight(op)

-----------------------------------------------------------------------------
(* As long as nothing has failed, the clusters the operation has in hand   *)
(* are on the way somewhere: the one allocated last is in the chain it was *)
(* for, and those to be freed are freed before the walk goes on.           *)
HeldRight(o) ==
  /\ o.step # "undo"
  /\ o.new # Free /\ o.step \notin {"zero", "link"} =>
       \/ o.new \in ChainSet(o.first)
       \/ (o.kind = "rename" \/ o.step = "entry") /\ o.new \in ChainSet(o.dir)
  /\ o.step \in {"cut", "free"} /\ o.kind # "create_directory" => o.new = Free
  /\ o.cur # Free /\ o.step # "free" =>
       o.step \in {"data", "update", "unlink"} /\ fat[o.cur] = Free
  /\ o.step = "free" /\ o.kind = "create_directory" => o.cur = o.first /\ fat[o.first] = EndOfChain
  /\ o.kind = "remove" => \/ o.step = "free" /\ o.cur = o.first
                          \/ o.first = Free \/ fat[o.first] = Free
Kept == faults = 0 /\ ~damaged => HeldRight(op)

-----------------------------------------------------------------------------
(* Every file has the clusters its size takes; the entry of a file being   *)
(* removed no longer, once the first of them is free.                      *)
Reaches(first, n)    == \A k \in 0 .. N : k < n => ClusterAt(first, k) \in Clusters
Covered(first, size) == /\ Reaches(first, RequiredClusters(size))
                        /\ size > 0 => RequiredClusters(size) > 0
Freeing(o) == o.kind = "remove" /\ o.first # Free /\ (o.step = "unlink" \/ o.cur # o.first)
FilesFull(o) == \A l \in LiveOf("file") :
                  ~(Freeing(o) /\ l = o.at) => Covered(FirstOf(l), EntryAt(l).size)

(* A write has the clusters of its new size, but for those it still is to  *)
(* append.                                                                 *)
GrowthRight(o) ==
  /\ o.kind = "create_file" => o.entry.size = 0
  /\ o.kind = "write" =>
       LET required == RequiredClusters(o.entry.size)
       IN /\ o.entry.size > 0 => required > 0
          /\ RequiredClusters(EntryAt(o.at).size) <= required
          /\ o.step = "cut" => o.need = required
          /\ Reaches(o.first, IF o.step \in Appending THEN required - o.need ELSE required)
Sized == ~damaged => FilesFull(op) /\ GrowthRight(op)

(* What every step keeps, and what the properties follow from: owners,     *)
(* chains without cycles, everything in its place, a tree, nothing in hand *)
(* that could get lost, and clusters for every byte of a file.             *)
Arranged   == Ownership /\ ChainsFinite /\ Layout
Consistent == Arranged /\ Rooted /\ Kept /\ Sized
=============================================================================
