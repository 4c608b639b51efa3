------------------------------- MODULE Fat32 -------------------------------
(***************************************************************************)
(* The writing half of the FAT32 driver (kernel/fs/fat32/write.cpp): the   *)
(* five operations that change the volume, one action per sector write.    *)
(*                                                                         *)
(* A system call runs with interrupts off and never yields, so there is    *)
(* one operation at a time; what interleaves with it is the disk, which    *)
(* may fail a write (fat32_ata_write_sector gives up after its timeout,    *)
(* before or after the sector reached the platter), and the power, which   *)
(* may go between any two writes.  Reads change nothing, so the reads an   *)
(* operation makes between two writes belong to the step of the write that *)
(* follows them.                                                           *)
(*                                                                         *)
(* The allocation table is copy 0, the only one the code reads.  A         *)
(* directory cluster is a row of slots; a file cluster that holds data is  *)
(* a row of slots marked "data".                                           *)
(***************************************************************************)
EXTENDS Integers, Sequences, FiniteSets

CONSTANTS N,            \* cluster_count: the data clusters are 2 .. N + 1
          Root,         \* root_cluster
          Slots,        \* directory entries in one cluster (16 per sector)
          ClusterSize,  \* bytes in one cluster
          Word,         \* 2^32, the range of the ui32 sizes
          Names,        \* the 8.3 names
          NoName,       \* the name of a slot without one
          Paths,        \* the paths callers use: non-empty, no "." or ".."
          Offsets,      \* the offsets and the lengths callers write
          Lengths,
          Faults,       \* the kinds of disk fault considered
          MaxFaults     \* bound on the number of faults in one behaviour

Clusters == 2 .. N + 1
Free     == 0           \* a free table entry; also "no cluster" in the code
EndOfChain == N + 2     \* fat32_end_of_chain, beyond every valid cluster
Slot     == 0 .. Slots - 1
Size     == 0 .. Word - 1

ASSUME GeometryAssumption ==
  /\ N \in Nat /\ Root \in Clusters
  /\ Slots \in Nat /\ Slots >= 2
  /\ ClusterSize \in Nat \ {0}
  /\ Word \in Nat /\ Word > ClusterSize

ASSUME CallerAssumption ==
  /\ NoName \notin Names
  /\ Paths \subseteq Seq(Names) \ {<<>>}
  /\ Offsets \subseteq Size /\ Lengths \subseteq Size
  /\ Faults \subseteq {"write", "power", "lookup"}
  /\ MaxFaults \in Nat

(* What a directory slot holds: the end mark 0x00, the deleted mark 0xe5,  *)
(* a dot entry, a file, a directory, or the bytes of a file.               *)
Kinds == {"end", "deleted", "dot", "dotdot", "file", "dir", "data"}
Entry == [kind : Kinds, name : Names \cup {NoName},
          first : Clusters \cup {Free}, size : Size]
fat32_build_entry(kind, name, first, size) ==
  [kind |-> kind, name |-> name, first |-> first, size |-> size]
Mark(kind) == fat32_build_entry(kind, NoName, Free, 0)

Location == [cluster : Clusters, slot : Slot]
Nowhere  == [cluster |-> Root, slot |-> 0]   \* any, for a location not yet set

Operations == {"create_file", "create_directory", "write", "rename", "remove"}
Steps == {"idle",      \* no operation
          "slot",      \* about to look for a free directory slot
          "mark",      \* about to mark a free cluster as end of chain
          "zero",      \* about to zero the cluster just marked
          "link",      \* about to append that cluster to a chain
          "dots",      \* about to write the dot entries of a directory
          "entry",     \* about to write the new directory entry
          "unlink",    \* about to mark the old entry deleted
          "undo",      \* about to mark the new entry deleted again
          "cut",       \* about to end a chain early
          "free",      \* about to free the next cluster of a chain
          "data",      \* about to write the next data cluster
          "update"}    \* about to write first cluster and size of the file

VARIABLES fat,      \* the allocation table
          slots,    \* what each cluster holds
          op,       \* the operation in progress and its local variables
          ret,      \* how the last operation ended
          faults,   \* how many faults have struck
          damaged   \* a fault struck inside one of the Windows below

vars == <<fat, slots, op, ret, faults, damaged>>

Call == [kind : Operations \cup {"none"}, step : Steps,
         dir : Clusters,                 \* the directory that gets an entry
         entry : Entry,                  \* the entry to write there
         at : Location,                  \* the entry the caller named
         slot : Location,                \* where the new entry goes
         first : Clusters \cup {Free},   \* first cluster of the file
         new : Clusters \cup {Free},     \* the cluster being allocated
         last : Clusters \cup {Free},    \* the end of the chain to extend
         cur : Clusters \cup {Free},     \* the next cluster to free
         need : Nat,                     \* clusters still to append, or to keep
         pos : Nat, lim : Nat]           \* data clusters still to write

Idle == [kind |-> "none", step |-> "idle", dir |-> Root, entry |-> Mark("end"),
         at |-> Nowhere, slot |-> Nowhere, first |-> Free, new |-> Free,
         last |-> Free, cur |-> Free, need |-> 0, pos |-> 0, lim |-> 0]

TypeOK == /\ fat \in [Clusters -> Clusters \cup {Free, EndOfChain}]
          /\ slots \in [Clusters -> [Slot -> Entry]]
          /\ op \in Call
          /\ ret \in {"ok", "error", "lost"}
          /\ faults \in 0 .. MaxFaults
          /\ damaged \in BOOLEAN
-----------------------------------------------------------------------------
(* Reading the volume.                                                     *)

(* The scans take the first that fits: the set of the least member.        *)
Lowest(S) == {m \in S : \A n \in S : m <= n}

(* The clusters of a chain in order, ended by EndOfChain and then Free:    *)
(* fat32_next_cluster answers 0 for what is not a cluster.                 *)
Walk(first) ==
  LET next[k \in 0 .. N] ==
        IF k = 0 THEN first
        ELSE LET c == next[k - 1] IN IF c \in Clusters THEN fat[c] ELSE Free
  IN next

(* The k-th cluster of a chain: none when it ends before.                  *)
ClusterAt(first, k) == IF k \in 0 .. N THEN Walk(first)[k] ELSE Free

ChainSet(first) == {c \in Clusters : \E k \in 0 .. N : Walk(first)[k] = c}
fat32_chain_length(first) == Cardinality(ChainSet(first))

(* The cluster of a chain that holds the end mark: none when the chain     *)
(* runs into a free cluster or into itself.                                *)
LastCluster(first) == {c \in ChainSet(first) : fat[c] = EndOfChain}
ChainEnds(first) == first = Free \/ LastCluster(first) # {}

(* A chain that still goes on after as many clusters as there are.         *)
Loops(first) == Walk(first)[N] \in Clusters

(* The slots of a directory in the order the scans visit them.             *)
Positions(dir) == {p \in 0 .. N * Slots - 1 : Walk(dir)[p \div Slots] \in Clusters}
LocationOf(dir, p) == [cluster |-> Walk(dir)[p \div Slots], slot |-> p % Slots]
EntryAt(loc) == slots[loc.cluster][loc.slot]
KindAt(dir, p) == EntryAt(LocationOf(dir, p)).kind
Live == {"file", "dir"}

(* Positions a scan reaches before the first end mark.                     *)
Scanned(dir) ==
  LET ends == {p \in Positions(dir) : KindAt(dir, p) = "end"}
  IN {p \in Positions(dir) : \A q \in ends : p < q}

(* Where a name is in a directory: the set of the one location, or {}.     *)
fat32_find_in_directory(dir, name) ==
  LET hits == {p \in Scanned(dir) : /\ KindAt(dir, p) \in Live
                                    /\ EntryAt(LocationOf(dir, p)).name = name}
  IN {LocationOf(dir, p) : p \in Lowest(hits)}

(* fat32_resolve_parent: the directory that holds the last segment, or     *)
(* Free; and the location of the last segment, as a set.                   *)
ParentOf(path) ==
  LET dir[k \in 0 .. Len(path) - 1] ==
        IF k = 0 THEN Root
        ELSE LET above == dir[k - 1]
                 found == IF above = Free THEN {} ELSE fat32_find_in_directory(above, path[k])
                 child == EntryAt(CHOOSE loc \in found : TRUE)
             IN IF found # {} /\ child.kind = "dir" THEN child.first ELSE Free
  IN dir[Len(path) - 1]

NameOf(path) == path[Len(path)]
Lookup(path) == LET dir == ParentOf(path)
                IN IF dir \notin Clusters THEN {} ELSE fat32_find_in_directory(dir, NameOf(path))

fat32_directory_parent_cluster(c) ==
  IF c = Root THEN Root
  ELSE IF slots[c][1].kind # "dotdot" THEN Free
  ELSE IF slots[c][1].first = Free THEN Root ELSE slots[c][1].first

(* Mutant: only the directory itself is compared, not those above it.      *)
IsSameDirectory(dir, ancestor) == dir = ancestor

fat32_directory_is_descendant(dir, ancestor) ==
  LET up[k \in 0 .. N - 1] ==
        IF k = 0 THEN dir
        ELSE LET c == up[k - 1]
             IN IF c \in {ancestor, Root, Free} THEN c ELSE fat32_directory_parent_cluster(c)
  IN up[N - 1] = ancestor

fat32_directory_empty(dir) ==
  /\ \A p \in Scanned(dir) : KindAt(dir, p) \in {"deleted", "dot", "dotdot"}
  /\ Scanned(dir) = Positions(dir) => ChainEnds(dir)
-----------------------------------------------------------------------------
(* How a step ends.                                                        *)

Finish(result) == op' = Idle /\ ret' = result

(* Mutant: no cleanup after a failed fat32_create_directory.               *)
RecoverWithoutCleanup == IF op.kind = "rename" /\ op.step = "dots"
                         THEN op' = [op EXCEPT !.step = "undo"] /\ UNCHANGED ret
                         ELSE Finish("error")

(* The error path of the step in progress: fat32_create_directory frees    *)
(* the cluster it allocated, fat32_rename deletes the entry it wrote when  *)
(* the dot entries cannot follow, everything else just returns.            *)
Recover ==
  \/ /\ op.kind = "create_directory" /\ op.first # Free /\ op.step # "free"
     /\ op' = [op EXCEPT !.step = "free", !.cur = op.first]
     /\ UNCHANGED ret
  \/ /\ op.kind = "rename" /\ op.step = "dots"
     /\ op' = [op EXCEPT !.step = "undo"]
     /\ UNCHANGED ret
  \/ /\ ~(op.kind = "create_directory" /\ op.first # Free /\ op.step # "free")
     /\ ~(op.kind = "rename" /\ op.step = "dots")
     /\ Finish("error")

Fail == Recover /\ UNCHANGED <<fat, slots, faults, damaged>>

(* The windows: the places where a failed write, or a loss of power, may   *)
(* leave more than unused clusters behind.                                 *)
HalfRemoved == /\ op.kind = "remove" /\ op.first # Free
               /\ \/ op.step = "free" /\ op.cur # op.first
                  \/ op.step = "unlink"
TwiceNamed == op.kind = "rename" /\ op.step \in {"dots", "unlink", "undo"}

PowerWindow == HalfRemoved \/ TwiceNamed
WriteWindow(reached) ==
  \/ HalfRemoved /\ ~(reached /\ op.step = "unlink")
  \/ reached /\ op.kind = "remove" /\ op.step = "free"
  \/ reached /\ op.kind = "rename" /\ op.step = "entry" /\ op.slot # op.at
  \/ reached /\ op.kind = "rename" /\ op.step = "dots"
  \/ ~reached /\ op.kind = "rename" /\ op.step \in {"unlink", "undo"}
  \/ reached /\ op.kind = "create_directory" /\ op.step = "entry"

Strike(kind, window) == /\ kind \in Faults /\ faults < MaxFaults
                        /\ faults' = faults + 1
                        /\ damaged' = (damaged \/ window)

WriteFails(reached) == Strike("write", WriteWindow(reached)) /\ Recover

(* After its write, a step goes on, or the operation returns success; or   *)
(* the sector reached the disk and the driver reported a failure.          *)
Proceed(next) == \/ op' = next /\ UNCHANGED <<ret, faults, damaged>>
                 \/ WriteFails(TRUE)
Complete == \/ Finish("ok") /\ UNCHANGED <<faults, damaged>>
            \/ WriteFails(TRUE)
-----------------------------------------------------------------------------
(* The steps.                                                              *)

DataOrUpdate(o) == [o EXCEPT !.step = IF o.pos < o.lim THEN "data" ELSE "update"]
GrowOrWrite(o) == IF o.need > 0 THEN [o EXCEPT !.step = "mark"] ELSE DataOrUpdate(o)

(* Mutant: fat32_rename deletes the old entry before it writes the new one.*)
FindSlotAfterUnlink ==
  /\ op.step = "slot"
  /\ LET usable == {p \in Positions(op.dir) : KindAt(op.dir, p) \in {"end", "deleted"}}
     IN \/ /\ \E p \in Lowest(usable) :
                op' = [op EXCEPT !.slot = LocationOf(op.dir, p), !.step = "entry"]
           /\ slots' = IF op.kind = "rename"
                       THEN [slots EXCEPT ![op.at.cluster][op.at.slot] = Mark("deleted")]
                       ELSE slots
           /\ UNCHANGED <<fat, ret, faults, damaged>>
        \/ usable = {} /\ ~Loops(op.dir) /\ Fail

(* fat32_find_free_directory_slot: a deleted or never used slot; when the  *)
(* directory has none, a cluster is allocated and appended to its chain.   *)
(* The search does not count clusters: in a chain that closes on itself    *)
(* and has no slot left, there is no step, for the loop never ends.        *)
FindSlot ==
  /\ op.step = "slot"
  /\ LET usable == {p \in Positions(op.dir) : KindAt(op.dir, p) \in {"end", "deleted"}}
     IN \/ /\ \E p \in Lowest(usable) :
                op' = [op EXCEPT !.slot = LocationOf(op.dir, p), !.step = "entry"]
           /\ UNCHANGED <<fat, slots, ret, faults, damaged>>
        \/ /\ usable = {}
           /\ \E last \in LastCluster(op.dir) : op' = [op EXCEPT !.last = last, !.step = "mark"]
           /\ UNCHANGED <<fat, slots, ret, faults, damaged>>
        \/ usable = {} /\ LastCluster(op.dir) = {} /\ ~Loops(op.dir) /\ Fail

(* fat32_allocate_cluster: the first free cluster is marked, then zeroed.  *)
FreeClusters == {c \in Clusters : fat[c] = Free}

DiskFull == op.step = "mark" /\ FreeClusters = {} /\ Fail

(* Mutant: the cluster is handed out without being marked.                 *)
MarkNothing ==
  /\ op.step = "mark"
  /\ \E c \in Lowest(FreeClusters) : op' = [op EXCEPT !.new = c, !.step = "zero"]
  /\ UNCHANGED <<fat, slots, ret, faults, damaged>>

MarkCluster ==
  /\ op.step = "mark"
  /\ \E c \in Lowest(FreeClusters) : /\ fat' = [fat EXCEPT ![c] = EndOfChain]
                                    /\ Proceed([op EXCEPT !.new = c, !.step = "zero"])
  /\ UNCHANGED slots

(* What the new cluster is for: a directory of its own, the first cluster  *)
(* of an empty file, or the next cluster of a chain.                       *)
Allocated ==
  IF op.kind = "create_directory" /\ op.first = Free
  THEN [op EXCEPT !.first = op.new, !.entry.first = op.new, !.step = "dots"]
  ELSE IF op.kind = "write" /\ op.first = Free
  THEN GrowOrWrite([op EXCEPT !.first = op.new, !.last = op.new, !.need = @ - 1])
  ELSE [op EXCEPT !.step = "link"]

(* Mutant: the last cluster of the chain is zeroed, not the new one.       *)
ZeroWrongCluster ==
  /\ op.step = "zero"
  /\ slots' = [slots EXCEPT ![IF op.last = Free THEN op.new ELSE op.last] =
                                [s \in Slot |-> Mark("end")]]
  /\ Proceed(Allocated)
  /\ UNCHANGED fat

ZeroCluster ==
  /\ op.step = "zero"
  /\ slots' = [slots EXCEPT ![op.new] = [s \in Slot |-> Mark("end")]]
  /\ Proceed(Allocated)
  /\ UNCHANGED fat

(* Mutant: the two entries are written with their arguments exchanged.     *)
LinkBack ==
  /\ op.step = "link"
  /\ fat' = [fat EXCEPT ![op.last] = op.new, ![op.new] = op.last]
  /\ Proceed(IF op.kind = "write"
             THEN GrowOrWrite([op EXCEPT !.last = op.new, !.need = @ - 1])
             ELSE [op EXCEPT !.slot = [cluster |-> op.new, slot |-> 0], !.step = "entry"])
  /\ UNCHANGED slots

(* The second write of the link, which marks the new cluster as the end of *)
(* the chain again, changes nothing.                                       *)
LinkCluster ==
  /\ op.step = "link"
  /\ fat' = [fat EXCEPT ![op.last] = op.new]
  /\ Proceed(IF op.kind = "write"
             THEN GrowOrWrite([op EXCEPT !.last = op.new, !.need = @ - 1])
             ELSE [op EXCEPT !.slot = [cluster |-> op.new, slot |-> 0], !.step = "entry"])
  /\ UNCHANGED slots

(* fat32_write_dot_entries                                                 *)
WriteDots ==
  /\ op.step = "dots"
  /\ slots' = [slots EXCEPT
       ![op.first][0] = fat32_build_entry("dot", NoName, op.first, 0),
       ![op.first][1] = fat32_build_entry("dotdot", NoName, op.dir, 0)]
  /\ Proceed([op EXCEPT !.step = IF op.kind = "rename" THEN "unlink" ELSE "slot"])
  /\ UNCHANGED fat

(* fat32_write_entry_at                                                    *)
PutEntry(loc, entry) == slots' = [slots EXCEPT ![loc.cluster][loc.slot] = entry]

WriteEntry ==
  /\ op.step = "entry"
  /\ PutEntry(op.slot, op.entry)
  /\ IF op.kind = "rename" /\ op.slot # op.at
     THEN Proceed([op EXCEPT !.step = IF op.entry.kind = "dir" THEN "dots" ELSE "unlink"])
     ELSE Complete
  /\ UNCHANGED fat

UnlinkEntry == op.step = "unlink" /\ PutEntry(op.at, Mark("deleted")) /\ Complete /\ UNCHANGED fat

UndoEntry ==
  /\ op.step = "undo"
  /\ PutEntry(op.slot, Mark("deleted"))
  /\ \/ Finish("error") /\ UNCHANGED <<faults, damaged>>
     \/ WriteFails(TRUE)
  /\ UNCHANGED fat

(* Mutant: the tail is freed and the chain not ended before it.            *)
CutNothing ==
  /\ op.step = "cut"
  /\ LET tail == fat[ClusterAt(op.first, op.need - 1)]
     IN tail \in Clusters /\ Proceed([op EXCEPT !.cur = tail, !.step = "free"])
  /\ UNCHANGED <<fat, slots>>

(* fat32_resize_chain, the chain too long: it is ended after op.need       *)
(* clusters, then what followed is freed.                                  *)
CutChain ==
  /\ op.step = "cut"
  /\ LET keep_last == ClusterAt(op.first, op.need - 1)
         tail      == fat[keep_last]
     IN \/ /\ keep_last \in Clusters
           /\ fat' = [fat EXCEPT ![keep_last] = EndOfChain]
           /\ \/ tail \in Clusters /\ Proceed([op EXCEPT !.cur = tail, !.step = "free"])
              \/ tail = EndOfChain /\ Proceed(DataOrUpdate(op))
              \/ tail = Free /\ Recover /\ UNCHANGED <<faults, damaged>>
           /\ UNCHANGED slots
        \/ keep_last \notin Clusters /\ Fail

(* Mutant: the walk stays on the cluster it freed as long as it has a next.*)
FreeSameCluster ==
  /\ op.step = "free"
  /\ fat' = [fat EXCEPT ![op.cur] = IF @ \in Clusters THEN @ ELSE Free]
  /\ IF fat[op.cur] \in Clusters THEN Proceed(op)
     ELSE Proceed(IF op.kind = "remove" THEN [op EXCEPT !.step = "unlink"] ELSE DataOrUpdate(op))
  /\ UNCHANGED slots

(* fat32_free_cluster_chain, one cluster: the next one is read first.      *)
FreeCluster ==
  /\ op.step = "free"
  /\ fat' = [fat EXCEPT ![op.cur] = Free]
  /\ \/ fat[op.cur] \in Clusters /\ Proceed([op EXCEPT !.cur = fat[op.cur]])
     \/ /\ fat[op.cur] = EndOfChain
        /\ \/ op.kind = "remove" /\ Proceed([op EXCEPT !.step = "unlink"])
           \/ op.kind = "write" /\ Proceed(DataOrUpdate(op))
           \/ /\ op.kind = "create_directory"
              /\ \/ Finish("error") /\ UNCHANGED <<faults, damaged>>
                 \/ WriteFails(TRUE)
     \/ fat[op.cur] = Free /\ Recover /\ UNCHANGED <<faults, damaged>>
  /\ UNCHANGED slots

(* fat32_write_range, one cluster of it.                                   *)
WriteData ==
  /\ op.step = "data"
  /\ LET c == ClusterAt(op.first, op.pos)
     IN \/ /\ c \in Clusters
           /\ slots' = [slots EXCEPT ![c] = [s \in Slot |-> Mark("data")]]
           /\ Proceed(DataOrUpdate([op EXCEPT !.pos = @ + 1]))
           /\ UNCHANGED fat
        \/ c \notin Clusters /\ Fail

(* Mutant: the first cluster of a file that was empty is not recorded.     *)
UpdateSizeOnly == op.step = "update" /\ PutEntry(op.at, op.entry) /\ Complete /\ UNCHANGED fat

(* fat32_update_entry_size_and_cluster                                     *)
UpdateEntry ==
  /\ op.step = "update"
  /\ PutEntry(op.at, [op.entry EXCEPT !.first = op.first])
  /\ Complete
  /\ UNCHANGED fat
-----------------------------------------------------------------------------
(* The calls.  A call that finds a reason to refuse returns before its     *)
(* first write.  The volume is not used again once it is damaged (it       *)
(* needs a repair tool, which the repository does not have).               *)

Ready == op.step = "idle" /\ ~damaged

Begin(o) == op' = o /\ UNCHANGED ret
Refuse   == Finish("error")

(* Whether a scan finds a name; a scan whose read fails reports that the   *)
(* name does not exist.                                                    *)
Sees(exists, seen) == \/ seen = exists /\ UNCHANGED <<faults, damaged>>
                      \/ exists /\ ~seen /\ Strike("lookup", TRUE)

fat32_create_file(path) ==
  /\ Ready
  /\ \E seen \in BOOLEAN :
       /\ Sees(Lookup(path) # {}, seen)
       /\ IF ParentOf(path) \notin Clusters \/ seen THEN Refuse
          ELSE Begin([Idle EXCEPT !.kind = "create_file", !.step = "slot",
                        !.dir = ParentOf(path),
                        !.entry = fat32_build_entry("file", NameOf(path), Free, 0)])
  /\ UNCHANGED <<fat, slots>>

fat32_create_directory(path) ==
  /\ Ready
  /\ \E seen \in BOOLEAN :
       /\ Sees(Lookup(path) # {}, seen)
       /\ IF ParentOf(path) \notin Clusters \/ seen THEN Refuse
          ELSE Begin([Idle EXCEPT !.kind = "create_directory", !.step = "mark",
                        !.dir = ParentOf(path),
                        !.entry = fat32_build_entry("dir", NameOf(path), Free, 0)])
  /\ UNCHANGED <<fat, slots>>

(* Mutant: the size is always the end of the last write.                   *)
EndOfWrite(e, offset, length) == offset + length

(* fat32_write: the file never shrinks.  The rounding up to clusters is    *)
(* computed in 32 bits: for a size within ClusterSize of Word it wraps.    *)
NewSize(e, offset, length) == IF offset + length > e.size THEN offset + length ELSE e.size
RequiredClusters(size) == IF size = 0 THEN 0
                          ELSE ((size + ClusterSize - 1) % Word) \div ClusterSize

(* The clusters written, from FirstWritten up to, not including,           *)
(* AfterLastWritten: the gap after the old end is zeroed first.  A file    *)
(* left without a cluster skips the gap, and fails on its data.            *)
FirstWritten(e, offset) == (IF offset > e.size THEN e.size ELSE offset) \div ClusterSize
AfterLastWritten(e, offset, length) ==
  IF length = 0 /\ offset <= e.size THEN FirstWritten(e, offset)
  ELSE (offset + length - 1) \div ClusterSize + 1

WriteCall(loc, e, offset, length) ==
  LET call == [Idle EXCEPT !.kind = "write", !.at = loc, !.first = e.first,
                 !.entry = [e EXCEPT !.size = NewSize(e, offset, length)]]
  IN IF RequiredClusters(call.entry.size) = 0
     THEN [call EXCEPT !.lim = IF length > 0 THEN 1 ELSE 0]
     ELSE [call EXCEPT !.pos = FirstWritten(e, offset),
                       !.lim = AfterLastWritten(e, offset, length)]

(* fat32_resize_chain, up to its first write.                              *)
Resize(call) ==
  LET required == RequiredClusters(call.entry.size)
      have     == fat32_chain_length(call.first)
  IN IF required = 0
     THEN IF call.first = Free THEN DataOrUpdate(call)
          ELSE [call EXCEPT !.first = Free, !.cur = call.first, !.step = "free"]
     ELSE IF required < have
     THEN [call EXCEPT !.need = required, !.step = "cut"]
     ELSE GrowOrWrite([call EXCEPT !.need = required - have,
                         !.last = IF call.first = Free THEN Free
                                  ELSE CHOOSE last \in LastCluster(call.first) : TRUE])

(* Mutant: no check that the end of the write is a 32-bit size.            *)
WriteUnchecked(path, offset, length) ==
  /\ Ready
  /\ \E loc \in Lookup(path) :
       LET e == EntryAt(loc)
       IN /\ e.kind = "file" /\ ChainEnds(e.first)
          /\ Begin(Resize(WriteCall(loc, e, offset, length)))
          /\ damaged' = (RequiredClusters(NewSize(e, offset, length)) = 0)
  /\ UNCHANGED <<fat, slots, faults>>

fat32_write(path, offset, length) ==
  /\ Ready
  /\ \/ /\ \/ Lookup(path) = {}
           \/ \E loc \in Lookup(path) : EntryAt(loc).kind = "dir"
           \/ offset + length >= Word
        /\ Refuse /\ UNCHANGED damaged
     \/ /\ offset + length < Word
        /\ \E loc \in Lookup(path) :
             LET e == EntryAt(loc)
                 size == NewSize(e, offset, length)
             IN /\ e.kind = "file"
                /\ IF ChainEnds(e.first) THEN Begin(Resize(WriteCall(loc, e, offset, length)))
                   ELSE Refuse
                /\ damaged' = (size > 0 /\ RequiredClusters(size) = 0)
  /\ UNCHANGED <<fat, slots, faults>>

(* fat32_rename: within a directory the entry is rewritten in place;       *)
(* across directories it is copied and then deleted.                       *)
RenameCall(loc, from, to, name) ==
  [Idle EXCEPT !.kind = "rename", !.dir = to, !.at = loc, !.slot = loc,
     !.entry = [EntryAt(loc) EXCEPT !.name = name], !.first = EntryAt(loc).first,
     !.step = IF from = to THEN "entry" ELSE "slot"]

(* Mutant: fat32_rename does not look whether the new name is taken.       *)
RenameOver(path, new_path) ==
  /\ Ready
  /\ ParentOf(new_path) \in Clusters
  /\ \E loc \in Lookup(path) :
       IF /\ EntryAt(loc).kind = "dir" /\ ParentOf(new_path) # ParentOf(path)
          /\ fat32_directory_is_descendant(ParentOf(new_path), EntryAt(loc).first)
       THEN Refuse
       ELSE Begin(RenameCall(loc, ParentOf(path), ParentOf(new_path), NameOf(new_path)))
  /\ UNCHANGED <<fat, slots, faults, damaged>>

fat32_rename(path, new_path) ==
  LET from == ParentOf(path)
      to   == ParentOf(new_path)
  IN /\ Ready
     /\ \/ (Lookup(path) = {} \/ to \notin Clusters) /\ Refuse /\ UNCHANGED <<faults, damaged>>
        \/ /\ to \in Clusters
           /\ \E loc \in Lookup(path), seen \in BOOLEAN :
                /\ Sees(Lookup(new_path) # {}, seen)
                /\ IF \/ seen
                      \/ /\ EntryAt(loc).kind = "dir" /\ to # from
                         /\ fat32_directory_is_descendant(to, EntryAt(loc).first)
                   THEN Refuse
                   ELSE Begin(RenameCall(loc, from, to, NameOf(new_path)))
     /\ UNCHANGED <<fat, slots>>

fat32_remove(path) ==
  /\ Ready
  /\ \/ Lookup(path) = {} /\ Refuse
     \/ \E loc \in Lookup(path) :
          LET e == EntryAt(loc)
          IN IF e.kind = "dir" /\ ~fat32_directory_empty(e.first)
             THEN Refuse
             ELSE Begin([Idle EXCEPT !.kind = "remove", !.at = loc,
                           !.first = e.first, !.cur = e.first,
                           !.step = IF e.first = Free THEN "unlink" ELSE "free"])
  /\ UNCHANGED <<fat, slots, faults, damaged>>

(* The disk.                                                               *)
Writing == Steps \ {"idle", "slot"}

WriteLost == /\ op.step \in Writing
             /\ op.step = "mark" => FreeClusters # {}
             /\ WriteFails(FALSE)
             /\ UNCHANGED <<fat, slots>>

PowerLoss == /\ op.step # "idle"
             /\ Strike("power", PowerWindow)
             /\ Finish("lost")
             /\ UNCHANGED <<fat, slots>>
-----------------------------------------------------------------------------
(* An empty volume.  The image that the Makefile builds holds directories  *)
(* and files that mtools wrote; a volume with files is reached here by the *)
(* calls.                                                                  *)
Init == /\ fat = [c \in Clusters |-> IF c = Root THEN EndOfChain ELSE Free]
        /\ slots = [c \in Clusters |-> [s \in Slot |-> Mark("end")]]
        /\ op = Idle
        /\ ret = "ok"
        /\ faults = 0
        /\ damaged = FALSE

Step == \/ FindSlot \/ DiskFull \/ MarkCluster \/ ZeroCluster \/ LinkCluster
        \/ WriteDots \/ WriteEntry \/ UnlinkEntry \/ UndoEntry
        \/ CutChain \/ FreeCluster \/ WriteData \/ UpdateEntry

Request == \E path \in Paths :
             \/ fat32_create_file(path)
             \/ fat32_create_directory(path)
             \/ \E offset \in Offsets, length \in Lengths : fat32_write(path, offset, length)
             \/ \E new_path \in Paths : fat32_rename(path, new_path)
             \/ fat32_remove(path)

Next == Request \/ Step \/ WriteLost \/ PowerLoss

Spec == Init /\ [][Next]_vars

(* An operation in progress keeps running: the system call owns the        *)
(* processor until it returns.                                             *)
FairSpec == Spec /\ WF_vars(Step)
=============================================================================
