---------------------------- MODULE Fat32Proofs ----------------------------
(***************************************************************************)
(* Proofs about the FAT32 driver, for every geometry, every set of names   *)
(* and paths, and any number of faults.                                    *)
(*                                                                         *)
(* First who owns a cluster: no link and no entry leads where another one  *)
(* leads already.  Then what follows from that: every chain ends, and      *)
(* every entry, mark and dot stays where the operations look for it.  That *)
(* part goes from the walks along a table, whatever the table, to what     *)
(* each kind of change does to the volume, whoever makes it, and to the    *)
(* steps of the driver, one after the other, which are a few such changes  *)
(* each.  At the end, what an operation was not called for stays as it is, *)
(* whatever fails on the way, and no step cuts a directory off the tree.   *)
(***************************************************************************)
EXTENDS Fat32Layout, FiniteSetTheorems, WellFoundedInduction, NaturalsInduction, TLAPS

TypeInv == TypeOK /\ CallOK(op)

(* The part of the type invariant that is not the disk.                    *)
MemoryOK == /\ op \in Call /\ CallOK(op)
            /\ ret \in {"ok", "error", "lost"}
            /\ faults \in 0 .. MaxFaults
            /\ damaged \in BOOLEAN

USE GeometryAssumption, CallerAssumption DEF Operations, Steps, Kinds, Appending

LEMMA MarkType == \A kind \in Kinds : Mark(kind) \in Entry
  BY DEF Mark, fat32_build_entry, Entry, Size

LEMMA IdleType == Idle \in Call /\ CallOK(Idle)
  <1>1. Nowhere \in Location
    BY DEF Nowhere, Location, Slot
  <1>2. Root \in Clusters
    OBVIOUS
  <1>3. Mark("end") \in Entry
    BY MarkType
  <1> QED BY <1>1, <1>2, <1>3 DEF Idle, Call, CallOK, StepOK

LEMMA FinishType ==
  ASSUME NEW result \in {"ok", "error", "lost"}, Finish(result)
  PROVE  op' \in Call /\ CallOK(op)' /\ ret' \in {"ok", "error", "lost"}
  BY IdleType DEF Finish, CallOK, StepOK

LEMMA RecoverType ==
  ASSUME TypeInv, Recover
  PROVE  op' \in Call /\ CallOK(op)' /\ ret' \in {"ok", "error", "lost"}
  <1>1. op \in Call /\ ret \in {"ok", "error", "lost"}
    BY DEF TypeInv, TypeOK
  <1>2. CASE /\ op.kind = "create_directory"
             /\ op' = [op EXCEPT !.step = "free", !.cur = op.first]
             /\ UNCHANGED ret
    BY <1>1, <1>2 DEF Call, CallOK, StepOK
  <1>3. CASE /\ op.kind = "rename"
             /\ op' = [op EXCEPT !.step = "undo"]
             /\ UNCHANGED ret
    BY <1>1, <1>3 DEF Call, CallOK, StepOK
  <1>4. CASE Finish("error")
    BY <1>4, FinishType
  <1> QED BY <1>2, <1>3, <1>4 DEF Recover

LEMMA StrikeType ==
  ASSUME TypeInv, NEW kind, NEW window \in BOOLEAN, Strike(kind, window)
  PROVE  faults' \in 0 .. MaxFaults /\ damaged' \in BOOLEAN
  BY DEF Strike, TypeInv, TypeOK

LEMMA WriteFailsType ==
  ASSUME TypeInv, NEW reached \in BOOLEAN, WriteFails(reached)
  PROVE  MemoryOK'
  <1>1. WriteWindow(reached) \in BOOLEAN
    BY DEF WriteWindow, HalfRemoved
  <1>2. faults' \in 0 .. MaxFaults /\ damaged' \in BOOLEAN
    BY <1>1, StrikeType DEF WriteFails
  <1> QED BY <1>2, RecoverType DEF WriteFails, MemoryOK

LEMMA ProceedType ==
  ASSUME TypeInv, NEW next \in Call, CallOK(next), Proceed(next)
  PROVE  MemoryOK'
  <1>1. CASE op' = next /\ UNCHANGED <<ret, faults, damaged>>
    BY <1>1 DEF MemoryOK, TypeInv, TypeOK, CallOK, StepOK
  <1>2. CASE WriteFails(TRUE)
    BY <1>2, WriteFailsType
  <1> QED BY <1>1, <1>2 DEF Proceed

LEMMA CompleteType ==
  ASSUME TypeInv, Complete
  PROVE  MemoryOK'
  <1>1. CASE Finish("ok") /\ UNCHANGED <<faults, damaged>>
    BY <1>1, FinishType DEF MemoryOK, TypeInv, TypeOK
  <1>2. CASE WriteFails(TRUE)
    BY <1>2, WriteFailsType
  <1> QED BY <1>1, <1>2 DEF Complete

LEMMA FailType ==
  ASSUME TypeInv, Fail
  PROVE  TypeInv'
  BY RecoverType DEF Fail, TypeInv, TypeOK

LEMMA MemoryType ==
  ASSUME TypeInv, MemoryOK',
         fat' \in [Clusters -> Clusters \cup {Free, EndOfChain}],
         slots' \in [Clusters -> [Slot -> Entry]]
  PROVE  TypeInv'
  BY DEF MemoryOK, TypeInv, TypeOK
-----------------------------------------------------------------------------
(* What the reads return.                                                  *)

LEMMA RecoverMemory ==
  ASSUME TypeInv, Recover, UNCHANGED <<faults, damaged>>
  PROVE  MemoryOK'
  BY RecoverType DEF MemoryOK, TypeInv, TypeOK

LEMMA FinishMemory ==
  ASSUME TypeInv, NEW result \in {"ok", "error", "lost"}, Finish(result),
         UNCHANGED <<faults, damaged>>
  PROVE  MemoryOK'
  BY FinishType DEF MemoryOK, TypeInv, TypeOK

LEMMA LocationType ==
  ASSUME NEW dir, NEW p \in Positions(dir)
  PROVE  LocationOf(dir, p) \in Location
  <1>1. Walk(dir)[p \div Slots] \in Clusters /\ p \in Int
    BY DEF Positions
  <1>2. p % Slots \in 0 .. Slots - 1
    BY <1>1
  <1> QED BY <1>1, <1>2 DEF LocationOf, Location, Slot

LEMMA FoundType ==
  ASSUME NEW dir, NEW name, NEW loc \in fat32_find_in_directory(dir, name)
  PROVE  loc \in Location
  BY LocationType DEF fat32_find_in_directory, Lowest, Scanned

LEMMA LookupType ==
  ASSUME NEW path, NEW loc \in Lookup(path)
  PROVE  loc \in Location /\ ParentOf(path) \in Clusters
  <1> DEFINE dir == ParentOf(path)
  <1>1. dir \in Clusters /\ loc \in fat32_find_in_directory(dir, NameOf(path))
    BY DEF Lookup
  <1> HIDE DEF dir
  <1>2. loc \in Location
    BY <1>1, FoundType
  <1> QED BY <1>1, <1>2 DEF dir

LEMMA EntryAtType ==
  ASSUME TypeInv, NEW loc \in Location
  PROVE  EntryAt(loc) \in Entry
  BY DEF TypeInv, TypeOK, EntryAt, Location

LEMMA NameType ==
  ASSUME NEW path \in Paths
  PROVE  NameOf(path) \in Names
  <1>1. path \in Seq(Names) /\ path # <<>>
    OBVIOUS
  <1> QED BY <1>1 DEF NameOf

LEMMA ChainLengthType ==
  ASSUME NEW first
  PROVE  fat32_chain_length(first) \in Nat
  <1>1. IsFiniteSet(Clusters)
    BY FS_Interval DEF Clusters
  <1>2. ChainSet(first) \subseteq Clusters
    BY DEF ChainSet
  <1> QED BY <1>1, <1>2, FS_Subset, FS_CardinalityType DEF fat32_chain_length

LEMMA LastType == \A first : LastCluster(first) \subseteq Clusters
  BY DEF LastCluster, ChainSet
-----------------------------------------------------------------------------
(* The steps.                                                              *)

LEMMA DataOrUpdateType ==
  ASSUME NEW o \in Call, o.kind = "write"
  PROVE  DataOrUpdate(o) \in Call /\ CallOK(DataOrUpdate(o))
  BY DEF DataOrUpdate, Call, CallOK, StepOK

LEMMA GrowOrWriteType ==
  ASSUME NEW o \in Call, o.kind = "write"
  PROVE  GrowOrWrite(o) \in Call /\ CallOK(GrowOrWrite(o))
  <1>1. CASE o.need > 0
    BY <1>1 DEF GrowOrWrite, Call, CallOK, StepOK
  <1>2. CASE ~(o.need > 0)
    BY <1>2, DataOrUpdateType DEF GrowOrWrite
  <1> QED BY <1>1, <1>2

LEMMA FindSlotType == ASSUME TypeInv, FindSlot PROVE TypeInv'
  <1> DEFINE usable == {p \in Positions(op.dir) : KindAt(op.dir, p) \in {"end", "deleted"}}
  <1>1. op \in Call
    BY DEF TypeInv, TypeOK
  <1>2. op.kind \in {"create_file", "create_directory", "rename"}
    BY <1>1 DEF TypeInv, CallOK, StepOK, FindSlot, Call
  <1>3. CASE /\ \E p \in Lowest(usable) :
                  op' = [op EXCEPT !.slot = LocationOf(op.dir, p), !.step = "entry"]
             /\ UNCHANGED <<fat, slots, ret, faults, damaged>>
    <2>1. PICK p \in Positions(op.dir) :
             op' = [op EXCEPT !.slot = LocationOf(op.dir, p), !.step = "entry"]
      BY <1>3 DEF Lowest
    <2>2. LocationOf(op.dir, p) \in Location
      BY LocationType
    <2>3. op' \in Call /\ CallOK(op')
      <3>1. op'.kind = op.kind /\ op'.step = "entry"
        BY <1>1, <2>1 DEF Call
      <3>2. CallOK(op')
        BY <1>2, <3>1 DEF CallOK, StepOK
      <3>3. "entry" \in Steps
        OBVIOUS
      <3> HIDE DEF Operations, Steps
      <3>4. op' \in Call
        BY <1>1, <2>1, <2>2, <3>3 DEF Call
      <3> QED BY <3>2, <3>4
    <2> QED BY <1>3, <2>3 DEF TypeInv, TypeOK, CallOK, StepOK
  <1>4. CASE /\ \E last \in LastCluster(op.dir) :
                  op' = [op EXCEPT !.last = last, !.step = "mark"]
             /\ UNCHANGED <<fat, slots, ret, faults, damaged>>
    <2>1. PICK last \in Clusters : op' = [op EXCEPT !.last = last, !.step = "mark"]
      BY <1>4, LastType
    <2>2. op' \in Call /\ CallOK(op')
      BY <1>1, <1>2, <2>1 DEF Call, CallOK, StepOK
    <2> QED BY <1>4, <2>2 DEF TypeInv, TypeOK, CallOK, StepOK
  <1>5. CASE Fail
    BY <1>5, FailType
  <1> QED BY <1>3, <1>4, <1>5 DEF FindSlot

LEMMA DiskFullType == ASSUME TypeInv, DiskFull PROVE TypeInv'
  BY FailType DEF DiskFull

LEMMA MarkClusterType == ASSUME TypeInv, MarkCluster PROVE TypeInv'
  <1>1. PICK c \in Clusters : /\ fat' = [fat EXCEPT ![c] = EndOfChain]
                              /\ Proceed([op EXCEPT !.new = c, !.step = "zero"])
    BY DEF MarkCluster, Lowest, FreeClusters
  <1> DEFINE next == [op EXCEPT !.new = c, !.step = "zero"]
  <1>2. next \in Call /\ CallOK(next)
    <2>1. op \in Call /\ CallOK(op) /\ op.step = "mark"
      BY DEF MarkCluster, TypeInv, TypeOK
    <2>2. /\ next.kind = op.kind /\ next.step = "zero"
          /\ next.new = c /\ next.need = op.need
      BY <2>1 DEF Call
    <2>3. "zero" \in Steps
      OBVIOUS
    <2>4. next \in Call
      <3> HIDE DEF Operations, Steps
      <3> QED BY <2>1, <2>3 DEF Call
    <2> HIDE DEF next
    <2>5. CallOK(next)
      BY <2>1, <2>2 DEF CallOK, StepOK
    <2> QED BY <2>4, <2>5
  <1>3. MemoryOK'
    BY <1>1, <1>2, ProceedType
  <1>4. fat' \in [Clusters -> Clusters \cup {Free, EndOfChain}]
    BY <1>1 DEF TypeInv, TypeOK
  <1> QED BY <1>3, <1>4, MemoryType DEF MarkCluster, TypeInv, TypeOK

LEMMA AllocatedType ==
  ASSUME TypeInv, op.step = "zero"
  PROVE  Allocated \in Call /\ CallOK(Allocated)
  <1>1. op \in Call /\ CallOK(op)
    BY DEF TypeInv, TypeOK
  <1>2. CASE op.kind = "create_directory" /\ op.first = Free
    <2>1. [op.entry EXCEPT !.first = op.new] \in Entry
      BY <1>1 DEF Call, Entry
    <2>2. Allocated = [op EXCEPT !.first = op.new,
                                 !.entry = [op.entry EXCEPT !.first = op.new],
                                 !.step = "dots"]
      BY <1>1, <1>2 DEF Allocated, Call
    <2>3. Allocated.kind = "create_directory" /\ Allocated.step = "dots"
      BY <1>1, <1>2, <2>2 DEF Call
    <2>4. "dots" \in Steps
      OBVIOUS
    <2>5. Allocated \in Call
      <3> HIDE DEF Operations, Steps
      <3> QED BY <1>1, <2>1, <2>2, <2>4 DEF Call
    <2> QED BY <2>3, <2>5 DEF CallOK, StepOK
  <1>3. CASE op.kind = "write" /\ op.first = Free
    <2> DEFINE o == [op EXCEPT !.first = op.new, !.last = op.new, !.need = op.need - 1]
    <2>1. op.need > 0
      BY <1>1, <1>3 DEF CallOK, StepOK
    <2>2. op.need - 1 \in Nat
      BY <1>1, <2>1 DEF Call
    <2>3. o \in Call /\ o.kind = "write"
      <3> HIDE DEF Operations, Steps
      <3> QED BY <1>1, <1>3, <2>2 DEF Call
    <2>4. Allocated = GrowOrWrite(o)
      BY <1>1, <1>3 DEF Allocated, Call
    <2> QED BY <2>3, <2>4, GrowOrWriteType
  <1>4. CASE /\ ~(op.kind = "create_directory" /\ op.first = Free)
             /\ ~(op.kind = "write" /\ op.first = Free)
    <2>1. Allocated = [op EXCEPT !.step = "link"]
      BY <1>4 DEF Allocated
    <2> QED BY <1>1, <2>1 DEF Call, CallOK, StepOK
  <1> QED BY <1>2, <1>3, <1>4

LEMMA MarkedRow == \A kind \in Kinds : [s \in Slot |-> Mark(kind)] \in [Slot -> Entry]
  BY MarkType

LEMMA ZeroClusterType == ASSUME TypeInv, ZeroCluster PROVE TypeInv'
  <1>1. MemoryOK'
    BY AllocatedType, ProceedType DEF ZeroCluster
  <1>2. slots' \in [Clusters -> [Slot -> Entry]]
    BY MarkedRow DEF ZeroCluster, TypeInv, TypeOK
  <1> QED BY <1>1, <1>2, MemoryType DEF ZeroCluster, TypeInv, TypeOK

LEMMA LinkClusterType == ASSUME TypeInv, LinkCluster PROVE TypeInv'
  <1>1. op \in Call /\ CallOK(op) /\ op.step = "link"
    BY DEF TypeInv, TypeOK, LinkCluster
  <1>2. MemoryOK'
    <2>1. CASE op.kind = "write"
      <3> DEFINE o == [op EXCEPT !.last = op.new, !.need = op.need - 1]
      <3>1. op.need > 0
        BY <1>1, <2>1 DEF CallOK, StepOK
      <3>2. op.need - 1 \in Nat
        BY <1>1, <3>1 DEF Call
      <3>3. o \in Call /\ o.kind = "write"
        BY <1>1, <2>1, <3>2 DEF Call
      <3>4. Proceed(GrowOrWrite(o))
        BY <1>1, <2>1 DEF LinkCluster, Call
      <3> HIDE DEF o
      <3> QED BY <3>3, <3>4, GrowOrWriteType, ProceedType
    <2>2. CASE op.kind # "write"
      <3> DEFINE o == [op EXCEPT !.slot = [cluster |-> op.new, slot |-> 0], !.step = "entry"]
      <3>1. [cluster |-> op.new, slot |-> 0] \in Location
        BY <1>1 DEF CallOK, StepOK, Location, Slot
      <3>2. o \in Call /\ CallOK(o)
        BY <1>1, <2>2, <3>1 DEF Call, CallOK, StepOK
      <3> QED BY <3>2, <2>2, ProceedType DEF LinkCluster
    <2> QED BY <2>1, <2>2
  <1>3. fat' \in [Clusters -> Clusters \cup {Free, EndOfChain}]
    BY <1>1 DEF LinkCluster, TypeInv, TypeOK, Call
  <1> QED BY <1>2, <1>3, MemoryType DEF LinkCluster, TypeInv, TypeOK

LEMMA PutType ==
  ASSUME TypeInv, NEW loc \in Location, NEW entry \in Entry, PutEntry(loc, entry)
  PROVE  slots' \in [Clusters -> [Slot -> Entry]]
  <1>1. slots[loc.cluster] \in [Slot -> Entry]
    BY DEF TypeInv, TypeOK, Location
  <1>2. [slots[loc.cluster] EXCEPT ![loc.slot] = entry] \in [Slot -> Entry]
    BY <1>1
  <1> QED BY <1>2 DEF PutEntry, TypeInv, TypeOK

LEMMA WriteDotsType == ASSUME TypeInv, WriteDots PROVE TypeInv'
  <1>1. op \in Call /\ CallOK(op) /\ op.step = "dots"
    BY DEF TypeInv, TypeOK, WriteDots
  <1> DEFINE next == [op EXCEPT !.step = IF op.kind = "rename" THEN "unlink" ELSE "slot"]
  <1>2. next \in Call /\ CallOK(next)
    BY <1>1 DEF Call, CallOK, StepOK
  <1>3. MemoryOK'
    BY <1>2, ProceedType DEF WriteDots
  <1>4. slots' \in [Clusters -> [Slot -> Entry]]
    <2> DEFINE dot    == fat32_build_entry("dot", NoName, op.first, 0)
               dotdot == fat32_build_entry("dotdot", NoName, op.dir, 0)
    <2>1. dot \in Entry /\ dotdot \in Entry
      BY <1>1 DEF fat32_build_entry, Entry, Call, Size
    <2>2. slots' = [slots EXCEPT ![op.first][0] = dot, ![op.first][1] = dotdot]
      BY DEF WriteDots
    <2> HIDE DEF dot, dotdot
    <2> QED BY <2>1, <2>2 DEF TypeInv, TypeOK
  <1> QED BY <1>3, <1>4, MemoryType DEF WriteDots, TypeInv, TypeOK

LEMMA WriteEntryType == ASSUME TypeInv, WriteEntry PROVE TypeInv'
  <1>1. op \in Call /\ CallOK(op) /\ op.step = "entry"
    BY DEF TypeInv, TypeOK, WriteEntry
  <1>2. MemoryOK'
    <2> DEFINE next == [op EXCEPT !.step = IF op.entry.kind = "dir" THEN "dots" ELSE "unlink"]
    <2>1. op.kind = "rename" => next \in Call /\ CallOK(next)
      BY <1>1 DEF Call, CallOK, StepOK
    <2>2. (op.kind = "rename" /\ Proceed(next)) \/ Complete
      BY DEF WriteEntry
    <2> HIDE DEF next
    <2> QED BY <2>1, <2>2, ProceedType, CompleteType
  <1>3. slots' \in [Clusters -> [Slot -> Entry]]
    BY <1>1, PutType DEF WriteEntry, Call
  <1> QED BY <1>2, <1>3, MemoryType DEF WriteEntry, TypeInv, TypeOK

LEMMA UnlinkEntryType == ASSUME TypeInv, UnlinkEntry PROVE TypeInv'
  <1>1. op \in Call
    BY DEF TypeInv, TypeOK
  <1>2. slots' \in [Clusters -> [Slot -> Entry]]
    BY <1>1, MarkType, PutType DEF UnlinkEntry, Call
  <1> QED BY <1>2, CompleteType, MemoryType DEF UnlinkEntry, TypeInv, TypeOK

LEMMA UndoEntryType == ASSUME TypeInv, UndoEntry PROVE TypeInv'
  <1>1. op \in Call
    BY DEF TypeInv, TypeOK
  <1>2. slots' \in [Clusters -> [Slot -> Entry]]
    BY <1>1, MarkType, PutType DEF UndoEntry, Call
  <1>3. MemoryOK'
    BY FinishMemory, WriteFailsType DEF UndoEntry
  <1> QED BY <1>2, <1>3, MemoryType DEF UndoEntry, TypeInv, TypeOK

LEMMA CutChainType == ASSUME TypeInv, CutChain PROVE TypeInv'
  <1>1. op \in Call /\ CallOK(op) /\ op.step = "cut"
    BY DEF TypeInv, TypeOK, CutChain
  <1>4. op.kind = "write"
    BY <1>1 DEF CallOK, StepOK, Call
  <1> DEFINE keep_last == ClusterAt(op.first, op.need - 1)
             tail      == fat[keep_last]
             next      == [op EXCEPT !.cur = tail, !.step = "free"]
  <1>2. CASE /\ keep_last \in Clusters
             /\ fat' = [fat EXCEPT ![keep_last] = EndOfChain]
             /\ \/ tail \in Clusters /\ Proceed(next)
                \/ Proceed(DataOrUpdate(op))
                \/ Recover /\ UNCHANGED <<faults, damaged>>
             /\ UNCHANGED slots
    <2>1. tail \in Clusters => next \in Call /\ CallOK(next)
      BY <1>1 DEF Call, CallOK, StepOK
    <2>2. fat' \in [Clusters -> Clusters \cup {Free, EndOfChain}]
      BY <1>2 DEF TypeInv, TypeOK
    <2> HIDE DEF next, tail, keep_last
    <2>3. MemoryOK'
      BY <1>1, <1>2, <1>4, <2>1, ProceedType, DataOrUpdateType, RecoverMemory
    <2> QED BY <1>2, <2>2, <2>3, MemoryType DEF TypeInv, TypeOK
  <1>3. CASE Fail
    BY <1>3, FailType
  <1> QED BY <1>2, <1>3 DEF CutChain

LEMMA FreeClusterType == ASSUME TypeInv, FreeCluster PROVE TypeInv'
  <1>1. op \in Call /\ CallOK(op) /\ op.step = "free"
    BY DEF TypeInv, TypeOK, FreeCluster
  <1> DEFINE follow == [op EXCEPT !.cur = fat[op.cur]]
             unlink == [op EXCEPT !.step = "unlink"]
  <1>2. fat[op.cur] \in Clusters => follow \in Call /\ CallOK(follow)
    BY <1>1 DEF Call, CallOK, StepOK
  <1>3. op.kind = "remove" => unlink \in Call /\ CallOK(unlink)
    BY <1>1 DEF Call, CallOK, StepOK
  <1>4. \/ fat[op.cur] \in Clusters /\ Proceed(follow)
        \/ op.kind = "remove" /\ Proceed(unlink)
        \/ op.kind = "write" /\ Proceed(DataOrUpdate(op))
        \/ Finish("error") /\ UNCHANGED <<faults, damaged>>
        \/ WriteFails(TRUE)
        \/ Recover /\ UNCHANGED <<faults, damaged>>
    BY DEF FreeCluster
  <1> HIDE DEF follow, unlink
  <1>5. MemoryOK'
    BY <1>1, <1>2, <1>3, <1>4, ProceedType, DataOrUpdateType, RecoverMemory, FinishMemory,
       WriteFailsType
  <1>6. fat' \in [Clusters -> Clusters \cup {Free, EndOfChain}]
    BY DEF FreeCluster, TypeInv, TypeOK
  <1> QED BY <1>5, <1>6, MemoryType DEF FreeCluster, TypeInv, TypeOK

LEMMA WriteDataType == ASSUME TypeInv, WriteData PROVE TypeInv'
  <1>1. op \in Call
    BY DEF TypeInv, TypeOK
  <1> DEFINE c == ClusterAt(op.first, op.pos)
             next == [op EXCEPT !.pos = op.pos + 1]
  <1>2. CASE /\ slots' = [slots EXCEPT ![c] = [s \in Slot |-> Mark("data")]]
             /\ Proceed(DataOrUpdate([op EXCEPT !.pos = @ + 1]))
             /\ UNCHANGED fat
    <2>1. Proceed(DataOrUpdate(next))
      BY <1>1, <1>2 DEF Call
    <2>2. next \in Call
      BY <1>1 DEF Call
    <2>3. slots' \in [Clusters -> [Slot -> Entry]]
      BY <1>2, MarkedRow DEF TypeInv, TypeOK
    <2>4. next.kind = "write"
      BY <1>1 DEF TypeInv, CallOK, StepOK, WriteData, Call
    <2> HIDE DEF next
    <2> QED BY <1>2, <2>1, <2>2, <2>3, <2>4, DataOrUpdateType, ProceedType, MemoryType
            DEF TypeInv, TypeOK
  <1>3. CASE Fail
    BY <1>3, FailType
  <1> QED BY <1>2, <1>3 DEF WriteData

LEMMA UpdateEntryType == ASSUME TypeInv, UpdateEntry PROVE TypeInv'
  <1>1. op \in Call
    BY DEF TypeInv, TypeOK
  <1>2. [op.entry EXCEPT !.first = op.first] \in Entry
    BY <1>1 DEF Call, Entry
  <1>3. slots' \in [Clusters -> [Slot -> Entry]]
    BY <1>1, <1>2, PutType DEF UpdateEntry, Call
  <1> QED BY <1>3, CompleteType, MemoryType DEF UpdateEntry, TypeInv, TypeOK
-----------------------------------------------------------------------------
(* The calls.                                                              *)

LEMMA BeginType ==
  ASSUME TypeInv, NEW o \in Call, CallOK(o), Begin(o)
  PROVE  op' \in Call /\ CallOK(op)' /\ ret' \in {"ok", "error", "lost"}
  BY DEF Begin, TypeInv, TypeOK, CallOK, StepOK

LEMMA RefuseType ==
  ASSUME TypeInv, Refuse
  PROVE  op' \in Call /\ CallOK(op)' /\ ret' \in {"ok", "error", "lost"}
  BY FinishType DEF Refuse

LEMMA SeesType ==
  ASSUME TypeInv, NEW exists \in BOOLEAN, NEW seen \in BOOLEAN, Sees(exists, seen)
  PROVE  faults' \in 0 .. MaxFaults /\ damaged' \in BOOLEAN
  <1>1. CASE UNCHANGED <<faults, damaged>>
    BY <1>1 DEF TypeInv, TypeOK
  <1>2. CASE Strike("lookup", TRUE)
    BY <1>2, StrikeType
  <1> QED BY <1>1, <1>2 DEF Sees

LEMMA CreateFileType ==
  ASSUME TypeInv, NEW path \in Paths, fat32_create_file(path)
  PROVE  TypeInv'
  <1> DEFINE o == [Idle EXCEPT !.kind = "create_file", !.step = "slot",
                     !.dir = ParentOf(path),
                     !.entry = fat32_build_entry("file", NameOf(path), Free, 0)]
  <1>1. ParentOf(path) \in Clusters => o \in Call /\ CallOK(o)
    <2>1. fat32_build_entry("file", NameOf(path), Free, 0) \in Entry
      BY NameType DEF fat32_build_entry, Entry, Size
    <2> QED BY <2>1, IdleType DEF Call, CallOK, StepOK
  <1>2. PICK seen \in BOOLEAN :
          /\ Sees(Lookup(path) # {}, seen)
          /\ Refuse \/ (ParentOf(path) \in Clusters /\ Begin(o))
    BY DEF fat32_create_file
  <1> HIDE DEF o
  <1>3. MemoryOK'
    BY <1>1, <1>2, SeesType, RefuseType, BeginType DEF MemoryOK
  <1> QED BY <1>3, MemoryType DEF fat32_create_file, TypeInv, TypeOK

LEMMA CreateDirectoryType ==
  ASSUME TypeInv, NEW path \in Paths, fat32_create_directory(path)
  PROVE  TypeInv'
  <1> DEFINE o == [Idle EXCEPT !.kind = "create_directory", !.step = "mark",
                     !.dir = ParentOf(path),
                     !.entry = fat32_build_entry("dir", NameOf(path), Free, 0)]
  <1>1. ParentOf(path) \in Clusters => o \in Call /\ CallOK(o)
    <2>1. fat32_build_entry("dir", NameOf(path), Free, 0) \in Entry
      BY NameType DEF fat32_build_entry, Entry, Size
    <2> QED BY <2>1, IdleType DEF Call, CallOK, StepOK
  <1>2. PICK seen \in BOOLEAN :
          /\ Sees(Lookup(path) # {}, seen)
          /\ Refuse \/ (ParentOf(path) \in Clusters /\ Begin(o))
    BY DEF fat32_create_directory
  <1> HIDE DEF o
  <1>3. MemoryOK'
    BY <1>1, <1>2, SeesType, RefuseType, BeginType DEF MemoryOK
  <1> QED BY <1>3, MemoryType DEF fat32_create_directory, TypeInv, TypeOK

(* The size a write leaves stays a 32-bit size, and its clusters are       *)
(* counted by natural numbers.                                             *)
LEMMA WriteCallType ==
  ASSUME TypeInv, NEW loc \in Location, NEW e \in Entry,
         NEW offset \in Offsets, NEW length \in Lengths, offset + length < Word
  PROVE  WriteCall(loc, e, offset, length) \in Call
  <1> DEFINE size == NewSize(e, offset, length)
             call == [Idle EXCEPT !.kind = "write", !.at = loc, !.first = e.first,
                        !.entry = [e EXCEPT !.size = size]]
  <1>1. offset \in Nat /\ length \in Nat /\ e.size \in Nat /\ e.size < Word
    BY DEF Entry, Size
  <1>2. size \in Size
    BY <1>1 DEF NewSize, Size
  <1>3. [e EXCEPT !.size = size] \in Entry
    BY <1>2 DEF Entry
  <1>4. e.first \in Clusters \cup {Free}
    BY DEF Entry
  <1>5. call \in Call
    BY <1>3, <1>4, IdleType DEF Call
  <1>6. FirstWritten(e, offset) \in Nat
    BY <1>1 DEF FirstWritten
  <1>7. AfterLastWritten(e, offset, length) \in Nat
    <2>1. CASE length = 0 /\ offset <= e.size
      BY <2>1, <1>6 DEF AfterLastWritten
    <2>2. CASE ~(length = 0 /\ offset <= e.size)
      <3>1. offset + length - 1 \in Nat
        BY <1>1, <2>2
      <3>2. (offset + length - 1) \div ClusterSize \in Nat
        BY <3>1
      <3> QED BY <2>2, <3>2 DEF AfterLastWritten
    <2> QED BY <2>1, <2>2
  <1>8. WriteCall(loc, e, offset, length) =
          IF RequiredClusters(call.entry.size) = 0
          THEN [call EXCEPT !.lim = IF length > 0 THEN 1 ELSE 0]
          ELSE [call EXCEPT !.pos = FirstWritten(e, offset),
                            !.lim = AfterLastWritten(e, offset, length)]
    BY DEF WriteCall
  <1> HIDE DEF call
  <1>9. [call EXCEPT !.lim = IF length > 0 THEN 1 ELSE 0] \in Call
    BY <1>5 DEF Call
  <1>10. [call EXCEPT !.pos = FirstWritten(e, offset),
                      !.lim = AfterLastWritten(e, offset, length)] \in Call
    BY <1>5, <1>6, <1>7 DEF Call
  <1> QED BY <1>8, <1>9, <1>10

LEMMA ResizeType ==
  ASSUME TypeInv, NEW call \in Call, call.kind = "write", ChainEnds(call.first)
  PROVE  Resize(call) \in Call /\ CallOK(Resize(call))
  <1> DEFINE required == RequiredClusters(call.entry.size)
             have     == fat32_chain_length(call.first)
             last     == IF call.first = Free THEN Free
                         ELSE CHOOSE l \in LastCluster(call.first) : TRUE
             grown    == [call EXCEPT !.need = required - have, !.last = last]
  <1>1. required \in Nat
    <2>1. call.entry.size \in Nat
      BY DEF Call, Entry, Size
    <2>2. (call.entry.size + ClusterSize - 1) % Word \in Nat
      BY <2>1
    <2>3. ((call.entry.size + ClusterSize - 1) % Word) \div ClusterSize \in Nat
      BY <2>2
    <2> QED BY <2>3 DEF RequiredClusters
  <1>2. have \in Nat
    BY ChainLengthType
  <1>3. last \in Clusters \cup {Free}
    BY LastType DEF ChainEnds
  <1>4. Resize(call) =
          IF required = 0
          THEN IF call.first = Free THEN DataOrUpdate(call)
               ELSE [call EXCEPT !.first = Free, !.cur = call.first, !.step = "free"]
          ELSE IF required < have THEN [call EXCEPT !.need = required, !.step = "cut"]
          ELSE GrowOrWrite(grown)
    BY DEF Resize
  <1>5. ~(required < have) => grown \in Call /\ grown.kind = "write"
    <2>1. ~(required < have) => required - have \in Nat
      BY <1>1, <1>2
    <2> HIDE DEF required, have, last
    <2> QED BY <1>3, <2>1 DEF Call
  <1>6. required < have => [call EXCEPT !.need = required, !.step = "cut"] \in Call
    BY <1>1 DEF Call
  <1>7. [call EXCEPT !.first = Free, !.cur = call.first, !.step = "free"] \in Call
    BY DEF Call
  <1>8. /\ CallOK([call EXCEPT !.need = required, !.step = "cut"])
        /\ CallOK([call EXCEPT !.first = Free, !.cur = call.first, !.step = "free"])
    <2> HIDE DEF required
    <2> QED BY DEF Call, CallOK, StepOK
  <1> HIDE DEF required, have, last, grown
  <1> QED BY <1>4, <1>5, <1>6, <1>7, <1>8, DataOrUpdateType, GrowOrWriteType

LEMMA WriteType ==
  ASSUME TypeInv, NEW path \in Paths, NEW offset \in Offsets, NEW length \in Lengths,
         fat32_write(path, offset, length)
  PROVE  TypeInv'
  <1>1. CASE Refuse /\ UNCHANGED <<faults, damaged>>
    BY <1>1, FinishMemory, MemoryType DEF Refuse, fat32_write, TypeInv, TypeOK
  <1>2. CASE /\ offset + length < Word
             /\ \E loc \in Lookup(path) :
                  LET e == EntryAt(loc)
                      size == NewSize(e, offset, length)
                  IN /\ e.kind = "file"
                     /\ IF ChainEnds(e.first)
                        THEN Begin(Resize(WriteCall(loc, e, offset, length)))
                        ELSE Refuse
                     /\ damaged' = (size > 0 /\ RequiredClusters(size) = 0)
    <2>1. PICK loc \in Lookup(path) :
            /\ \/ /\ ChainEnds(EntryAt(loc).first)
                  /\ Begin(Resize(WriteCall(loc, EntryAt(loc), offset, length)))
               \/ Refuse
            /\ damaged' \in BOOLEAN
      BY <1>2
    <2> DEFINE e == EntryAt(loc)
               call == WriteCall(loc, e, offset, length)
    <2>2. loc \in Location /\ e \in Entry
      BY LookupType, EntryAtType
    <2>3. call \in Call
      BY <1>2, <2>2, WriteCallType
    <2>4. call.first = e.first /\ call.kind = "write"
      BY <2>2, IdleType DEF WriteCall, Call, Entry
    <2>5. CASE ChainEnds(e.first) /\ Begin(Resize(call))
      <3> HIDE DEF call, e
      <3>1. Resize(call) \in Call /\ CallOK(Resize(call))
        BY <2>3, <2>4, <2>5, ResizeType
      <3>2. op' \in Call /\ CallOK(op)' /\ ret' \in {"ok", "error", "lost"}
        BY <2>5, <3>1, BeginType
      <3> QED BY <2>1, <3>2, MemoryType DEF MemoryOK, fat32_write, TypeInv, TypeOK
    <2>6. CASE Refuse
      BY <2>1, <2>6, RefuseType, MemoryType DEF MemoryOK, fat32_write, TypeInv, TypeOK
    <2> QED BY <2>1, <2>5, <2>6
  <1> QED BY <1>1, <1>2 DEF fat32_write

LEMMA RenameCallType ==
  ASSUME TypeInv, NEW loc \in Location, NEW from, NEW to \in Clusters, NEW name \in Names
  PROVE  RenameCall(loc, from, to, name) \in Call /\ CallOK(RenameCall(loc, from, to, name))
  <1>1. EntryAt(loc) \in Entry
    BY EntryAtType
  <1> DEFINE entry == [EntryAt(loc) EXCEPT !.name = name]
             first == EntryAt(loc).first
             step  == IF from = to THEN "entry" ELSE "slot"
             o == [Idle EXCEPT !.kind = "rename", !.dir = to, !.at = loc, !.slot = loc,
                     !.entry = entry, !.first = first, !.step = step]
  <1>2. entry \in Entry /\ first \in Clusters \cup {Free}
    BY <1>1 DEF Entry
  <1>3. step \in {"entry", "slot"}
    OBVIOUS
  <1>4. RenameCall(loc, from, to, name) = o
    BY DEF RenameCall
  <1> HIDE DEF entry, first, step
  <1>5. o \in Call
    BY <1>2, <1>3, IdleType DEF Call
  <1>6. o.kind = "rename" /\ o.step = step
    BY IdleType DEF Call
  <1>7. CallOK(o)
    BY <1>3, <1>6 DEF CallOK, StepOK
  <1> QED BY <1>4, <1>5, <1>7

LEMMA RenameType ==
  ASSUME TypeInv, NEW path \in Paths, NEW new_path \in Paths, fat32_rename(path, new_path)
  PROVE  TypeInv'
  <1> DEFINE from == ParentOf(path)
             to   == ParentOf(new_path)
  <1>1. CASE Refuse /\ UNCHANGED <<faults, damaged>>
    BY <1>1, FinishMemory, MemoryType DEF Refuse, fat32_rename, TypeInv, TypeOK
  <1>2. CASE /\ to \in Clusters
             /\ \E loc \in Lookup(path), seen \in BOOLEAN :
                  /\ Sees(Lookup(new_path) # {}, seen)
                  /\ Refuse \/ Begin(RenameCall(loc, from, to, NameOf(new_path)))
    <2>1. PICK loc \in Lookup(path), seen \in BOOLEAN :
            /\ Sees(Lookup(new_path) # {}, seen)
            /\ Refuse \/ Begin(RenameCall(loc, from, to, NameOf(new_path)))
      BY <1>2
    <2> DEFINE o == RenameCall(loc, from, to, NameOf(new_path))
    <2>2. o \in Call /\ CallOK(o)
      BY <1>2, LookupType, NameType, RenameCallType
    <2> HIDE DEF o, from, to
    <2>3. op' \in Call /\ CallOK(op)' /\ ret' \in {"ok", "error", "lost"}
      BY <2>1, <2>2, RefuseType, BeginType DEF o
    <2>4. faults' \in 0 .. MaxFaults /\ damaged' \in BOOLEAN
      BY <2>1, SeesType
    <2> QED BY <2>3, <2>4, MemoryType DEF MemoryOK, fat32_rename, TypeInv, TypeOK
  <1> QED BY <1>1, <1>2 DEF fat32_rename

LEMMA RemoveType ==
  ASSUME TypeInv, NEW path \in Paths, fat32_remove(path)
  PROVE  TypeInv'
  <1>1. CASE Refuse
    BY <1>1, FinishMemory, MemoryType DEF Refuse, fat32_remove, TypeInv, TypeOK
  <1>2. CASE ~Refuse
    <2>1. PICK loc \in Lookup(path) :
            Begin([Idle EXCEPT !.kind = "remove", !.at = loc,
                     !.first = EntryAt(loc).first, !.cur = EntryAt(loc).first,
                     !.step = IF EntryAt(loc).first = Free THEN "unlink" ELSE "free"])
      BY <1>2 DEF fat32_remove
    <2>2. loc \in Location /\ EntryAt(loc).first \in Clusters \cup {Free}
      <3>1. loc \in Location
        BY LookupType
      <3> QED BY <3>1, EntryAtType DEF Entry
    <2> DEFINE o == [Idle EXCEPT !.kind = "remove", !.at = loc,
                       !.first = EntryAt(loc).first, !.cur = EntryAt(loc).first,
                       !.step = IF EntryAt(loc).first = Free THEN "unlink" ELSE "free"]
    <2>3. o \in Call /\ CallOK(o)
      <3>1. o.kind = "remove" /\ o.step \in {"free", "unlink"}
        BY IdleType DEF Call
      <3>2. "remove" \in Operations /\ {"free", "unlink"} \subseteq Steps
        OBVIOUS
      <3>3. o \in Call
        <4> HIDE DEF Operations, Steps
        <4> QED BY <2>2, <3>2, IdleType DEF Call
      <3> HIDE DEF o
      <3> QED BY <3>1, <3>3 DEF CallOK, StepOK
    <2> HIDE DEF o
    <2>4. op' \in Call /\ CallOK(op)' /\ ret' \in {"ok", "error", "lost"}
      BY <2>1, <2>3, BeginType DEF o
    <2> QED BY <2>4, MemoryType DEF MemoryOK, fat32_remove, TypeInv, TypeOK
  <1> QED BY <1>1, <1>2
-----------------------------------------------------------------------------
(* The disk and the whole.                                                 *)

LEMMA WriteLostType == ASSUME TypeInv, WriteLost PROVE TypeInv'
  BY WriteFailsType, MemoryType DEF WriteLost, TypeInv, TypeOK

LEMMA PowerLossType == ASSUME TypeInv, PowerLoss PROVE TypeInv'
  <1>1. PowerWindow \in BOOLEAN
    BY DEF PowerWindow, HalfRemoved, TwiceNamed
  <1>2. MemoryOK'
    BY <1>1, StrikeType, FinishType DEF PowerLoss, MemoryOK
  <1> QED BY <1>2, MemoryType DEF PowerLoss, TypeInv, TypeOK

LEMMA InitType == Init => TypeInv
  <1> SUFFICES ASSUME Init PROVE TypeInv
    OBVIOUS
  <1>1. fat \in [Clusters -> Clusters \cup {Free, EndOfChain}]
    BY DEF Init
  <1>2. slots \in [Clusters -> [Slot -> Entry]]
    BY MarkedRow DEF Init
  <1>3. op \in Call /\ CallOK(op)
    BY IdleType DEF Init
  <1>4. ret \in {"ok", "error", "lost"} /\ faults \in 0 .. MaxFaults
    BY DEF Init
  <1>5. damaged \in BOOLEAN
    BY DEF Init
  <1> QED BY <1>1, <1>2, <1>3, <1>4, <1>5 DEF TypeInv, TypeOK

LEMMA NextType == TypeInv /\ [Next]_vars => TypeInv'
  <1> SUFFICES ASSUME TypeInv, [Next]_vars PROVE TypeInv'
    OBVIOUS
  <1>1. CASE Request
    BY <1>1, CreateFileType, CreateDirectoryType, WriteType, RenameType, RemoveType DEF Request
  <1>2. CASE Step
    BY <1>2, FindSlotType, DiskFullType, MarkClusterType, ZeroClusterType, LinkClusterType,
       WriteDotsType, WriteEntryType, UnlinkEntryType, UndoEntryType, CutChainType,
       FreeClusterType, WriteDataType, UpdateEntryType DEF Step
  <1>3. CASE WriteLost
    BY <1>3, WriteLostType
  <1>4. CASE PowerLoss
    BY <1>4, PowerLossType
  <1>5. CASE UNCHANGED vars
    BY <1>5 DEF vars, TypeInv, TypeOK, CallOK, StepOK
  <1> QED BY <1>1, <1>2, <1>3, <1>4, <1>5 DEF Next

(* Whatever calls are made and wherever the disk fails, the table holds    *)
(* only cluster numbers and the two marks, every entry a 32-bit size and a *)
(* valid first cluster, and the counters of the call in progress never     *)
(* pass zero (the unsigned arithmetic of write.cpp never wraps).           *)
THEOREM Fat32TypeOK == Spec => []TypeOK
  <1>1. TypeInv => TypeOK
    BY DEF TypeInv
  <1> QED BY <1>1, InitType, NextType, PTL DEF Spec
-----------------------------------------------------------------------------
(* Every step of the driver keeps the invariant Ownership, so no cluster   *)
(* ever has two owners.  A step changes the disk in one of a few ways and  *)
(* the operation in another: the first lemmas say what survives each       *)
(* change of the disk, for whatever operation goes on afterwards.          *)

Disk == /\ fat \in [Clusters -> Clusters \cup {Free, EndOfChain}]
        /\ slots \in [Clusters -> [Slot -> Entry]]

(* Live entries may vanish, none appears or changes.                       *)
EntriesShrink == /\ LiveEntries' \subseteq LiveEntries
                 /\ \A l \in LiveEntries' : EntryAt(l)' = EntryAt(l)

LEMMA FirstType ==
  ASSUME Disk, NEW l \in Location
  PROVE  FirstOf(l) \in Clusters \cup {Free} /\ EntryAt(l) \in Entry
  BY DEF Disk, FirstOf, EntryAt, Location, Entry

LEMMA EntryMapped ==
  ASSUME EntriesShrink, NEW l \in LiveEntries'
  PROVE  l \in LiveEntries /\ FirstOf(l)' = FirstOf(l) /\ EntryAt(l)' = EntryAt(l)
  BY DEF EntriesShrink, FirstOf

(* The clusters in P may become pointed to, those in F may become free,    *)
(* and both lose nothing else: what avoids them is as sound as before.     *)
TableChange(P, F) ==
  /\ \A d \in Clusters : d \notin P /\ Pointed(d)' => Pointed(d)
  /\ \A d \in Clusters : d \notin F /\ fat[d] # Free => fat'[d] # Free

LEMMA LooseKept ==
  ASSUME Disk, Disk', EntriesShrink, NEW P, NEW F, TableChange(P, F),
         NEW d, Loose(d), d \notin P \cup F
  PROVE  Loose(d)'
  <1>1. ~Named(d)'
    BY EntryMapped DEF Named, Loose
  <1> QED BY <1>1 DEF Loose, TableChange

LEMMA EntriesKept ==
  ASSUME Disk, Disk', EntriesShrink, NEW P, NEW F, TableChange(P, F), NEW n,
         \A l \in LiveEntries : EntrySound(l, n),
         \A l \in LiveEntries : /\ FirstOf(l) \notin P
                                /\ FirstOf(l) \in F => n.kind = "remove" /\ l = n.at
  PROVE  \A l \in LiveEntries' : EntrySound(l, n)'
  <1> SUFFICES ASSUME NEW l \in LiveEntries', FirstOf(l)' # Free
               PROVE  /\ ~Pointed(FirstOf(l))' /\ FirstOf(l)' # Root
                      /\ (fat[FirstOf(l)] # Free)' \/ (n.kind = "remove" /\ l = n.at)
                      /\ EntryAt(l).kind' = "file" => EntryAt(l).size' > 0
                      /\ \A m \in LiveEntries' : FirstOf(m)' = FirstOf(l)' => m = l \/ Twins(n, l, m)
    BY DEF EntrySound, Twins
  <1>1. l \in LiveEntries /\ FirstOf(l)' = FirstOf(l) /\ EntryAt(l)' = EntryAt(l)
    BY EntryMapped
  <1>2. FirstOf(l) \in Clusters
    BY <1>1, FirstType DEF LiveEntries
  <1>3. EntrySound(l, n)
    BY <1>1
  <1>4. ~Pointed(FirstOf(l))'
    BY <1>1, <1>2, <1>3 DEF EntrySound, TableChange
  <1>5. fat'[FirstOf(l)'] # Free \/ (n.kind = "remove" /\ l = n.at)
    BY <1>1, <1>2, <1>3 DEF EntrySound, TableChange
  <1>6. \A m \in LiveEntries' : FirstOf(m)' = FirstOf(l)' => m = l \/ Twins(n, l, m)
    BY <1>1, <1>3, EntryMapped DEF EntrySound
  <1> QED BY <1>1, <1>2, <1>3, <1>4, <1>5, <1>6 DEF EntrySound

(* An entry that vanishes leaves its chain to the operation that holds it. *)
LEMMA HoldsKept ==
  ASSUME Disk, Disk', EntriesShrink, NEW P, NEW F, TableChange(P, F), NEW n \in Call,
         \A l \in LiveEntries : EntrySound(l, n),
         n.kind # "remove", n.kind = "rename" => n.step \notin {"dots", "unlink", "undo"},
         Holds(n), n.first \notin P \cup F
  PROVE  Holds(n)'
  <1>1. CASE n.first = Free
    BY <1>1 DEF Holds
  <1>2. CASE Loose(n.first)
    <2>1. Loose(n.first)'
      BY <1>2, LooseKept
    <2> QED BY <2>1 DEF Holds
  <1>3. CASE n.first # Free /\ n.at \in LiveEntries' /\ FirstOf(n.at) = n.first
    BY <1>3, EntryMapped DEF Holds
  <1>4. CASE /\ n.first # Free /\ n.at \in LiveEntries /\ n.at \notin LiveEntries'
             /\ FirstOf(n.at) = n.first
    <2>1. n.first \in Clusters /\ EntrySound(n.at, n)
      BY <1>4 DEF Call
    <2>2. ~Named(n.first)'
      <3> SUFFICES ASSUME NEW m \in LiveEntries', FirstOf(m)' = n.first PROVE FALSE
        BY DEF Named
      <3>1. m \in LiveEntries /\ FirstOf(m) = FirstOf(n.at) /\ m # n.at
        BY <1>4, EntryMapped
      <3> QED BY <1>4, <2>1, <3>1 DEF EntrySound, Twins
    <2>3. Loose(n.first)'
      BY <1>4, <2>1, <2>2 DEF EntrySound, Loose, TableChange
    <2> QED BY <2>3 DEF Holds
  <1> QED BY <1>1, <1>2, <1>3, <1>4 DEF Holds

(* What the operation needs of the clusters it holds.                      *)
Avoids(n, X) ==
  /\ n.step \in {"zero", "link"} => n.new \notin X
  /\ n.step = "free" => n.cur \notin X
  /\ \/ n.kind \in {"none", "create_file", "remove"}
     \/ n.kind = "create_directory" /\ n.step = "free"
     \/ n.first \notin X

LEMMA CallKept ==
  ASSUME Disk, Disk', EntriesShrink, NEW P, NEW F, TableChange(P, F), NEW n \in Call,
         \A l \in LiveEntries : EntrySound(l, n), StepOK(n), CallSound(n), Avoids(n, P \cup F)
  PROVE  CallSound(n)'
  <1>1. n.step \in {"zero", "link"} => Loose(n.new)' /\ n.new # n.first
    BY LooseKept DEF CallSound, Avoids
  <1>2. ASSUME n.step = "free"
        PROVE  /\ n.cur \in Clusters /\ n.cur # Root /\ fat'[n.cur] # Free /\ ~Pointed(n.cur)'
               /\ \A l \in LiveEntries' : FirstOf(l)' = n.cur => n.kind = "remove" /\ l = n.at
               /\ n.kind = "write" => n.cur # n.first
    <2>1. n.cur \in Clusters /\ n.cur # Root /\ n.cur \notin P \cup F
      BY <1>2 DEF CallSound, Avoids
    <2>2. fat'[n.cur] # Free /\ ~Pointed(n.cur)'
      BY <1>2, <2>1 DEF CallSound, TableChange
    <2>3. \A l \in LiveEntries' : FirstOf(l)' = n.cur => n.kind = "remove" /\ l = n.at
      BY <1>2, EntryMapped DEF CallSound
    <2> QED BY <1>2, <2>1, <2>2, <2>3 DEF CallSound
  <1>3. n.kind = "create_directory" =>
          /\ n.entry.kind = "dir" /\ n.entry.first = n.first
          /\ n.first # Free /\ n.step # "free" => Loose(n.first)'
    BY LooseKept DEF CallSound, Avoids
  <1>4. n.kind = "write" =>
          /\ Holds(n)'
          /\ n.entry.size = 0 => n.first = Free /\ n.step \in {"data", "update"}
    BY HoldsKept DEF CallSound, Avoids
  <1>5. n.kind = "rename" =>
          /\ n.entry.first = n.first
          /\ n.entry.kind = "file" /\ n.first # Free => n.entry.size > 0
          /\ n.step \in {"slot", "entry"} \cup Appending => Holds(n)'
    BY HoldsKept DEF CallSound, Avoids
  <1>6. n.kind = "remove" /\ n.at \in LiveEntries' => FirstOf(n.at)' = n.first
    BY EntryMapped DEF CallSound
  <1> QED BY <1>1, <1>2, <1>3, <1>4, <1>5, <1>6 DEF CallSound, Holds

LEMMA SoundKept ==
  ASSUME Disk, Disk', EntriesShrink, NEW P, NEW F, TableChange(P, F), TableSound',
         NEW n \in Call, StepOK(n), Sound(n), Avoids(n, P \cup F),
         \A l \in LiveEntries : /\ FirstOf(l) \notin P
                                /\ FirstOf(l) \in F => n.kind = "remove" /\ l = n.at,
         op' = n
  PROVE  Sound(op)'
  <1>1. \A l \in LiveEntries' : EntrySound(l, n)'
    BY EntriesKept DEF Sound
  <1>2. CallSound(n)'
    BY CallKept DEF Sound
  <1> QED BY <1>1, <1>2 DEF Sound, EntrySound, Twins, CallSound, Holds

(* Only the slots change, and only by losing entries.                      *)
LEMMA SoundShrunk ==
  ASSUME Disk, Disk', EntriesShrink, UNCHANGED fat,
         NEW n \in Call, StepOK(n), Sound(n), op' = n
  PROVE  Sound(op)'
  <1>1. TableChange({}, {}) /\ TableSound'
    BY DEF TableChange, Pointed, Sound, TableSound
  <1>2. Avoids(n, {} \cup {})
    BY DEF Avoids
  <1> QED BY <1>1, <1>2, SoundKept

LEMMA SameSlots == UNCHANGED slots => EntriesShrink
  BY DEF EntriesShrink, LiveEntries, EntryAt

LEMMA SoundUnchanged ==
  ASSUME Disk, UNCHANGED <<fat, slots>>, NEW n \in Call, StepOK(n), Sound(n), op' = n
  PROVE  Sound(op)'
  BY SameSlots, SoundShrunk DEF Disk

(* The entries stay sound when another operation, or none, takes over.     *)
LEMMA EntrySwitch ==
  ASSUME NEW o, NEW n, \A l \in LiveEntries : EntrySound(l, o),
         \A l, m \in LiveEntries : Twins(o, l, m) => m = l \/ Twins(n, l, m),
         \A l \in LiveEntries : o.kind = "remove" /\ l = o.at =>
            \/ n.kind = "remove" /\ l = n.at
            \/ FirstOf(l) = Free \/ fat[FirstOf(l)] # Free
  PROVE  \A l \in LiveEntries : EntrySound(l, n)
  BY DEF EntrySound

LEMMA IdleSound ==
  ASSUME TableSound, NEW o, \A l \in LiveEntries : EntrySound(l, o),
         ~(o.kind = "rename" /\ o.step \in {"dots", "unlink", "undo"}),
         \A l \in LiveEntries : o.kind = "remove" /\ l = o.at =>
            FirstOf(l) = Free \/ fat[FirstOf(l)] # Free
  PROVE  Sound(Idle)
  <1>1. Idle.kind = "none" /\ Idle.step = "idle"
    BY DEF Idle
  <1>2. \A l \in LiveEntries : EntrySound(l, Idle)
    BY EntrySwitch DEF Twins
  <1> QED BY <1>1, <1>2 DEF Sound, CallSound

(* After a failure the operation recovers or is given up, on a disk the    *)
(* failure has not changed yet.                                            *)
LEMMA RecoverSound ==
  ASSUME TypeInv, Sound(op), Recover, ~HalfRemoved,
         ~(op.kind = "rename" /\ op.step \in {"unlink", "undo"})
  PROVE  \E n \in Call : /\ op' = n /\ StepOK(n) /\ Sound(n)
                         /\ \/ n.kind = "none"
                            \/ n.kind = "create_directory" /\ n.step = "free" /\ n.cur = op.first
                            \/ op.step = "dots"
  <1>1. op \in Call /\ StepOK(op)
    BY DEF TypeInv, TypeOK, CallOK
  <1>2. CASE /\ op.kind = "create_directory" /\ op.first # Free /\ op.step # "free"
             /\ op' = [op EXCEPT !.step = "free", !.cur = op.first]
    <2> DEFINE n == [op EXCEPT !.step = "free", !.cur = op.first]
    <2>1. n \in Call /\ n.kind = "create_directory" /\ n.step = "free" /\ n.cur = op.first
          /\ n.entry = op.entry /\ n.first = op.first /\ n.at = op.at
      BY <1>1, <1>2 DEF Call
    <2>2. Loose(op.first)
      BY <1>2 DEF Sound, CallSound
    <2>3. \A l \in LiveEntries : EntrySound(l, n)
      BY <1>2, EntrySwitch DEF Sound, Twins
    <2>4. CallSound(n)
      BY <1>2, <2>1, <2>2 DEF Sound, CallSound, Loose, Named
    <2>5. StepOK(n)
      BY <2>1 DEF StepOK
    <2> QED BY <1>2, <2>1, <2>3, <2>4, <2>5 DEF Sound
  <1>3. CASE op.kind = "rename" /\ op.step = "dots" /\ op' = [op EXCEPT !.step = "undo"]
    <2> DEFINE n == [op EXCEPT !.step = "undo"]
    <2>1. n \in Call /\ n.kind = "rename" /\ n.step = "undo" /\ n.at = op.at /\ n.slot = op.slot
          /\ n.entry = op.entry /\ n.first = op.first
      BY <1>1, <1>3 DEF Call
    <2>2. \A l \in LiveEntries : EntrySound(l, n)
      BY <1>3, <2>1, EntrySwitch DEF Sound, Twins
    <2>3. CallSound(n)
      BY <1>3, <2>1 DEF Sound, CallSound
    <2>4. StepOK(n)
      BY <2>1 DEF StepOK
    <2> QED BY <1>3, <2>1, <2>2, <2>3, <2>4 DEF Sound
  <1>4. CASE ~(op.kind = "rename" /\ op.step = "dots") /\ Finish("error")
    <2>1. op.kind = "remove" => op.first = Free \/ (op.step = "free" /\ op.cur = op.first)
      BY <1>1 DEF HalfRemoved, StepOK
    <2>2. \A l \in LiveEntries : op.kind = "remove" /\ l = op.at =>
            FirstOf(l) = Free \/ fat[FirstOf(l)] # Free
      BY <2>1 DEF Sound, CallSound
    <2>3. Sound(Idle)
      BY <1>4, <2>2, IdleSound DEF Sound
    <2>4. StepOK(Idle)
      BY IdleType DEF CallOK
    <2>5. Idle.kind = "none"
      BY DEF Idle
    <2> QED BY <1>4, <2>3, <2>4, <2>5, IdleType DEF Finish
  <1> QED BY <1>2, <1>3, <1>4 DEF Recover
-----------------------------------------------------------------------------
(* The steps.                                                              *)

(* What each of them starts from.                                          *)
Before == TypeInv /\ TypeInv' /\ Sound(op) /\ ~damaged /\ ~damaged'

LEMMA BeforeDisk == Before => /\ Disk /\ Disk' /\ op \in Call /\ StepOK(op) /\ CallSound(op)
                              /\ TableSound /\ \A l \in LiveEntries : EntrySound(l, op)
                              /\ op' \in Call /\ StepOK(op)'
  BY DEF Before, TypeInv, TypeOK, Disk, CallOK, Sound

LEMMA WriteFailsSafe ==
  ASSUME Before, NEW reached \in BOOLEAN, WriteFails(reached)
  PROVE  Recover /\ ~WriteWindow(reached)
  BY DEF WriteFails, Strike, Before

LEMMA ProceedSafe ==
  ASSUME Before, NEW next, Proceed(next)
  PROVE  op' = next \/ (Recover /\ ~WriteWindow(TRUE))
  BY WriteFailsSafe DEF Proceed

LEMMA FailSound ==
  ASSUME Before, op.step \notin {"free", "unlink", "undo"}, Fail
  PROVE  Sound(op)'
  <1>1. PICK n \in Call : op' = n /\ StepOK(n) /\ Sound(n)
    BY RecoverSound DEF Before, Fail, HalfRemoved
  <1> QED BY <1>1, BeforeDisk, SoundUnchanged DEF Fail

LEMMA FindSlotSound == ASSUME Before, FindSlot PROVE Sound(op)'
  <1>1. op.step = "slot" /\ op \in Call /\ Sound(op)
    BY BeforeDisk DEF FindSlot, Before
  <1>2. ASSUME NEW n \in Call, op' = n, UNCHANGED <<fat, slots>>,
               n.step \in {"entry", "mark"}, n.kind = op.kind, n.entry = op.entry,
               n.first = op.first, n.at = op.at
        PROVE  Sound(op)'
    <2>1. op.kind \in {"create_file", "create_directory", "rename"}
      BY <1>1, BeforeDisk DEF StepOK, Call
    <2>2. \A l \in LiveEntries : EntrySound(l, n)
      BY <1>1, <2>1, EntrySwitch DEF Sound, Twins
    <2>3. CallSound(n)
      BY <1>1, <1>2, <2>1 DEF Sound, CallSound, Holds
    <2>4. StepOK(n)
      BY <1>2, <2>1 DEF StepOK
    <2> QED BY <1>1, <1>2, <2>2, <2>3, <2>4, BeforeDisk, SoundUnchanged DEF Sound
  <1>3. CASE /\ \E p : op' = [op EXCEPT !.slot = LocationOf(op.dir, p), !.step = "entry"]
             /\ UNCHANGED <<fat, slots>>
    <2>1. /\ op'.step = "entry" /\ op'.kind = op.kind /\ op'.entry = op.entry
          /\ op'.first = op.first /\ op'.at = op.at
      BY <1>1, <1>3 DEF Call
    <2> QED BY <1>2, <1>3, <2>1, BeforeDisk
  <1>4. CASE /\ \E last : op' = [op EXCEPT !.last = last, !.step = "mark"]
             /\ UNCHANGED <<fat, slots>>
    <2>1. /\ op'.step = "mark" /\ op'.kind = op.kind /\ op'.entry = op.entry
          /\ op'.first = op.first /\ op'.at = op.at
      BY <1>1, <1>4 DEF Call
    <2> QED BY <1>2, <1>4, <2>1, BeforeDisk
  <1>5. CASE Fail
    BY <1>1, <1>5, FailSound
  <1> QED BY <1>3, <1>4, <1>5 DEF FindSlot

LEMMA DiskFullSound == ASSUME Before, DiskFull PROVE Sound(op)'
  BY FailSound DEF DiskFull

(* A free cluster is nobody's: marking it takes nothing from anyone.       *)
LEMMA MarkEffect ==
  ASSUME Disk, TableSound, NEW c \in Clusters, fat[c] = Free,
         fat' = [fat EXCEPT ![c] = EndOfChain]
  PROVE  /\ TableSound' /\ TableChange({}, {})
         /\ c # Root /\ ~Pointed(c)' /\ fat'[c] # Free
  <1>1. EndOfChain \notin Clusters /\ EndOfChain # Free
    BY DEF Clusters, EndOfChain, Free
  <1>2. c # Root /\ ~Pointed(c)
    BY DEF TableSound, Pointed
  <1>3. \A d \in Clusters : fat'[d] = IF d = c THEN EndOfChain ELSE fat[d]
    BY DEF Disk
  <1>4. \A d \in Clusters : Pointed(d)' => Pointed(d)
    BY <1>1, <1>3 DEF Pointed
  <1>5. TableSound'
    BY <1>1, <1>3 DEF TableSound, Disk
  <1> QED BY <1>1, <1>2, <1>3, <1>4, <1>5 DEF TableChange

LEMMA MarkClusterSound == ASSUME Before, MarkCluster PROVE Sound(op)'
  <1>1. op.step = "mark" /\ op \in Call /\ Disk /\ Disk' /\ UNCHANGED slots
    BY BeforeDisk DEF MarkCluster
  <1>2. PICK c \in Clusters : /\ fat[c] = Free /\ fat' = [fat EXCEPT ![c] = EndOfChain]
                              /\ Proceed([op EXCEPT !.new = c, !.step = "zero"])
    BY DEF MarkCluster, Lowest, FreeClusters
  <1>3. /\ TableSound' /\ TableChange({}, {}) /\ EntriesShrink
        /\ c # Root /\ ~Pointed(c)' /\ fat'[c] # Free
    BY <1>1, <1>2, BeforeDisk, MarkEffect, SameSlots
  <1>4. CASE Recover
    <2>1. PICK n \in Call : op' = n /\ StepOK(n) /\ Sound(n)
      BY <1>1, <1>4, RecoverSound DEF Before, HalfRemoved
    <2>2. Avoids(n, {} \cup {})
      BY DEF Avoids
    <2> QED BY <1>1, <1>3, <2>1, <2>2, SoundKept
  <1>5. CASE op' = [op EXCEPT !.new = c, !.step = "zero"]
    <2>1. PICK n \in Call : n = op
      BY <1>1
    <2>2. /\ op'.kind = n.kind /\ op'.step = "zero" /\ op'.new = c /\ op'.first = n.first
          /\ op'.entry = n.entry /\ op'.at = n.at
      BY <1>1, <1>5, <2>1 DEF Call
    <2>3. op.kind # "remove"
      BY <1>1, BeforeDisk DEF StepOK
    <2>4. (\A l \in LiveEntries : EntrySound(l, n)) /\ CallSound(n) /\ StepOK(n) /\ n.step = "mark"
      BY <1>1, <2>1, BeforeDisk
    <2>5. CallSound(n)' /\ \A l \in LiveEntries' : EntrySound(l, n)'
      <3>1. Avoids(n, {} \cup {})
        BY DEF Avoids
      <3> QED BY <1>1, <1>3, <2>4, <3>1, CallKept, EntriesKept
    <2>6. \A l \in LiveEntries : FirstOf(l) # c
      BY <1>2, <2>3, BeforeDisk DEF EntrySound, Clusters, Free
    <2>7. ~Named(c)'
      BY <1>3, <2>6, EntryMapped DEF Named
    <2>8. n.first # c
      <3>1. n.first = Free \/ Loose(n.first) \/ \E l \in LiveEntries : FirstOf(l) = n.first
        BY <2>4 DEF CallSound, StepOK, Holds, Call
      <3> QED BY <1>2, <2>6, <3>1 DEF Loose, Free, Clusters
    <2>9. Loose(c)'
      BY <1>3, <2>7 DEF Loose
    <2> QED BY <1>3, <2>2, <2>4, <2>5, <2>8, <2>9 DEF Sound, EntrySound, Twins, CallSound, Holds
  <1> QED BY <1>2, <1>4, <1>5, ProceedSafe

(* Where entries are overwritten by what is none, the others stay.         *)
LEMMA RowShrinks ==
  ASSUME Disk, NEW c, NEW kind \in Kinds \ Live, slots' = [slots EXCEPT ![c] = [s \in Slot |-> Mark(kind)]]
  PROVE  EntriesShrink
  <1>1. \A l \in Location : EntryAt(l)' = IF l.cluster = c THEN Mark(kind) ELSE EntryAt(l)
    BY DEF Disk, EntryAt, Location
  <1>2. Mark(kind).kind \notin Live
    BY DEF Mark, fat32_build_entry
  <1> QED BY <1>1, <1>2 DEF EntriesShrink, LiveEntries

LEMMA PutEffect ==
  ASSUME Disk, NEW loc \in Location, NEW entry, PutEntry(loc, entry), NEW l \in Location
  PROVE  EntryAt(l)' = IF l = loc THEN entry ELSE EntryAt(l)
  <1>1. l = loc <=> l.cluster = loc.cluster /\ l.slot = loc.slot
    BY DEF Location
  <1>2. /\ slots[loc.cluster] \in [Slot -> Entry] /\ loc.slot \in Slot
        /\ loc.cluster \in Clusters /\ l.cluster \in Clusters
    BY DEF Disk, Location
  <1>3. slots' = [slots EXCEPT ![loc.cluster] = [slots[loc.cluster] EXCEPT ![loc.slot] = entry]]
    BY DEF PutEntry
  <1>4. slots'[l.cluster][l.slot] = IF l = loc THEN entry ELSE slots[l.cluster][l.slot]
    BY <1>1, <1>2, <1>3 DEF Disk
  <1> QED BY <1>4 DEF EntryAt

LEMMA PutShrinks ==
  ASSUME Disk, NEW loc \in Location, NEW kind \in Kinds \ Live, PutEntry(loc, Mark(kind))
  PROVE  EntriesShrink /\ loc \notin LiveEntries'
  <1>1. Mark(kind).kind \notin Live
    BY DEF Mark, fat32_build_entry
  <1> QED BY <1>1, PutEffect DEF EntriesShrink, LiveEntries

LEMMA AllocatedSound ==
  ASSUME Before, op.step = "zero"
  PROVE  \E n \in Call : n = Allocated /\ StepOK(n) /\ Sound(n)
  <1>1. op \in Call /\ StepOK(op) /\ CallSound(op) /\ \A l \in LiveEntries : EntrySound(l, op)
    BY BeforeDisk
  <1>2. PICK n \in Call : n = Allocated /\ StepOK(n)
    BY AllocatedType DEF Before, CallOK
  <1>3. op.kind \in {"create_file", "create_directory", "write", "rename"}
    BY <1>1 DEF StepOK, Call
  <1>4. Loose(op.new) /\ op.new # op.first /\ (op.kind = "write" => op.entry.size # 0)
    BY <1>1 DEF CallSound
  <1>5. ASSUME n.kind = op.kind, n.at = op.at, n.step # "free", CallSound(n)
        PROVE  Sound(n)
    <2>1. \A l \in LiveEntries : EntrySound(l, n)
      BY <1>1, <1>3, <1>5, EntrySwitch DEF Twins
    <2> QED BY <1>5, <2>1, BeforeDisk DEF Sound
  <1>6. CASE op.kind = "create_directory" /\ op.first = Free
    <2>1. /\ n.kind = op.kind /\ n.at = op.at /\ n.step = "dots"
          /\ n.first = op.new /\ n.entry.first = op.new /\ n.entry.kind = op.entry.kind
      BY <1>1, <1>2, <1>6 DEF Allocated, Call, Entry
    <2>2. CallSound(n)
      BY <1>1, <1>4, <1>6, <2>1 DEF CallSound
    <2> QED BY <1>2, <1>5, <2>1, <2>2
  <1>7. CASE op.kind = "write" /\ op.first = Free
    <2> DEFINE o == [op EXCEPT !.first = op.new, !.last = op.new, !.need = op.need - 1]
    <2>1. Allocated = GrowOrWrite(o)
      BY <1>1, <1>7 DEF Allocated, Call
    <2>2. op.need - 1 \in Nat
      BY <1>7 DEF Before, TypeInv, TypeOK, CallOK, Call
    <2>3. o \in Call /\ o.kind = "write" /\ o.at = op.at /\ o.first = op.new /\ o.entry = op.entry
      <3> HIDE DEF Operations, Steps
      <3> QED BY <1>1, <1>7, <2>2 DEF Call
    <2> HIDE DEF o
    <2>4. /\ n.kind = op.kind /\ n.at = op.at /\ n.step \in {"mark", "data", "update"}
          /\ n.first = op.new /\ n.entry = op.entry
      BY <1>2, <1>7, <2>1, <2>3 DEF GrowOrWrite, DataOrUpdate, Call
    <2>5. CallSound(n)
      BY <1>1, <1>4, <1>7, <2>4 DEF CallSound, Holds
    <2> QED BY <1>2, <1>5, <2>4, <2>5
  <1>8. CASE /\ ~(op.kind = "create_directory" /\ op.first = Free)
             /\ ~(op.kind = "write" /\ op.first = Free)
    <2>1. /\ n.kind = op.kind /\ n.at = op.at /\ n.step = "link" /\ n.new = op.new
          /\ n.first = op.first /\ n.entry = op.entry
      BY <1>1, <1>2, <1>8 DEF Allocated, Call
    <2>2. CallSound(n)
      BY <1>1, <1>3, <1>4, <1>8, <2>1 DEF CallSound, Holds
    <2> QED BY <1>2, <1>5, <2>1, <2>2
  <1> QED BY <1>6, <1>7, <1>8

LEMMA ZeroClusterSound == ASSUME Before, ZeroCluster PROVE Sound(op)'
  <1>1. op.step = "zero" /\ Disk /\ Disk' /\ UNCHANGED fat
    BY BeforeDisk DEF ZeroCluster
  <1>2. EntriesShrink
    <2>1. "end" \in Kinds \ Live
      BY DEF Live
    <2> QED BY <1>1, <2>1, RowShrinks DEF ZeroCluster
  <1>3. \E n \in Call : op' = n /\ StepOK(n) /\ Sound(n)
    <2>1. op' = Allocated \/ (Recover /\ ~WriteWindow(TRUE))
      BY ProceedSafe DEF ZeroCluster
    <2> QED BY <1>1, <2>1, AllocatedSound, RecoverSound DEF Before, HalfRemoved
  <1> QED BY <1>1, <1>2, <1>3, SoundShrunk

(* A cluster nothing leads to is appended: only it becomes pointed to.     *)
LEMMA LinkEffect ==
  ASSUME Disk, TableSound, NEW new, Loose(new), NEW last \in Clusters \cup {Free},
         fat' = [fat EXCEPT ![last] = new]
  PROVE  TableSound' /\ TableChange({new}, {})
  <1>1. \A d \in Clusters : fat'[d] = IF d = last THEN new ELSE fat[d]
    BY DEF Disk
  <1>2. new \in Clusters /\ new # Root /\ fat[new] # Free /\ new # Free
    BY DEF Loose, Clusters, Free
  <1>3. \A d \in Clusters : fat[d] # new
    BY DEF Loose, Pointed
  <1>4. \A d \in Clusters : fat[d] # Free => fat'[d] # Free
    BY <1>1, <1>2
  <1>5. \A d \in Clusters : d # new /\ Pointed(d)' => Pointed(d)
    BY <1>1 DEF Pointed
  <1>6. \A c, d \in Clusters : c # d /\ fat'[c] \in Clusters => fat'[c] # fat'[d]
    BY <1>1, <1>3 DEF TableSound
  <1>7. \A c \in Clusters : fat'[c] \in Clusters => fat'[fat'[c]] # Free /\ fat'[c] # Root
    BY <1>1, <1>2, <1>4 DEF TableSound
  <1>8. fat'[Root] # Free
    BY <1>4 DEF TableSound
  <1>9. TableSound'
    BY <1>6, <1>7, <1>8 DEF TableSound
  <1> QED BY <1>4, <1>5, <1>9 DEF TableChange

LEMMA LinkClusterSound == ASSUME Before, LinkCluster PROVE Sound(op)'
  <1>1. /\ op.step = "link" /\ Disk /\ Disk' /\ UNCHANGED slots
        /\ op \in Call /\ StepOK(op) /\ CallSound(op) /\ \A l \in LiveEntries : EntrySound(l, op)
    BY BeforeDisk DEF LinkCluster
  <1>2. Loose(op.new) /\ op.new # op.first /\ (op.kind = "write" => op.entry.size # 0)
    BY <1>1 DEF CallSound
  <1>3. TableSound' /\ TableChange({op.new}, {})
    BY <1>1, <1>2, BeforeDisk, LinkEffect DEF LinkCluster, Call
  <1>4. \A l \in LiveEntries : FirstOf(l) # op.new
    BY <1>2 DEF Loose, Named
  <1>5. ASSUME NEW n \in Call, op' = n, StepOK(n), Sound(n), Avoids(n, {op.new} \cup {})
        PROVE  Sound(op)'
    BY <1>1, <1>3, <1>4, <1>5, SameSlots, SoundKept
  <1>6. CASE Recover
    <2>1. PICK n \in Call :
            /\ op' = n /\ StepOK(n) /\ Sound(n)
            /\ \/ n.kind = "none"
               \/ n.kind = "create_directory" /\ n.step = "free" /\ n.cur = op.first
      BY <1>1, <1>6, RecoverSound DEF Before, HalfRemoved
    <2>2. Avoids(n, {op.new} \cup {})
      BY <1>2, <2>1 DEF Avoids, StepOK
    <2> QED BY <1>5, <2>1, <2>2
  <1>7. ASSUME NEW n \in Call, op' = n, n.kind = op.kind, n.at = op.at, n.first = op.first,
               n.entry = op.entry, n.step \in {"mark", "data", "update", "entry"}, StepOK(n)
        PROVE  Sound(op)'
    <2>1. op.kind \in {"create_file", "create_directory", "write", "rename"}
      BY <1>1 DEF StepOK, Call
    <2>2. \A l \in LiveEntries : EntrySound(l, n)
      BY <1>1, <1>7, <2>1, EntrySwitch DEF Twins
    <2>3. CallSound(n)
      BY <1>1, <1>2, <1>7, <2>1 DEF CallSound, Holds
    <2>4. Avoids(n, {op.new} \cup {})
      BY <1>2, <1>7 DEF Avoids
    <2> QED BY <1>5, <1>7, <2>2, <2>3, <2>4, BeforeDisk DEF Sound
  <1>8. CASE op.kind = "write" /\ op' = GrowOrWrite([op EXCEPT !.last = op.new, !.need = @ - 1])
    <2>1. op.need - 1 \in Nat
      BY <1>1, <1>8 DEF Before, TypeInv, TypeOK, CallOK, Call
    <2> DEFINE o == [op EXCEPT !.last = op.new, !.need = op.need - 1]
    <2>2. op' = GrowOrWrite(o)
      BY <1>1, <1>8 DEF Call
    <2>3. /\ o \in Call /\ o.kind = op.kind /\ o.at = op.at
          /\ o.first = op.first /\ o.entry = op.entry
      BY <1>1, <2>1 DEF Call
    <2> HIDE DEF o
    <2>4. /\ op'.kind = op.kind /\ op'.at = op.at /\ op'.step \in {"mark", "data", "update"}
          /\ op'.first = op.first /\ op'.entry = op.entry
      BY <2>2, <2>3 DEF GrowOrWrite, DataOrUpdate, Call
    <2>5. PICK n \in Call : op' = n /\ StepOK(n)
      BY BeforeDisk DEF StepOK
    <2> QED BY <1>7, <2>4, <2>5
  <1>9. CASE op' = [op EXCEPT !.slot = [cluster |-> op.new, slot |-> 0], !.step = "entry"]
    <2>1. /\ op'.kind = op.kind /\ op'.at = op.at /\ op'.step = "entry"
          /\ op'.first = op.first /\ op'.entry = op.entry
      BY <1>1, <1>9 DEF Call
    <2>2. PICK n \in Call : op' = n /\ StepOK(n)
      BY BeforeDisk DEF StepOK
    <2> QED BY <1>7, <2>1, <2>2
  <1>10. LinkCluster => \/ Recover
                        \/ /\ op.kind = "write"
                           /\ op' = GrowOrWrite([op EXCEPT !.last = op.new, !.need = @ - 1])
                        \/ op' = [op EXCEPT !.slot = [cluster |-> op.new, slot |-> 0], !.step = "entry"]
    BY ProceedSafe DEF LinkCluster
  <1> QED BY <1>6, <1>8, <1>9, <1>10

LEMMA WriteDotsSound == ASSUME Before, WriteDots PROVE Sound(op)'
  <1>1. /\ op.step = "dots" /\ Disk /\ Disk' /\ UNCHANGED fat
        /\ op \in Call /\ StepOK(op) /\ CallSound(op) /\ \A l \in LiveEntries : EntrySound(l, op)
    BY BeforeDisk DEF WriteDots
  <1>2. EntriesShrink
    <2> DEFINE dot    == fat32_build_entry("dot", NoName, op.first, 0)
               dotdot == fat32_build_entry("dotdot", NoName, op.dir, 0)
    <2>1. dot.kind \notin Live /\ dotdot.kind \notin Live
      BY DEF fat32_build_entry, Live
    <2>2. slots' = [slots EXCEPT ![op.first][0] = dot, ![op.first][1] = dotdot]
      BY DEF WriteDots
    <2> HIDE DEF dot, dotdot
    <2>3. \A l \in Location : EntryAt(l)' \in {dot, dotdot, EntryAt(l)}
      BY <1>1, <2>2 DEF Disk, EntryAt, Location
    <2> QED BY <2>1, <2>3 DEF EntriesShrink, LiveEntries
  <1>3. CASE Recover /\ ~WriteWindow(TRUE)
    BY <1>1, <1>2, <1>3, RecoverSound, SoundShrunk DEF Before, HalfRemoved
  <1>4. CASE op' = [op EXCEPT !.step = IF op.kind = "rename" THEN "unlink" ELSE "slot"]
    <2>1. op.kind \in {"create_directory", "rename"}
      BY <1>1 DEF StepOK, Call
    <2>2. PICK n \in Call : op' = n /\ StepOK(n)
      BY BeforeDisk DEF StepOK
    <2>3. /\ n.kind = op.kind /\ n.at = op.at /\ n.slot = op.slot /\ n.first = op.first
          /\ n.entry = op.entry /\ n.step = IF op.kind = "rename" THEN "unlink" ELSE "slot"
      BY <1>1, <1>4, <2>2 DEF Call
    <2>4. \A l \in LiveEntries : EntrySound(l, n)
      BY <1>1, <2>1, <2>3, EntrySwitch DEF Twins
    <2>5. CallSound(n)
      BY <1>1, <2>1, <2>3 DEF CallSound
    <2> QED BY <1>1, <1>2, <2>2, <2>4, <2>5, BeforeDisk, SoundShrunk DEF Sound
  <1> QED BY <1>3, <1>4, ProceedSafe DEF WriteDots

(* An entry becomes live, or changes, where no other leads to its chain.   *)
LEMMA EntryPut ==
  ASSUME Before, op.step \in {"entry", "update"}, UNCHANGED fat,
         NEW loc \in Location, NEW e \in Entry, PutEntry(loc, e),
         e.kind = "file" /\ e.first # Free => e.size > 0,
         NEW n, n.kind = "none" \/ (n.kind = "rename" /\ n.at = op.at /\ n.slot = loc
                                    /\ n.step \in {"dots", "unlink", "undo"}),
         \/ e.first = Free
         \/ Loose(e.first)
         \/ /\ op.at \in LiveEntries /\ FirstOf(op.at) = e.first
            /\ n.kind = "none" => loc = op.at
  PROVE  \A l \in LiveEntries' : EntrySound(l, n)'
  <1>1. /\ op.kind # "remove" /\ Disk /\ \A l \in LiveEntries : EntrySound(l, op)
        /\ ~(op.kind = "rename" /\ op.step \in {"dots", "unlink", "undo"})
    BY BeforeDisk DEF StepOK
  <1>2. \A l \in Location : EntryAt(l)' = IF l = loc THEN e ELSE EntryAt(l)
    BY <1>1, PutEffect
  <1>3. \A l \in LiveEntries' : l # loc => l \in LiveEntries /\ FirstOf(l)' = FirstOf(l)
    BY <1>2 DEF LiveEntries, FirstOf
  <1>4. loc \in LiveEntries' => FirstOf(loc)' = e.first
    BY <1>2 DEF FirstOf
  <1>5. e.first # Free => /\ ~Pointed(e.first) /\ e.first # Root /\ fat[e.first] # Free
                          /\ \A l \in LiveEntries : FirstOf(l) = e.first =>
                               l = op.at /\ (n.kind = "none" => loc = op.at)
    BY <1>1 DEF Loose, Named, EntrySound, Twins
  <1>6. ASSUME NEW l \in LiveEntries', l # loc, FirstOf(l) # Free
        PROVE  /\ ~Pointed(FirstOf(l)) /\ FirstOf(l) # Root /\ fat[FirstOf(l)] # Free
               /\ EntryAt(l).kind = "file" => EntryAt(l).size > 0
               /\ \A m \in LiveEntries' : FirstOf(m)' = FirstOf(l) => m = l \/ Twins(n, l, m)
    <2>1. l \in LiveEntries /\ EntrySound(l, op)
      BY <1>1, <1>3, <1>6
    <2>2. \A m \in LiveEntries : FirstOf(m) = FirstOf(l) => m = l
      BY <1>1, <1>6, <2>1 DEF EntrySound, Twins
    <2>3. ASSUME NEW m \in LiveEntries', FirstOf(m)' = FirstOf(l), m # l PROVE Twins(n, l, m)
      <3>1. m = loc
        BY <1>3, <2>2, <2>3
      <3>2. l = op.at /\ (n.kind = "none" => loc = op.at)
        BY <1>4, <1>5, <1>6, <2>1, <2>3, <3>1
      <3> QED BY <1>6, <3>1, <3>2 DEF Twins
    <2> QED BY <1>1, <1>6, <2>1, <2>3 DEF EntrySound
  <1>7. ASSUME loc \in LiveEntries', e.first # Free, NEW m \in LiveEntries',
               FirstOf(m)' = e.first, m # loc
        PROVE  Twins(n, loc, m)
    BY <1>3, <1>5, <1>7 DEF Twins
  <1>8. ASSUME NEW l \in LiveEntries' PROVE EntrySound(l, n)'
    <2>1. CASE l = loc
      <3> SUFFICES ASSUME e.first # Free PROVE EntrySound(l, n)'
        BY <1>4, <2>1 DEF EntrySound
      <3>1. FirstOf(l)' = e.first /\ EntryAt(l)' = e
        BY <1>2, <1>4, <1>8, <2>1
      <3>2. ~Pointed(FirstOf(l))' /\ (FirstOf(l) # Root)' /\ (fat[FirstOf(l)] # Free)'
        BY <1>5, <3>1 DEF Pointed
      <3> QED BY <1>7, <1>8, <2>1, <3>1, <3>2 DEF EntrySound, Twins
    <2>2. CASE l # loc
      <3> SUFFICES ASSUME FirstOf(l) # Free PROVE EntrySound(l, n)'
        BY <1>3, <1>8, <2>2 DEF EntrySound
      <3>1. FirstOf(l)' = FirstOf(l) /\ EntryAt(l)' = EntryAt(l)
        BY <1>2, <1>3, <1>8, <2>2 DEF LiveEntries
      <3>2. ~Pointed(FirstOf(l))' /\ (FirstOf(l) # Root)' /\ (fat[FirstOf(l)] # Free)'
        BY <1>6, <1>8, <2>2, <3>1 DEF Pointed
      <3> QED BY <1>6, <1>8, <2>2, <3>1, <3>2 DEF EntrySound, Twins
    <2> QED BY <2>1, <2>2
  <1> QED BY <1>8

LEMMA IdleCallSound ==
  ASSUME Disk, op' = Idle, TableSound, UNCHANGED fat, NEW n, n = Idle,
         \A l \in LiveEntries' : EntrySound(l, n)'
  PROVE  Sound(op)'
  <1>1. op'.kind = "none" /\ op'.step = "idle"
    BY DEF Idle
  <1>2. TableSound'
    BY DEF TableSound
  <1> QED BY <1>1, <1>2 DEF Sound, EntrySound, Twins, CallSound

LEMMA WriteEntrySound == ASSUME Before, WriteEntry PROVE Sound(op)'
  <1>1. /\ op.step = "entry" /\ Disk /\ Disk' /\ UNCHANGED fat /\ PutEntry(op.slot, op.entry)
        /\ op \in Call /\ StepOK(op) /\ CallSound(op) /\ TableSound
    BY BeforeDisk DEF WriteEntry
  <1>2. op.kind \in {"create_file", "create_directory", "rename"}
    BY <1>1 DEF StepOK, Call
  <1>3. op.slot \in Location /\ op.entry \in Entry
    BY <1>1 DEF Call
  <1>4. op.entry.kind = "file" /\ op.entry.first # Free => op.entry.size > 0
    BY <1>1, <1>2 DEF CallSound
  <1>5. \/ op.entry.first = Free
        \/ Loose(op.entry.first)
        \/ op.kind = "rename" /\ op.at \in LiveEntries /\ FirstOf(op.at) = op.entry.first
    BY <1>1, <1>2 DEF CallSound, Holds
  <1>6. CASE op.kind = "rename" /\ op.slot # op.at
    <2>1. \E step \in {"dots", "unlink"} : op' = [op EXCEPT !.step = step]
      BY <1>1, <1>6, ProceedSafe DEF WriteEntry, WriteWindow
    <2>2. PICK n \in Call : op' = n
      BY BeforeDisk
    <2>3. /\ n.kind = "rename" /\ n.at = op.at /\ n.slot = op.slot /\ n.step \in {"dots", "unlink"}
          /\ n.entry = op.entry /\ n.first = op.first
      BY <1>1, <1>6, <2>1, <2>2 DEF Call
    <2>4. \A l \in LiveEntries' : EntrySound(l, n)'
      BY <1>1, <1>3, <1>4, <1>5, <2>3, EntryPut
    <2>5. TableSound'
      BY <1>1 DEF TableSound
    <2> QED BY <1>1, <1>6, <2>2, <2>3, <2>4, <2>5 DEF Sound, EntrySound, Twins, CallSound
  <1>7. CASE ~(op.kind = "rename" /\ op.slot # op.at)
    <2>1. op' = Idle
      <3>1. Finish("ok") \/ (Recover /\ ~WriteWindow(TRUE))
        BY <1>7, WriteFailsSafe DEF WriteEntry, Complete
      <3> QED BY <1>1, <3>1 DEF Finish, Recover, WriteWindow
    <2>2. PICK n \in Call : n = Idle
      BY IdleType
    <2>3. n.kind = "none"
      BY <2>2 DEF Idle
    <2>4. \A l \in LiveEntries' : EntrySound(l, n)'
      BY <1>1, <1>3, <1>4, <1>5, <1>7, <2>3, EntryPut
    <2> QED BY <1>1, <2>1, <2>2, <2>4, IdleCallSound
  <1> QED BY <1>6, <1>7

LEMMA UpdateEntrySound == ASSUME Before, UpdateEntry PROVE Sound(op)'
  <1> DEFINE e == [op.entry EXCEPT !.first = op.first]
  <1>1. /\ op.step = "update" /\ Disk /\ Disk' /\ UNCHANGED fat /\ PutEntry(op.at, e)
        /\ op \in Call /\ StepOK(op) /\ CallSound(op) /\ TableSound
    BY BeforeDisk DEF UpdateEntry
  <1>2. op.kind = "write" /\ op.at \in Location /\ op.entry \in Entry
    BY <1>1 DEF StepOK, Call
  <1>3. e \in Entry /\ e.first = op.first /\ e.size = op.entry.size
    BY <1>1, <1>2 DEF Call, Entry
  <1>4. e.first # Free => e.size > 0
    BY <1>1, <1>2, <1>3 DEF CallSound, Entry, Size
  <1>5. \/ e.first = Free
        \/ Loose(e.first)
        \/ op.at \in LiveEntries /\ FirstOf(op.at) = e.first
    BY <1>1, <1>2, <1>3 DEF CallSound, Holds
  <1>6. op' = Idle
    <2>1. Finish("ok") \/ (Recover /\ ~WriteWindow(TRUE))
      BY WriteFailsSafe DEF UpdateEntry, Complete
    <2> QED BY <1>2, <2>1 DEF Finish, Recover
  <1>7. PICK n \in Call : n = Idle
    BY IdleType
  <1>8. n.kind = "none"
    BY <1>7 DEF Idle
  <1> HIDE DEF e
  <1>9. \A l \in LiveEntries' : EntrySound(l, n)'
    BY <1>1, <1>2, <1>3, <1>4, <1>5, <1>8, EntryPut
  <1> QED BY <1>1, <1>6, <1>7, <1>9, IdleCallSound

(* One of the two entries of a rename goes, or the entry of a removal.     *)
LEMMA EntryGone ==
  ASSUME Before, UNCHANGED fat, EntriesShrink, op' = Idle,
         NEW loc \in {op.at, op.slot}, loc \notin LiveEntries',
         op.kind = "remove" => loc = op.at
  PROVE  Sound(op)'
  <1>1. Disk /\ TableSound /\ \A l \in LiveEntries : EntrySound(l, op)
    BY BeforeDisk
  <1>2. PICK n \in Call : n = Idle
    BY IdleType
  <1>3. ASSUME NEW l \in LiveEntries', FirstOf(l) # Free
        PROVE  /\ ~Pointed(FirstOf(l)) /\ FirstOf(l) # Root /\ fat[FirstOf(l)] # Free
               /\ EntryAt(l).kind = "file" => EntryAt(l).size > 0
               /\ \A m \in LiveEntries' : FirstOf(m) = FirstOf(l) => m = l
    <2>1. l \in LiveEntries /\ EntrySound(l, op) /\ \A m \in LiveEntries' : m \in LiveEntries
      BY <1>1, <1>3, EntryMapped
    <2> QED BY <1>3, <2>1 DEF EntrySound, Twins
  <1>4. ASSUME NEW l \in LiveEntries' PROVE EntrySound(l, n)'
    <2>1. FirstOf(l)' = FirstOf(l) /\ EntryAt(l)' = EntryAt(l)
      BY <1>4, EntryMapped
    <2>2. \A m \in LiveEntries' : FirstOf(m)' = FirstOf(m)
      BY EntryMapped
    <2>3. ASSUME FirstOf(l) # Free
          PROVE  ~Pointed(FirstOf(l))' /\ (FirstOf(l) # Root)' /\ (fat[FirstOf(l)] # Free)'
      BY <1>3, <1>4, <2>1, <2>3 DEF Pointed
    <2> QED BY <1>3, <1>4, <2>1, <2>2, <2>3 DEF EntrySound
  <1> QED BY <1>1, <1>2, <1>4, IdleCallSound

LEMMA UnlinkEntrySound == ASSUME Before, UnlinkEntry PROVE Sound(op)'
  <1>1. op.step = "unlink" /\ Disk /\ UNCHANGED fat /\ op \in Call /\ StepOK(op)
    BY BeforeDisk DEF UnlinkEntry
  <1>2. op.at \in Location /\ "deleted" \in Kinds \ Live
    BY <1>1 DEF Call, Live
  <1>3. EntriesShrink /\ op.at \notin LiveEntries'
    BY <1>1, <1>2, PutShrinks DEF UnlinkEntry
  <1>4. op' = Idle
    <2>1. Finish("ok") \/ Recover
      BY WriteFailsSafe DEF UnlinkEntry, Complete
    <2> QED BY <1>1, <2>1 DEF Finish, Recover, StepOK
  <1> QED BY <1>1, <1>3, <1>4, EntryGone

LEMMA UndoEntrySound == ASSUME Before, UndoEntry PROVE Sound(op)'
  <1>1. op.step = "undo" /\ Disk /\ UNCHANGED fat /\ op \in Call /\ StepOK(op)
    BY BeforeDisk DEF UndoEntry
  <1>2. op.slot \in Location /\ "deleted" \in Kinds \ Live
    BY <1>1 DEF Call, Live
  <1>3. EntriesShrink /\ op.slot \notin LiveEntries'
    BY <1>1, <1>2, PutShrinks DEF UndoEntry
  <1>4. op' = Idle
    <2>1. Finish("error") \/ Recover
      BY WriteFailsSafe DEF UndoEntry
    <2> QED BY <1>1, <2>1 DEF Finish, Recover, StepOK
  <1>5. op.kind # "remove"
    BY <1>1 DEF StepOK
  <1> QED BY <1>1, <1>3, <1>4, <1>5, EntryGone

LEMMA WriteDataSound == ASSUME Before, WriteData PROVE Sound(op)'
  <1>1. /\ op.step = "data" /\ Disk /\ Disk' /\ op \in Call /\ StepOK(op) /\ CallSound(op)
        /\ \A l \in LiveEntries : EntrySound(l, op)
    BY BeforeDisk DEF WriteData
  <1>2. op.kind = "write"
    BY <1>1 DEF StepOK, Call
  <1> DEFINE c == ClusterAt(op.first, op.pos)
             o == [op EXCEPT !.pos = op.pos + 1]
  <1>3. CASE Fail
    BY <1>1, <1>3, FailSound
  <1>4. CASE /\ slots' = [slots EXCEPT ![c] = [s \in Slot |-> Mark("data")]]
             /\ Proceed(DataOrUpdate([op EXCEPT !.pos = @ + 1])) /\ UNCHANGED fat
    <2>1. EntriesShrink
      <3>1. "data" \in Kinds \ Live
        BY DEF Live
      <3> HIDE DEF c
      <3> QED BY <1>1, <1>4, <3>1, RowShrinks
    <2>2. op' = DataOrUpdate(o) \/ (Recover /\ ~WriteWindow(TRUE))
      <3>1. Proceed(DataOrUpdate(o))
        BY <1>1, <1>4 DEF Call
      <3> HIDE DEF o
      <3> QED BY <3>1, ProceedSafe
    <2>3. CASE Recover
      BY <1>1, <1>4, <2>1, <2>3, RecoverSound, SoundShrunk DEF Before, HalfRemoved
    <2>4. CASE op' = DataOrUpdate(o)
      <3>1. PICK n \in Call : op' = n /\ StepOK(n)
        BY BeforeDisk DEF StepOK
      <3>2. /\ o \in Call /\ o.kind = op.kind /\ o.at = op.at
            /\ o.first = op.first /\ o.entry = op.entry
        <4>1. op \in Call /\ op.pos + 1 \in Nat
          BY <1>1 DEF Call
        <4> HIDE DEF Operations, Steps
        <4> QED BY <4>1 DEF Call
      <3> HIDE DEF o
      <3>3. /\ n.kind = "write" /\ n.at = op.at /\ n.first = op.first
            /\ n.entry = op.entry /\ n.step \in {"data", "update"}
        BY <1>2, <2>4, <3>1, <3>2 DEF DataOrUpdate, Call
      <3>4. \A l \in LiveEntries : EntrySound(l, n)
        BY <1>1, <1>2, EntrySwitch DEF Twins
      <3>5. CallSound(n)
        BY <1>1, <1>2, <3>3 DEF CallSound, Holds
      <3> QED BY <1>1, <1>4, <2>1, <3>1, <3>4, <3>5, BeforeDisk, SoundShrunk DEF Sound
    <2> QED BY <2>2, <2>3, <2>4
  <1> QED BY <1>3, <1>4 DEF WriteData

(* Nothing leads any more to what followed the cluster a chain is cut at.  *)
LEMMA CutEffect ==
  ASSUME Disk, TableSound, NEW keep \in Clusters, NEW tail, tail = fat[keep],
         fat' = [fat EXCEPT ![keep] = EndOfChain]
  PROVE  /\ TableSound' /\ TableChange({}, {})
         /\ tail \in Clusters => tail # Root /\ fat'[tail] # Free /\ Pointed(tail) /\ ~Pointed(tail)'
  <1>1. EndOfChain \notin Clusters /\ EndOfChain # Free
    BY DEF Clusters, EndOfChain, Free
  <1>2. \A d \in Clusters : fat'[d] = IF d = keep THEN EndOfChain ELSE fat[d]
    BY DEF Disk
  <1>3. TableChange({}, {})
    BY <1>1, <1>2 DEF TableChange, Pointed
  <1>4. TableSound'
    BY <1>1, <1>2 DEF TableSound
  <1>5. tail \in Clusters => tail # Root /\ fat'[tail] # Free /\ Pointed(tail) /\ ~Pointed(tail)'
    BY <1>1, <1>2 DEF TableSound, Pointed
  <1> QED BY <1>3, <1>4, <1>5

LEMMA CutChainSound == ASSUME Before, CutChain PROVE Sound(op)'
  <1>1. /\ op.step = "cut" /\ Disk /\ Disk' /\ op \in Call /\ StepOK(op) /\ CallSound(op)
        /\ TableSound /\ \A l \in LiveEntries : EntrySound(l, op)
    BY BeforeDisk DEF CutChain
  <1>2. op.kind = "write" /\ op.entry.size # 0
    BY <1>1 DEF StepOK, Call, CallSound
  <1> DEFINE keep_last == ClusterAt(op.first, op.need - 1)
  <1>3. CASE Fail
    BY <1>1, <1>3, FailSound
  <1>4. ASSUME NEW tail, tail = fat[keep_last],
               keep_last \in Clusters, fat' = [fat EXCEPT ![keep_last] = EndOfChain],
               UNCHANGED slots,
               \/ tail \in Clusters /\ Proceed([op EXCEPT !.cur = tail, !.step = "free"])
               \/ Proceed(DataOrUpdate(op))
               \/ Recover
        PROVE  Sound(op)'
    <2> HIDE DEF keep_last
    <2>1. /\ TableSound' /\ TableChange({}, {}) /\ EntriesShrink
          /\ tail \in Clusters => tail # Root /\ fat'[tail] # Free /\ Pointed(tail) /\ ~Pointed(tail)'
      BY <1>1, <1>4, CutEffect, SameSlots
    <2>2. ASSUME NEW n \in Call, op' = n, StepOK(n), Sound(n) PROVE Sound(op)'
      <3>1. Avoids(n, {} \cup {})
        BY DEF Avoids
      <3> QED BY <1>1, <2>1, <2>2, <3>1, SoundKept
    <2>3. CASE Recover
      BY <1>1, <2>2, <2>3, RecoverSound DEF Before, HalfRemoved
    <2>4. CASE op' = DataOrUpdate(op)
      <3>1. PICK n \in Call : op' = n /\ StepOK(n)
        BY BeforeDisk DEF StepOK
      <3>2. /\ n.kind = "write" /\ n.at = op.at /\ n.first = op.first
            /\ n.entry = op.entry /\ n.step \in {"data", "update"}
        BY <1>1, <1>2, <2>4, <3>1 DEF DataOrUpdate, Call
      <3>3. \A l \in LiveEntries : EntrySound(l, n)
        BY <1>1, <1>2, EntrySwitch DEF Twins
      <3>4. CallSound(n)
        BY <1>1, <1>2, <3>2 DEF CallSound, Holds
      <3> QED BY <1>1, <2>2, <3>1, <3>3, <3>4 DEF Sound
    <2>5. CASE tail \in Clusters /\ op' = [op EXCEPT !.cur = tail, !.step = "free"]
      <3>1. PICK n \in Call : n = op
        BY <1>1
      <3>2. /\ op'.kind = "write" /\ op'.step = "free" /\ op'.cur = tail /\ op'.first = n.first
            /\ op'.entry = n.entry /\ op'.at = n.at
        BY <1>1, <1>2, <2>5, <3>1 DEF Call
      <3>3. CallSound(n)' /\ \A l \in LiveEntries' : EntrySound(l, n)'
        <4>1. Avoids(n, {} \cup {})
          BY DEF Avoids
        <4> QED BY <1>1, <2>1, <3>1, <4>1, CallKept, EntriesKept
      <3>4. \A l \in LiveEntries : FirstOf(l) # tail
        BY <1>1, <2>1, <2>5 DEF EntrySound, Clusters, Free
      <3>5. \A l \in LiveEntries' : FirstOf(l)' # tail
        BY <2>1, <3>4, EntryMapped
      <3>6. n.first # tail
        BY <1>1, <1>2, <2>1, <2>5, <3>1, <3>4 DEF CallSound, Holds, Loose, Clusters, Free
      <3>7. n.kind = "write" /\ n.entry.size # 0
        BY <1>2, <3>1
      <3> QED BY <2>1, <2>5, <3>2, <3>3, <3>5, <3>6, <3>7
              DEF Sound, EntrySound, Twins, CallSound, Holds
    <2> QED BY <1>4, <2>3, <2>4, <2>5, ProceedSafe
  <1> QED BY <1>3, <1>4 DEF CutChain

(* A cluster nothing points to is freed.                                   *)
LEMMA FreeEffect ==
  ASSUME Disk, TableSound, NEW cur \in Clusters, cur # Root, ~Pointed(cur),
         NEW next, next = fat[cur], fat' = [fat EXCEPT ![cur] = Free]
  PROVE  /\ TableSound' /\ TableChange({}, {cur})
         /\ next \in Clusters => next # Root /\ fat'[next] # Free /\ Pointed(next) /\ ~Pointed(next)'
  <1>1. Free \notin Clusters
    BY DEF Clusters, Free
  <1>2. \A d \in Clusters : fat'[d] = IF d = cur THEN Free ELSE fat[d]
    BY DEF Disk
  <1>3. TableChange({}, {cur})
    BY <1>1, <1>2 DEF TableChange, Pointed
  <1>4. TableSound'
    BY <1>1, <1>2 DEF TableSound, Pointed
  <1>5. next \in Clusters => next # Root /\ fat'[next] # Free /\ Pointed(next) /\ ~Pointed(next)'
    BY <1>1, <1>2 DEF TableSound, Pointed
  <1> QED BY <1>3, <1>4, <1>5

LEMMA FreeClusterSound == ASSUME Before, FreeCluster PROVE Sound(op)'
  <1>1. /\ op.step = "free" /\ Disk /\ Disk' /\ op \in Call /\ StepOK(op) /\ CallSound(op)
        /\ TableSound /\ UNCHANGED slots /\ fat' = [fat EXCEPT ![op.cur] = Free]
        /\ \A l \in LiveEntries : EntrySound(l, op)
    BY BeforeDisk DEF FreeCluster
  <1>2. op.kind \in {"create_directory", "write", "remove"}
    BY <1>1 DEF StepOK, Call
  <1>3. /\ op.cur \in Clusters /\ op.cur # Root /\ fat[op.cur] # Free /\ ~Pointed(op.cur)
        /\ \A l \in LiveEntries : FirstOf(l) = op.cur => op.kind = "remove" /\ l = op.at
        /\ op.kind = "write" => op.cur # op.first /\ op.entry.size # 0
    BY <1>1 DEF CallSound
  <1>4. PICK n \in Call : n = op
    BY <1>1
  <1>5. PICK next : next = fat[n.cur]
    OBVIOUS
  <1>6. /\ TableSound' /\ TableChange({}, {n.cur}) /\ EntriesShrink
        /\ next \in Clusters => next # Root /\ fat'[next] # Free /\ Pointed(next) /\ ~Pointed(next)'
    BY <1>1, <1>3, <1>4, <1>5, FreeEffect, SameSlots
  <1>7. CASE op' = Idle /\ op.kind # "remove"
    <2>1. PICK m \in Call : m = Idle
      BY IdleType
    <2>2. m.kind = "none" /\ StepOK(m)
      BY <2>1, IdleType DEF Idle, CallOK
    <2>3. Sound(m)
      BY <1>1, <1>7, <2>1, IdleSound
    <2>4. Avoids(m, {} \cup {n.cur})
      BY <2>2 DEF Avoids, StepOK
    <2>5. \A l \in LiveEntries : FirstOf(l) # n.cur
      BY <1>3, <1>4, <1>7
    <2> QED BY <1>1, <1>6, <1>7, <2>1, <2>2, <2>3, <2>4, <2>5, SoundKept
  <1>8. op.kind = "write" => Holds(n)'
    <2> SUFFICES ASSUME op.kind = "write" PROVE Holds(n)'
      OBVIOUS
    <2>1. Holds(n) /\ n.first \notin {} \cup {n.cur}
      BY <1>1, <1>3, <1>4 DEF CallSound
    <2> QED BY <1>1, <1>4, <1>6, <2>1, HoldsKept
  <1>9. ASSUME NEW m \in Call, op' = m, StepOK(m), m.kind = op.kind, m.at = op.at,
               m.first = op.first, m.entry = op.entry, m.step \in {"free", "unlink", "data", "update"},
               m.step = "free" => m.cur = next /\ next \in Clusters
        PROVE  Sound(op)'
    <2>1. \A l \in LiveEntries : EntrySound(l, m)
      BY <1>1, <1>2, <1>9, EntrySwitch DEF Twins
    <2>2. \A l \in LiveEntries' : EntrySound(l, m)'
      BY <1>1, <1>3, <1>4, <1>6, <1>9, <2>1, EntriesKept
    <2>3. m.step = "free" => \A l \in LiveEntries' : FirstOf(l)' # next
      BY <1>1, <1>6, <1>9, EntryMapped DEF EntrySound, Clusters, Free
    <2>4. m.step = "free" /\ m.kind = "write" => m.first # next
      BY <1>1, <1>6, <1>9 DEF CallSound, Holds, Loose, EntrySound, Clusters, Free
    <2>5. m.kind = "write" => Holds(m)' /\ m.entry.size # 0
      BY <1>3, <1>4, <1>8, <1>9 DEF Holds
    <2>6. m.kind = "remove" /\ m.at \in LiveEntries' => FirstOf(m.at)' = m.first
      BY <1>1, <1>6, <1>9, EntryMapped DEF CallSound
    <2>7. m.kind = "create_directory" =>
            m.step = "free" /\ m.entry.kind = "dir" /\ m.entry.first = m.first
      BY <1>1, <1>9 DEF CallSound, StepOK
    <2>8. CallSound(m)'
      BY <1>2, <1>6, <1>9, <2>3, <2>4, <2>5, <2>6, <2>7 DEF CallSound
    <2> QED BY <1>6, <1>9, <2>2, <2>8 DEF Sound, EntrySound, Twins, CallSound, Holds
  <1>10. CASE Recover /\ ~WriteWindow(TRUE)
    <2>1. op.kind # "remove"
      BY <1>1, <1>10 DEF WriteWindow
    <2>2. op' = Idle
      BY <1>1, <1>2, <1>10 DEF Recover, Finish
    <2> QED BY <1>7, <2>1, <2>2
  <1>11. CASE fat[op.cur] \in Clusters /\ op' = [op EXCEPT !.cur = fat[op.cur]]
    <2>1. PICK m \in Call : op' = m /\ StepOK(m)
      BY BeforeDisk DEF StepOK
    <2>2. /\ m.kind = op.kind /\ m.at = op.at /\ m.first = op.first /\ m.entry = op.entry
          /\ m.step = "free" /\ m.cur = next /\ next \in Clusters
      BY <1>1, <1>4, <1>5, <1>11, <2>1 DEF Call
    <2> QED BY <1>9, <2>1, <2>2
  <1>12. CASE op.kind = "remove" /\ op' = [op EXCEPT !.step = "unlink"]
    <2>1. PICK m \in Call : op' = m /\ StepOK(m)
      BY BeforeDisk DEF StepOK
    <2>2. /\ m.kind = op.kind /\ m.at = op.at /\ m.first = op.first /\ m.entry = op.entry
          /\ m.step = "unlink"
      BY <1>1, <1>12, <2>1 DEF Call
    <2> QED BY <1>9, <2>1, <2>2
  <1>13. CASE op.kind = "write" /\ op' = DataOrUpdate(op)
    <2>1. PICK m \in Call : op' = m /\ StepOK(m)
      BY BeforeDisk DEF StepOK
    <2>2. /\ m.kind = op.kind /\ m.at = op.at /\ m.first = op.first /\ m.entry = op.entry
          /\ m.step \in {"data", "update"}
      BY <1>1, <1>13, <2>1 DEF Call, DataOrUpdate
    <2> QED BY <1>9, <2>1, <2>2
  <1>14. CASE op.kind = "create_directory" /\ Finish("error")
    BY <1>7, <1>14 DEF Finish
  <1>15. \/ Recover /\ ~WriteWindow(TRUE)
         \/ fat[op.cur] \in Clusters /\ op' = [op EXCEPT !.cur = fat[op.cur]]
         \/ op.kind = "remove" /\ op' = [op EXCEPT !.step = "unlink"]
         \/ op.kind = "write" /\ op' = DataOrUpdate(op)
         \/ op.kind = "create_directory" /\ Finish("error")
    BY <1>3, ProceedSafe, WriteFailsSafe DEF FreeCluster
  <1> QED BY <1>10, <1>11, <1>12, <1>13, <1>14, <1>15
-----------------------------------------------------------------------------
(* The calls.                                                              *)

LEMMA RefuseSound ==
  ASSUME Before, op.step = "idle", UNCHANGED <<fat, slots>>, Refuse
  PROVE  Sound(op)'
  <1>1. op.kind = "none" /\ Disk /\ TableSound /\ \A l \in LiveEntries : EntrySound(l, op)
    BY BeforeDisk DEF StepOK, Call
  <1>2. Idle \in Call /\ StepOK(Idle) /\ Sound(Idle)
    BY <1>1, IdleType, IdleSound DEF CallOK
  <1> QED BY <1>1, <1>2, SoundUnchanged DEF Refuse, Finish

LEMMA BeginSound ==
  ASSUME Before, op.step = "idle", UNCHANGED <<fat, slots>>, NEW n \in Call, op' = n, CallSound(n)
  PROVE  Sound(op)'
  <1>1. op.kind = "none" /\ Disk /\ TableSound /\ \A l \in LiveEntries : EntrySound(l, op)
    BY BeforeDisk DEF StepOK, Call
  <1>2. \A l \in LiveEntries : EntrySound(l, n)
    BY <1>1, EntrySwitch DEF Twins
  <1>3. StepOK(n)
    BY BeforeDisk DEF StepOK
  <1> QED BY <1>1, <1>2, <1>3, SoundUnchanged DEF Sound

LEMMA LookupLive ==
  ASSUME NEW path, NEW loc \in Lookup(path)
  PROVE  loc \in LiveEntries
  <1>1. loc \in Location
    BY LookupType
  <1>2. EntryAt(loc).kind \in Live
    BY DEF Lookup, fat32_find_in_directory, Lowest, KindAt
  <1> QED BY <1>1, <1>2 DEF LiveEntries

LEMMA IdleFirst == Idle.first = Free
  BY DEF Idle

LEMMA CreateFileSound ==
  ASSUME Before, NEW path \in Paths, fat32_create_file(path)
  PROVE  Sound(op)'
  <1>1. op.step = "idle" /\ UNCHANGED <<fat, slots>>
    BY DEF fat32_create_file, Ready
  <1> DEFINE e == fat32_build_entry("file", NameOf(path), Free, 0)
  <1>2. CASE op' = [Idle EXCEPT !.kind = "create_file", !.step = "slot", !.dir = ParentOf(path),
                      !.entry = e]
    <2>1. PICK n \in Call : op' = n
      BY BeforeDisk
    <2>2. n.kind = "create_file" /\ n.step = "slot" /\ n.entry = e /\ n.first = Idle.first
      <3> DEFINE dir == ParentOf(path)
      <3>1. n = [Idle EXCEPT !.kind = "create_file", !.step = "slot", !.dir = dir, !.entry = e]
        BY <1>2, <2>1
      <3>2. Idle \in Call
        BY IdleType
      <3> HIDE DEF dir, e
      <3> QED BY <3>1, <3>2 DEF Call
    <2>3. CallSound(n)
      BY <2>2, IdleFirst DEF CallSound, fat32_build_entry
    <2> QED BY <1>1, <2>1, <2>3, BeginSound
  <1> QED BY <1>1, <1>2, RefuseSound DEF fat32_create_file, Begin

LEMMA CreateDirectorySound ==
  ASSUME Before, NEW path \in Paths, fat32_create_directory(path)
  PROVE  Sound(op)'
  <1>1. op.step = "idle" /\ UNCHANGED <<fat, slots>>
    BY DEF fat32_create_directory, Ready
  <1> DEFINE e == fat32_build_entry("dir", NameOf(path), Free, 0)
  <1>2. CASE op' = [Idle EXCEPT !.kind = "create_directory", !.step = "mark",
                      !.dir = ParentOf(path), !.entry = e]
    <2>1. PICK n \in Call : op' = n
      BY BeforeDisk
    <2>2. n.kind = "create_directory" /\ n.step = "mark" /\ n.entry = e /\ n.first = Idle.first
      <3> DEFINE dir == ParentOf(path)
      <3>1. n = [Idle EXCEPT !.kind = "create_directory", !.step = "mark", !.dir = dir, !.entry = e]
        BY <1>2, <2>1
      <3>2. Idle \in Call
        BY IdleType
      <3> HIDE DEF dir, e
      <3> QED BY <3>1, <3>2 DEF Call
    <2>3. CallSound(n)
      BY <2>2, IdleFirst DEF CallSound, fat32_build_entry
    <2> QED BY <1>1, <2>1, <2>3, BeginSound
  <1> QED BY <1>1, <1>2, RefuseSound DEF fat32_create_directory, Begin

LEMMA RemoveSound ==
  ASSUME Before, NEW path \in Paths, fat32_remove(path)
  PROVE  Sound(op)'
  <1>1. op.step = "idle" /\ UNCHANGED <<fat, slots>>
    BY DEF fat32_remove, Ready
  <1>2. ASSUME NEW loc \in Lookup(path),
               Begin([Idle EXCEPT !.kind = "remove", !.at = loc,
                        !.first = EntryAt(loc).first, !.cur = EntryAt(loc).first,
                        !.step = IF EntryAt(loc).first = Free THEN "unlink" ELSE "free"])
        PROVE  Sound(op)'
    <2>1. loc \in LiveEntries /\ op.kind = "none" /\ EntrySound(loc, op) /\ Disk /\ TableSound
      BY <1>1, LookupLive, BeforeDisk DEF StepOK, Call
    <2>2. FirstOf(loc) \in Clusters \cup {Free}
      BY <2>1, FirstType DEF LiveEntries
    <2>3. PICK n \in Call : op' = n
      BY BeforeDisk
    <2>4. /\ n.kind = "remove" /\ n.at = loc /\ n.first = FirstOf(loc) /\ n.cur = FirstOf(loc)
          /\ n.step = IF FirstOf(loc) = Free THEN "unlink" ELSE "free"
      <3> DEFINE first == EntryAt(loc).first
                 step == IF first = Free THEN "unlink" ELSE "free"
      <3>1. n = [Idle EXCEPT !.kind = "remove", !.at = loc, !.first = first, !.cur = first,
                   !.step = step]
        BY <1>2, <2>3 DEF Begin
      <3>2. Idle \in Call
        BY IdleType
      <3> HIDE DEF first, step
      <3>3. n.kind = "remove" /\ n.at = loc /\ n.first = first /\ n.cur = first /\ n.step = step
        BY <3>1, <3>2 DEF Call
      <3> QED BY <3>3 DEF first, step, FirstOf
    <2>5. CallSound(n)
      BY <2>1, <2>2, <2>4 DEF CallSound, EntrySound, Twins
    <2> QED BY <1>1, <2>3, <2>5, BeginSound
  <1> QED BY <1>1, <1>2, RefuseSound DEF fat32_remove

LEMMA RenameSound ==
  ASSUME Before, NEW path \in Paths, NEW new_path \in Paths, fat32_rename(path, new_path)
  PROVE  Sound(op)'
  <1>1. op.step = "idle" /\ UNCHANGED <<fat, slots>>
    BY DEF fat32_rename, Ready
  <1>2. ASSUME NEW loc \in Lookup(path), NEW from, NEW to, NEW name,
               Begin(RenameCall(loc, from, to, name))
        PROVE  Sound(op)'
    <2>1. /\ loc \in LiveEntries /\ op.kind = "none" /\ EntrySound(loc, op) /\ Disk
          /\ EntryAt(loc) \in Entry
      BY <1>1, LookupLive, BeforeDisk, FirstType DEF StepOK, Call, LiveEntries
    <2>2. PICK n \in Call : op' = n
      BY BeforeDisk
    <2> DEFINE e == [EntryAt(loc) EXCEPT !.name = name]
    <2>3. e.kind = EntryAt(loc).kind /\ e.first = FirstOf(loc) /\ e.size = EntryAt(loc).size
      BY <2>1 DEF Entry, FirstOf
    <2>4. /\ n.kind = "rename" /\ n.at = loc /\ n.first = FirstOf(loc) /\ n.entry = e
          /\ n.step \in {"entry", "slot"}
      <3> DEFINE first == EntryAt(loc).first
                 step == IF from = to THEN "entry" ELSE "slot"
      <3>1. n = [Idle EXCEPT !.kind = "rename", !.dir = to, !.at = loc, !.slot = loc,
                   !.entry = e, !.first = first, !.step = step]
        BY <1>2, <2>2 DEF Begin, RenameCall
      <3>2. Idle \in Call
        BY IdleType
      <3> HIDE DEF first, step, e
      <3>3. /\ n.kind = "rename" /\ n.at = loc /\ n.first = first /\ n.entry = e /\ n.step = step
        BY <3>1, <3>2 DEF Call
      <3> QED BY <3>3 DEF first, step, FirstOf
    <2> HIDE DEF e
    <2>5. CallSound(n)
      BY <2>1, <2>3, <2>4 DEF CallSound, Holds, EntrySound
    <2> QED BY <1>1, <2>2, <2>5, BeginSound
  <1>3. Refuse \/ \E loc \in Lookup(path) : \E from, to, name : Begin(RenameCall(loc, from, to, name))
    BY DEF fat32_rename
  <1> QED BY <1>1, <1>2, <1>3, RefuseSound

LEMMA NewSizeGrows ==
  ASSUME NEW e \in Entry, NEW offset \in Offsets, NEW length \in Lengths
  PROVE  NewSize(e, offset, length) >= e.size /\ e.size \in Nat /\ NewSize(e, offset, length) \in Nat
  BY DEF NewSize, Entry, Size

(* What the call of a write keeps while it is prepared.                    *)
LEMMA WriteCallFields ==
  ASSUME TypeInv, NEW loc \in Location, NEW e \in Entry,
         NEW offset \in Offsets, NEW length \in Lengths, offset + length < Word
  PROVE  LET call == WriteCall(loc, e, offset, length)
         IN /\ call \in Call /\ call.kind = "write" /\ call.at = loc /\ call.first = e.first
            /\ call.entry = [e EXCEPT !.size = NewSize(e, offset, length)]
            /\ call.entry.size = NewSize(e, offset, length)
            /\ call.step = "idle"
  <1> DEFINE call == WriteCall(loc, e, offset, length)
             entry == [e EXCEPT !.size = NewSize(e, offset, length)]
             first == e.first
             some == [Idle EXCEPT !.kind = "write", !.at = loc, !.first = first, !.entry = entry]
  <1>1. call \in Call
    BY WriteCallType
  <1>2. entry.size = NewSize(e, offset, length)
    BY DEF Entry
  <1>3. \E pos, lim : call = [some EXCEPT !.pos = pos, !.lim = lim]
    <2>1. some.pos = 0
      BY IdleType DEF Idle
    <2>2. [some EXCEPT !.lim = 0] = [some EXCEPT !.pos = 0, !.lim = 0]
      BY <2>1, IdleType DEF Call
    <2>3. [some EXCEPT !.lim = 1] = [some EXCEPT !.pos = 0, !.lim = 1]
      BY <2>1, IdleType DEF Call
    <2> QED BY <2>2, <2>3 DEF WriteCall
  <1>4. Idle \in Call /\ Idle.step = "idle"
    BY IdleType DEF Idle
  <1>5. call.kind = "write" /\ call.at = loc /\ call.first = first /\ call.entry = entry
        /\ call.step = "idle"
    <2> HIDE DEF entry, first, call
    <2> QED BY <1>3, <1>4 DEF Call
  <1> QED BY <1>1, <1>2, <1>5

LEMMA ResizeFields ==
  ASSUME NEW call \in Call, call.kind = "write", ChainEnds(call.first),
         RequiredClusters(call.entry.size) # 0
  PROVE  LET n == Resize(call)
         IN /\ n.kind = "write" /\ n.at = call.at /\ n.first = call.first
            /\ n.entry = call.entry /\ n.step # "free"
  <1> DEFINE required == RequiredClusters(call.entry.size)
             have     == fat32_chain_length(call.first)
             last     == IF call.first = Free THEN Free
                         ELSE CHOOSE l \in LastCluster(call.first) : TRUE
  <1>1. \/ Resize(call) = [call EXCEPT !.need = required, !.step = "cut"]
        \/ Resize(call) = GrowOrWrite([call EXCEPT !.need = required - have, !.last = last])
    BY DEF Resize
  <1> DEFINE need == required - have
  <1>2. ASSUME NEW n, \/ n = [call EXCEPT !.need = required, !.step = "cut"]
                      \/ n = GrowOrWrite([call EXCEPT !.need = need, !.last = last])
        PROVE  /\ n.kind = "write" /\ n.at = call.at /\ n.first = call.first
               /\ n.entry = call.entry /\ n.step # "free"
    <2> HIDE DEF required, need, last
    <2>1. CASE n = [call EXCEPT !.need = required, !.step = "cut"]
      BY <2>1 DEF Call
    <2>2. CASE n = GrowOrWrite([call EXCEPT !.need = need, !.last = last])
      BY <2>2 DEF GrowOrWrite, DataOrUpdate, Call
    <2> QED BY <1>2, <2>1, <2>2
  <1> QED BY <1>1, <1>2

LEMMA WriteSound ==
  ASSUME Before, NEW path \in Paths, NEW offset \in Offsets, NEW length \in Lengths,
         fat32_write(path, offset, length)
  PROVE  Sound(op)'
  <1>1. op.step = "idle" /\ UNCHANGED <<fat, slots>>
    BY DEF fat32_write, Ready
  <1>2. ASSUME NEW loc \in Lookup(path), offset + length < Word, EntryAt(loc).kind = "file",
               ChainEnds(EntryAt(loc).first),
               Begin(Resize(WriteCall(loc, EntryAt(loc), offset, length))),
               LET size == NewSize(EntryAt(loc), offset, length)
               IN ~(size > 0 /\ RequiredClusters(size) = 0)
        PROVE  Sound(op)'
    <2>1. /\ loc \in LiveEntries /\ loc \in Location /\ EntrySound(loc, op) /\ Disk
          /\ EntryAt(loc) \in Entry /\ FirstOf(loc) \in Clusters \cup {Free}
      BY LookupLive, BeforeDisk, FirstType DEF LiveEntries
    <2> DEFINE size == NewSize(EntryAt(loc), offset, length)
               call == WriteCall(loc, EntryAt(loc), offset, length)
    <2>2. /\ call \in Call /\ call.kind = "write" /\ call.at = loc /\ call.first = FirstOf(loc)
          /\ call.entry = [EntryAt(loc) EXCEPT !.size = size]
          /\ call.entry.size = size /\ call.step = "idle"
      <3>1. /\ TypeInv /\ loc \in Location /\ EntryAt(loc) \in Entry
            /\ offset \in Offsets /\ length \in Lengths /\ offset + length < Word
        BY <1>2, <2>1 DEF Before
      <3> QED BY ONLY <3>1, WriteCallFields DEF FirstOf
    <2>3. FirstOf(loc) # Free => EntryAt(loc).size > 0
      BY <1>2, <2>1 DEF EntrySound
    <2>4. size >= EntryAt(loc).size /\ EntryAt(loc).size \in Nat /\ size \in Nat
      BY <2>1, NewSizeGrows
    <2>5. PICK n \in Call : op' = n
      BY BeforeDisk
    <2>6. n = Resize(call) /\ ChainEnds(call.first)
      BY <1>2, <2>2, <2>5 DEF Begin, FirstOf
    <2>7. ~(size > 0 /\ RequiredClusters(size) = 0)
      BY <1>2
    <2> HIDE DEF size, call
    <2>8. CASE RequiredClusters(size) # 0
      <3>1. /\ n.kind = "write" /\ n.at = loc /\ n.first = FirstOf(loc) /\ n.entry = call.entry
            /\ n.step # "free"
        BY <2>2, <2>6, <2>8, ResizeFields
      <3>2. size # 0
        BY <2>8 DEF RequiredClusters
      <3>3. StepOK(n)
        BY <2>5, BeforeDisk DEF StepOK
      <3>4. n.step \notin {"zero", "link"}
        <4>1. n.step \in {"cut", "mark", "data", "update"}
          BY <2>2, <2>6, <2>8 DEF Resize, GrowOrWrite, DataOrUpdate, Call
        <4> QED BY <4>1
      <3>5. CallSound(n)
        BY <2>1, <2>2, <3>1, <3>2, <3>4 DEF CallSound, Holds
      <3> QED BY <1>1, <2>5, <3>5, BeginSound
    <2>9. CASE RequiredClusters(size) = 0
      <3>1. size = 0 /\ FirstOf(loc) = Free
        BY <2>1, <2>3, <2>4, <2>7, <2>9
      <3>2. n = DataOrUpdate(call)
        BY <2>2, <2>6, <2>9, <3>1 DEF Resize
      <3>3. /\ n.kind = "write" /\ n.first = Free /\ n.entry = call.entry
            /\ n.step \in {"data", "update"}
        BY <2>2, <3>1, <3>2 DEF DataOrUpdate, Call
      <3>4. CallSound(n)
        BY <2>2, <3>1, <3>3 DEF CallSound, Holds
      <3> QED BY <1>1, <2>5, <3>4, BeginSound
    <2> QED BY <2>8, <2>9
  <1>3. \/ Refuse
        \/ \E loc \in Lookup(path) :
             /\ offset + length < Word /\ EntryAt(loc).kind = "file"
             /\ ChainEnds(EntryAt(loc).first)
             /\ Begin(Resize(WriteCall(loc, EntryAt(loc), offset, length)))
             /\ LET size == NewSize(EntryAt(loc), offset, length)
                IN ~(size > 0 /\ RequiredClusters(size) = 0)
    BY DEF fat32_write, Before
  <1> QED BY <1>1, <1>2, <1>3, RefuseSound
-----------------------------------------------------------------------------
(* The disk and the whole.                                                 *)

LEMMA WriteLostSound == ASSUME Before, WriteLost PROVE Sound(op)'
  <1>1. Recover /\ ~WriteWindow(FALSE) /\ UNCHANGED <<fat, slots>>
    BY WriteFailsSafe DEF WriteLost
  <1>2. ~HalfRemoved /\ ~(op.kind = "rename" /\ op.step \in {"unlink", "undo"})
    BY <1>1 DEF WriteWindow
  <1>3. PICK n \in Call : op' = n /\ StepOK(n) /\ Sound(n)
    BY <1>1, <1>2, RecoverSound DEF Before
  <1> QED BY <1>1, <1>3, BeforeDisk, SoundUnchanged

LEMMA PowerLossSound == ASSUME Before, PowerLoss PROVE Sound(op)'
  <1>1. op' = Idle /\ UNCHANGED <<fat, slots>> /\ ~HalfRemoved /\ ~TwiceNamed
    BY DEF PowerLoss, Strike, Finish, Before, PowerWindow
  <1>2. /\ op \in Call /\ StepOK(op) /\ CallSound(op) /\ TableSound
        /\ \A l \in LiveEntries : EntrySound(l, op)
    BY BeforeDisk
  <1>3. op.kind = "remove" => op.first = Free \/ (op.step = "free" /\ op.cur = op.first)
    BY <1>1, <1>2 DEF HalfRemoved, StepOK
  <1>4. \A l \in LiveEntries : op.kind = "remove" /\ l = op.at =>
          FirstOf(l) = Free \/ fat[FirstOf(l)] # Free
    BY <1>2, <1>3 DEF CallSound
  <1>5. Sound(Idle)
    BY <1>1, <1>2, <1>4, IdleSound DEF TwiceNamed
  <1>6. Idle \in Call /\ StepOK(Idle)
    BY IdleType DEF CallOK
  <1> QED BY <1>1, <1>5, <1>6, BeforeDisk, SoundUnchanged

LEMMA InitSound == ASSUME Init PROVE Sound(op)
  <1>1. \A c \in Clusters : fat[c] = IF c = Root THEN EndOfChain ELSE Free
    BY DEF Init
  <1>2. EndOfChain \notin Clusters /\ EndOfChain # Free /\ Free \notin Clusters
    BY DEF Clusters, EndOfChain, Free
  <1>3. TableSound
    BY <1>1, <1>2 DEF TableSound
  <1>4. LiveEntries = {}
    <2>1. \A l \in Location : EntryAt(l) = Mark("end")
      BY DEF Init, EntryAt, Location
    <2> QED BY <2>1 DEF LiveEntries, Live, Mark, fat32_build_entry
  <1>5. CallSound(Idle)
    BY DEF CallSound, Idle
  <1> QED BY <1>3, <1>4, <1>5 DEF Sound, Init

(* A damaged volume stays damaged: nothing repairs it.                     *)
LEMMA DamageStays == ASSUME TypeInv, [Next]_vars, damaged PROVE damaged'
  <1>1. CASE Request
    BY <1>1 DEF Request, fat32_create_file, fat32_create_directory, fat32_write, fat32_rename,
       fat32_remove, Ready
  <1>2. \A reached \in BOOLEAN : WriteFails(reached) => damaged'
    BY DEF WriteFails, Strike
  <1>3. CASE Step
    BY <1>2, <1>3 DEF Step, FindSlot, DiskFull, MarkCluster, ZeroCluster, LinkCluster, WriteDots,
       WriteEntry, UnlinkEntry, UndoEntry, CutChain, FreeCluster, WriteData, UpdateEntry,
       Proceed, Complete, Fail
  <1>4. CASE WriteLost \/ PowerLoss
    BY <1>2, <1>4 DEF WriteLost, PowerLoss, Strike
  <1>5. CASE UNCHANGED vars
    BY <1>5 DEF vars
  <1> QED BY <1>1, <1>3, <1>4, <1>5 DEF Next

LEMMA NextSound == ASSUME Before, [Next]_vars PROVE Sound(op)'
  <1>1. CASE Request
    BY <1>1, CreateFileSound, CreateDirectorySound, WriteSound, RenameSound, RemoveSound
       DEF Request
  <1>2. CASE Step
    BY <1>2, FindSlotSound, DiskFullSound, MarkClusterSound, ZeroClusterSound, LinkClusterSound,
       WriteDotsSound, WriteEntrySound, UnlinkEntrySound, UndoEntrySound, CutChainSound,
       FreeClusterSound, WriteDataSound, UpdateEntrySound DEF Step
  <1>3. CASE WriteLost \/ PowerLoss
    BY <1>3, WriteLostSound, PowerLossSound
  <1>4. CASE UNCHANGED vars
    <2>1. PICK n \in Call : n = op
      BY BeforeDisk
    <2> QED BY <1>4, <2>1, BeforeDisk, SoundUnchanged DEF vars, Before
  <1> QED BY <1>1, <1>2, <1>3, <1>4 DEF Next

(* At every moment of every call, with any disk faults outside the windows *)
(* of Fat32: every allocated cluster is known to at most one table entry,  *)
(* directory entry or call, and a call never holds a cluster the disk      *)
(* leads to by another way.                                                *)
THEOREM Fat32Ownership == Spec => []Ownership
  <1> DEFINE Inv == TypeInv /\ Ownership
  <1>1. Init => Inv
    BY InitType, InitSound DEF Ownership, TypeInv
  <1>2. Inv /\ [Next]_vars => Inv'
    <2> SUFFICES ASSUME Inv, [Next]_vars PROVE Inv'
      OBVIOUS
    <2>1. TypeInv'
      BY NextType
    <2>2. ~damaged' => ~damaged
      BY DamageStays DEF TypeInv, TypeOK
    <2>3. ~damaged' => Sound(op)'
      BY <2>1, <2>2, NextSound DEF Before, Ownership
    <2> QED BY <2>1, <2>3 DEF Ownership, TypeInv
  <1>3. Inv => Ownership
    OBVIOUS
  <1> QED BY <1>1, <1>2, <1>3, PTL DEF Spec

(* No cluster is reached by two ways, so no write to one file can reach    *)
(* the data of another, and no removal frees what is still in use.         *)
THEOREM Fat32NoCrossLink == Spec => []NoCrossLink
  <1>1. TypeOK /\ Ownership => NoCrossLink
    <2> SUFFICES ASSUME TypeOK, Sound(op) PROVE
          /\ \A c, d \in Clusters : c # d /\ fat[c] \in Clusters => fat[c] # fat[d]
          /\ \A l \in LiveEntries, m \in LiveEntries :
               l # m /\ FirstOf(l) # Free /\ ~RenamePair(l, m) => FirstOf(l) # FirstOf(m)
          /\ \A c \in Clusters, l \in LiveEntries : fat[c] \in Clusters => FirstOf(l) # fat[c]
          /\ \A c \in Clusters : fat[c] # Root
          /\ \A l \in LiveEntries : FirstOf(l) # Root
      BY DEF Ownership, NoCrossLink
    <2>1. TableSound /\ \A l \in LiveEntries : EntrySound(l, op)
      BY DEF Sound
    <2>2. ASSUME NEW l \in LiveEntries, NEW m \in LiveEntries, l # m, FirstOf(l) # Free,
                 ~RenamePair(l, m)
          PROVE  FirstOf(l) # FirstOf(m)
      <3>1. ~Twins(op, l, m)
        BY <2>2 DEF Twins, RenamePair, TwiceNamed
      <3> QED BY <2>1, <2>2, <3>1 DEF EntrySound
    <2>3. \A c \in Clusters : fat[c] # Root
      BY <2>1 DEF TableSound
    <2>4. ASSUME NEW c \in Clusters, NEW l \in LiveEntries, fat[c] \in Clusters
          PROVE  FirstOf(l) # fat[c]
      <3>1. fat[c] # Free
        BY <2>4 DEF Clusters, Free
      <3> QED BY <2>1, <3>1 DEF EntrySound, Pointed
    <2>5. Root # Free
      BY DEF Clusters, Free
    <2>6. \A l \in LiveEntries : FirstOf(l) # Root
      BY <2>1, <2>5 DEF EntrySound
    <2> QED BY <2>1, <2>2, <2>3, <2>4, <2>6 DEF TableSound
  <1> QED BY <1>1, Fat32TypeOK, Fat32Ownership, PTL

-----------------------------------------------------------------------------
HIDE CallerAssumption DEF Operations, Steps, Kinds, Appending

(* What Walk computes: its definition has exactly one solution, for there  *)
(* is no least length for which there is none.                             *)
LEMMA LeastNatural ==
  ASSUME NEW T \in SUBSET Nat, T # {}
  PROVE  \E x \in T : \A y \in T : x <= y
  <1> DEFINE R == {p \in Nat \X Nat : p[1] < p[2]}
  <1>1. OpToRel(<, Nat) = R
    BY DEF OpToRel
  <1>2. IsWellFoundedOn(R, Nat)
    BY <1>1, NatLessThanWellFounded
  <1>3. PICK x \in T : \A y \in T : ~(<<y, x>> \in R)
    <2> HIDE DEF R
    <2> QED BY <1>2, WFMin
  <1>4. ASSUME NEW y \in T PROVE x <= y
    <2>1. x \in Nat /\ y \in Nat
      OBVIOUS
    <2>2. <<y, x>> \in R <=> y < x
      BY <2>1
    <2> QED BY <1>3, <2>1, <2>2
  <1> QED BY <1>4

TableType == [Clusters -> Clusters \cup {Free, EndOfChain}]

(* The walks of the driver along a table, and the clusters they come to.   *)
Successor(t, c) == IF c \in Clusters THEN t[c] ELSE Free

WalkOf(t, first) ==
  LET next[k \in 0 .. N] ==
        IF k = 0 THEN first
        ELSE LET c == next[k - 1] IN IF c \in Clusters THEN t[c] ELSE Free
  IN next

ChainOf(t, first) == {c \in Clusters : \E k \in 0 .. N : WalkOf(t, first)[k] = c}

Acyclic(t) == \A S \in SUBSET Clusters : S # {} => \E c \in S : t[c] \notin S

(* No cluster has two that lead to it, and none leads to a free one.       *)
Disjoint(t) ==
  /\ \A c, d \in Clusters : c # d /\ t[c] \in Clusters => t[c] # t[d]
  /\ \A c \in Clusters : t[c] \in Clusters => t[t[c]] # Free

LEMMA ChainIs == \A first : ChainSet(first) = ChainOf(fat, first)
  BY DEF ChainSet, ChainOf, Walk, WalkOf

WalkTo(t, f, n, first) ==
  f = [k \in 0 .. n |-> IF k = 0 THEN first
                        ELSE LET c == f[k - 1] IN IF c \in Clusters THEN t[c] ELSE Free]

LEMMA WalkToIs ==
  ASSUME NEW t, NEW n \in Nat, NEW first, NEW f
  PROVE  WalkTo(t, f, n, first) <=>
           /\ f = [k \in 0 .. n |-> f[k]]
           /\ f[0] = first
           /\ \A k \in 1 .. n : f[k] = Successor(t, f[k - 1])
  <1>1. 0 \in 0 .. n /\ \A k \in 0 .. n : k # 0 <=> k \in 1 .. n
    OBVIOUS
  <1> QED BY <1>1 DEF WalkTo, Successor

LEMMA WalkExists ==
  ASSUME NEW t, NEW n \in Nat, NEW first
  PROVE  \E f : WalkTo(t, f, n, first)
  <1> DEFINE Bad == {m \in Nat : ~\E f : WalkTo(t, f, m, first)}
  <1>1. ASSUME Bad # {}
        PROVE  FALSE
    <2>1. PICK m \in Bad : \A k \in Bad : m <= k
      <3>1. Bad \in SUBSET Nat
        OBVIOUS
      <3> HIDE DEF Bad
      <3> QED BY <1>1, <3>1, LeastNatural
    <2>2. m \in Nat /\ ~\E f : WalkTo(t, f, m, first)
      OBVIOUS
    <2>3. CASE m = 0
      <3> DEFINE f == [k \in 0 .. 0 |-> first]
      <3>1. f = [k \in 0 .. 0 |-> f[k]] /\ f[0] = first
        OBVIOUS
      <3> HIDE DEF f
      <3>2. WalkTo(t, f, 0, first)
        <4>1. 0 \in Nat /\ \A k \in 1 .. 0 : f[k] = Successor(t, f[k - 1])
          OBVIOUS
        <4> QED BY ONLY <3>1, <4>1, WalkToIs
      <3> QED BY <2>2, <2>3, <3>2
    <2>4. CASE m # 0
      <3>1. m - 1 \in Nat /\ ~(m <= m - 1)
        BY <2>2, <2>4
      <3>2. PICK f : WalkTo(t, f, m - 1, first)
        BY <2>1, <3>1
      <3>3. f[0] = first /\ \A k \in 1 .. m - 1 : f[k] = Successor(t, f[k - 1])
        BY ONLY <3>1, <3>2, WalkToIs
      <3> DEFINE g == [k \in 0 .. m |-> IF k = m THEN Successor(t, f[m - 1]) ELSE f[k]]
      <3>4. g = [k \in 0 .. m |-> g[k]]
        OBVIOUS
      <3>5. g[0] = first /\ \A k \in 0 .. m - 1 : g[k] = f[k]
        BY <2>2, <2>4, <3>3
      <3>6. g[m] = Successor(t, f[m - 1])
        BY <2>2
      <3> HIDE DEF g
      <3>7. ASSUME NEW k \in 1 .. m
            PROVE  g[k] = Successor(t, g[k - 1])
        <4>1. k - 1 \in 0 .. m - 1
          BY <2>2
        <4>2. CASE k = m
          BY <3>5, <3>6, <4>1, <4>2
        <4>3. CASE k # m
          <5>1. k \in 1 .. m - 1 /\ k \in 0 .. m - 1
            BY <2>2, <4>3
          <5> QED BY <3>3, <3>5, <4>1, <5>1
        <4> QED BY <4>2, <4>3
      <3>8. WalkTo(t, g, m, first)
        BY <2>2, <3>4, <3>5, <3>7, WalkToIs
      <3> QED BY <2>2, <3>8
    <2> QED BY <2>3, <2>4
  <1> QED BY <1>1

LEMMA WalkIs ==
  ASSUME NEW t, NEW first
  PROVE  /\ WalkOf(t, first)[0] = first
         /\ \A k \in 1 .. N : WalkOf(t, first)[k] = Successor(t, WalkOf(t, first)[k - 1])
  <1> DEFINE f == CHOOSE g : WalkTo(t, g, N, first)
  <1>1. WalkTo(t, f, N, first)
    BY WalkExists
  <1>2. WalkOf(t, first) = f
    BY Zenon DEF WalkOf, WalkTo
  <1> HIDE DEF f
  <1>3. N \in Nat
    OBVIOUS
  <1> QED BY ONLY <1>1, <1>2, <1>3, WalkToIs

(* A chain of which no cluster is free reaches its end mark: the walk is   *)
(* longer than there are clusters, so if it never left them it would come  *)
(* back to one, and the clusters between would be a cycle.                 *)
LEMMA WalkLeaves ==
  ASSUME NEW t, Acyclic(t), NEW first
  PROVE  \E k \in 0 .. N : WalkOf(t, first)[k] \notin Clusters
  <1> SUFFICES ASSUME \A k \in 0 .. N : WalkOf(t, first)[k] \in Clusters PROVE FALSE
    OBVIOUS
  <1> DEFINE w == [k \in 0 .. N |-> WalkOf(t, first)[k]]
  <1>1. \A k \in 0 .. N : w[k] = WalkOf(t, first)[k] /\ w[k] \in Clusters
    OBVIOUS
  <1>2. \A k \in 1 .. N : w[k] = t[w[k - 1]]
    <2>1. \A k \in 1 .. N : k - 1 \in 0 .. N /\ k \in 0 .. N
      OBVIOUS
    <2> HIDE DEF w
    <2> QED BY <1>1, <2>1, WalkIs DEF Successor
  <1>3. w \in [0 .. N -> Clusters]
    OBVIOUS
  <1>4. IsFiniteSet(0 .. N) /\ IsFiniteSet(Clusters) /\ Cardinality(Clusters) < Cardinality(0 .. N)
    <2>1. IsFiniteSet(0 .. N) /\ Cardinality(0 .. N) = N + 1
      BY FS_Interval
    <2>2. IsFiniteSet(Clusters) /\ Cardinality(Clusters) = N
      BY FS_Interval DEF Clusters
    <2> QED BY <2>1, <2>2
  <1> HIDE DEF w
  <1>5. PICK i \in 0 .. N, j \in 0 .. N : i < j /\ w[i] = w[j]
    <2>1. PICK x \in 0 .. N, y \in 0 .. N : x # y /\ w[x] = w[y]
      BY <1>3, <1>4, FS_PigeonHole
    <2>2. x < y \/ y < x
      BY <2>1
    <2> QED BY <2>1, <2>2
  <1> DEFINE S == {w[m] : m \in i .. j - 1}
  <1>6. S \in SUBSET Clusters /\ S # {}
    <2>1. i \in i .. j - 1 /\ \A m \in i .. j - 1 : m \in 0 .. N
      BY <1>5
    <2> QED BY <1>1, <2>1
  <1>7. ASSUME NEW m \in i .. j - 1
        PROVE  t[w[m]] \in S
    <2>1. m + 1 \in 1 .. N /\ (m + 1) - 1 = m
      BY <1>5
    <2>2. t[w[m]] = w[m + 1]
      BY <1>2, <2>1
    <2>3. CASE m + 1 = j
      <3>1. i \in i .. j - 1
        BY <1>5
      <3> QED BY <1>5, <2>2, <2>3, <3>1
    <2>4. CASE m + 1 # j
      <3>1. m + 1 \in i .. j - 1
        BY <2>4
      <3> QED BY <2>2, <3>1
    <2> QED BY <2>3, <2>4
  <1> QED BY <1>6, <1>7 DEF Acyclic

LEMMA ChainReachesEnd ==
  ASSUME NEW t \in TableType, Acyclic(t), Disjoint(t), NEW first \in Clusters, t[first] # Free
  PROVE  \E c \in ChainOf(t, first) : t[c] = EndOfChain
  <1> DEFINE Out == {k \in 0 .. N : WalkOf(t, first)[k] \notin Clusters}
  <1>1. PICK k \in Out : \A m \in Out : k <= m
    <2>1. Out \in SUBSET Nat /\ Out # {}
      BY WalkLeaves
    <2> HIDE DEF Out
    <2> QED BY <2>1, LeastNatural
  <1>2. k \in 0 .. N /\ WalkOf(t, first)[k] \notin Clusters /\ k # 0
    BY <1>1, WalkIs
  <1> DEFINE c == WalkOf(t, first)[k - 1]
  <1>3. k \in 1 .. N /\ k - 1 \in 0 .. N /\ ~(k <= k - 1)
    BY <1>2
  <1>4. c \in Clusters
    BY <1>1, <1>3
  <1>5. t[c] = WalkOf(t, first)[k]
    BY <1>3, <1>4, WalkIs DEF Successor
  <1>6. t[c] # Free
    <2>1. CASE k = 1
      <3>1. c = first
        BY <2>1, WalkIs
      <3> QED BY <3>1
    <2>2. CASE k # 1
      <3>1. k - 1 \in 1 .. N /\ (k - 1) - 1 \in 0 .. N /\ ~(k <= (k - 1) - 1)
        BY <1>3, <2>2
      <3>2. WalkOf(t, first)[(k - 1) - 1] \in Clusters
        BY <1>1, <3>1
      <3>3. c = t[WalkOf(t, first)[(k - 1) - 1]]
        BY <3>1, <3>2, WalkIs DEF Successor
      <3> HIDE DEF c
      <3> QED BY <1>4, <3>2, <3>3 DEF Disjoint
    <2> QED BY <2>1, <2>2
  <1>7. c \in ChainOf(t, first)
    BY <1>3, <1>4 DEF ChainOf
  <1>8. t[c] = EndOfChain
    <2> HIDE DEF c
    <2> QED BY <1>2, <1>4, <1>5, <1>6 DEF TableType
  <1> QED BY <1>7, <1>8
(* The chain from a cluster is the least set of clusters that holds it and *)
(* the successors of its members: the proofs below walk no chain any more. *)
Closed(S, t) == \A c \in S : t[c] \in Clusters => t[c] \in S

LEMMA FreeOutside == Free \notin Clusters /\ EndOfChain \notin Clusters /\ Free # EndOfChain
  BY DEF Free, EndOfChain, Clusters

LEMMA WalkStays ==
  ASSUME NEW t, NEW first, NEW j \in 0 .. N, WalkOf(t, first)[j] \in Clusters, NEW i \in 0 .. j
  PROVE  WalkOf(t, first)[i] \in Clusters
  <1> SUFFICES ASSUME WalkOf(t, first)[i] \notin Clusters PROVE FALSE
    OBVIOUS
  <1> DEFINE Back == {k \in i .. N : WalkOf(t, first)[k] \in Clusters}
  <1>1. PICK k \in Back : \A m \in Back : k <= m
    <2>1. Back \in SUBSET Nat /\ j \in Back
      OBVIOUS
    <2> HIDE DEF Back
    <2> QED BY <2>1, LeastNatural
  <1>2. k \in i .. N /\ WalkOf(t, first)[k] \in Clusters /\ k # i
    BY <1>1
  <1>3. k \in 1 .. N /\ k - 1 \in i .. N /\ ~(k <= k - 1)
    BY <1>2
  <1>4. WalkOf(t, first)[k - 1] \notin Clusters
    BY <1>1, <1>3
  <1>5. WalkOf(t, first)[k] = Free
    BY <1>3, <1>4, WalkIs DEF Successor
  <1> QED BY <1>2, <1>5, FreeOutside

LEMMA ChainLeast ==
  ASSUME NEW t, NEW first, NEW S \in SUBSET Clusters, Closed(S, t), first \in S
  PROVE  ChainOf(t, first) \subseteq S
  <1> SUFFICES ASSUME NEW j \in 0 .. N, WalkOf(t, first)[j] \in Clusters \ S PROVE FALSE
    BY DEF ChainOf
  <1> DEFINE Out == {k \in 0 .. N : WalkOf(t, first)[k] \in Clusters \ S}
  <1>1. PICK k \in Out : \A m \in Out : k <= m
    <2>1. Out \in SUBSET Nat /\ j \in Out
      OBVIOUS
    <2> HIDE DEF Out
    <2> QED BY <2>1, LeastNatural
  <1>2. k \in 0 .. N /\ WalkOf(t, first)[k] \in Clusters \ S /\ k # 0
    BY <1>1, WalkIs
  <1>3. k \in 1 .. N /\ k - 1 \in 0 .. N /\ k - 1 \in 0 .. k /\ ~(k <= k - 1)
    BY <1>2
  <1>4. WalkOf(t, first)[k - 1] \in Clusters
    BY <1>2, <1>3, WalkStays
  <1>5. WalkOf(t, first)[k - 1] \in S
    BY <1>1, <1>3, <1>4
  <1>6. WalkOf(t, first)[k] = t[WalkOf(t, first)[k - 1]]
    BY <1>3, <1>4, WalkIs DEF Successor
  <1> QED BY <1>2, <1>5, <1>6 DEF Closed

LEMMA ChainClosed ==
  ASSUME NEW t, Acyclic(t), NEW first \in Clusters
  PROVE  /\ first \in ChainOf(t, first) /\ ChainOf(t, first) \in SUBSET Clusters
         /\ Closed(ChainOf(t, first), t)
  <1>1. first \in ChainOf(t, first)
    <2>1. 0 \in 0 .. N /\ WalkOf(t, first)[0] = first
      BY WalkIs
    <2> QED BY <2>1 DEF ChainOf
  <1>2. WalkOf(t, first)[N] \notin Clusters
    <2>1. PICK k \in 0 .. N : WalkOf(t, first)[k] \notin Clusters
      BY WalkLeaves
    <2>2. N \in 0 .. N
      OBVIOUS
    <2> QED BY <2>1, <2>2, WalkStays
  <1>3. ASSUME NEW c \in ChainOf(t, first), t[c] \in Clusters
        PROVE  t[c] \in ChainOf(t, first)
    <2>1. PICK k \in 0 .. N : WalkOf(t, first)[k] = c /\ c \in Clusters
      BY DEF ChainOf
    <2>2. k # N
      BY <1>2, <2>1
    <2>3. k + 1 \in 1 .. N /\ k + 1 \in 0 .. N /\ (k + 1) - 1 = k
      BY <2>1, <2>2
    <2>4. WalkOf(t, first)[k + 1] = t[c]
      BY <2>1, <2>3, WalkIs DEF Successor
    <2> QED BY <1>3, <2>3, <2>4 DEF ChainOf
  <1> QED BY <1>1, <1>3 DEF Closed, ChainOf

LEMMA ChainNone ==
  ASSUME NEW t, NEW first, first \notin Clusters
  PROVE  ChainOf(t, first) = {}
  <1>1. ASSUME NEW k \in 0 .. N, WalkOf(t, first)[k] \in Clusters
        PROVE  FALSE
    <2>1. 0 \in 0 .. k
      OBVIOUS
    <2> QED BY <1>1, <2>1, WalkStays, WalkIs
  <1> QED BY <1>1 DEF ChainOf

LEMMA ChainWithin == \A t, first : ChainOf(t, first) \in SUBSET Clusters
  BY DEF ChainOf

(* What is not first in a chain follows another of it.                     *)
LEMMA ChainBefore ==
  ASSUME NEW t, Acyclic(t), NEW first, NEW c \in ChainOf(t, first), c # first
  PROVE  \E b \in ChainOf(t, first) : t[b] = c
  <1>1. first \in Clusters
    BY ChainNone
  <1> DEFINE S == {first} \cup {d \in ChainOf(t, first) : \E b \in ChainOf(t, first) : t[b] = d}
  <1>2. S \in SUBSET Clusters /\ first \in S /\ Closed(S, t)
    BY <1>1, ChainClosed DEF Closed
  <1>3. c \in S
    BY <1>2, ChainLeast
  <1> QED BY <1>3

LEMMA ChainAllocated ==
  ASSUME NEW t, Disjoint(t), NEW first, t[first] # Free, NEW c \in ChainOf(t, first)
  PROVE  t[c] # Free
  <1> DEFINE S == {d \in Clusters : t[d] # Free}
  <1>1. first \in Clusters
    BY ChainNone
  <1>2. S \in SUBSET Clusters /\ first \in S /\ Closed(S, t)
    BY <1>1 DEF Closed, Disjoint
  <1> QED BY <1>2, ChainLeast

(* Chains that begin apart, at clusters nothing leads to, stay apart.      *)
LEMMA ChainsApart ==
  ASSUME NEW t, Acyclic(t), Disjoint(t), NEW f, NEW g, f # g,
         \A c \in Clusters : t[c] # f /\ t[c] # g
  PROVE  ChainOf(t, f) \cap ChainOf(t, g) = {}
  <1> SUFFICES ASSUME f \in Clusters, g \in Clusters
               PROVE  ChainOf(t, f) \subseteq Clusters \ ChainOf(t, g)
    BY ChainNone
  <1> DEFINE S == Clusters \ ChainOf(t, g)
  <1>1. f \in S
    <2> SUFFICES ASSUME f \in ChainOf(t, g) PROVE FALSE
      OBVIOUS
    <2>1. PICK b \in ChainOf(t, g) : t[b] = f
      BY ChainBefore
    <2> QED BY <2>1, ChainWithin
  <1>2. ASSUME NEW c \in S, t[c] \in ChainOf(t, g)
        PROVE  FALSE
    <2>1. PICK b \in ChainOf(t, g) : t[b] = t[c]
      BY <1>2, ChainBefore
    <2>2. b \in Clusters /\ b # c /\ t[c] \in Clusters
      BY <1>2, ChainWithin
    <2> QED BY <2>1, <2>2 DEF Disjoint
  <1>3. Closed(S, t)
    BY <1>2 DEF Closed
  <1> QED BY <1>1, <1>3, ChainLeast

(* Changes of the table.                                                   *)
LEMMA ChainSame ==
  ASSUME NEW t, NEW u, NEW first, Acyclic(t), Acyclic(u),
         \A c \in ChainOf(t, first) : u[c] = t[c] \/ (u[c] \notin Clusters /\ t[c] \notin Clusters)
  PROVE  ChainOf(u, first) = ChainOf(t, first)
  <1> SUFFICES ASSUME first \in Clusters PROVE ChainOf(u, first) = ChainOf(t, first)
    BY ChainNone
  <1>1. ChainOf(u, first) \subseteq ChainOf(t, first)
    <2>1. Closed(ChainOf(t, first), u)
      BY ChainClosed DEF Closed
    <2> QED BY <2>1, ChainClosed, ChainLeast
  <1>2. ChainOf(t, first) \subseteq ChainOf(u, first)
    <2> DEFINE S == ChainOf(t, first) \cap ChainOf(u, first)
    <2>1. S \in SUBSET Clusters /\ first \in S /\ Closed(S, t)
      BY ChainClosed DEF Closed
    <2> QED BY <2>1, ChainLeast
  <1> QED BY <1>1, <1>2

LEMMA ChainLess ==
  ASSUME NEW t, NEW u, NEW first, Acyclic(t), \A c \in Clusters : u[c] = t[c] \/ u[c] \notin Clusters
  PROVE  ChainOf(u, first) \subseteq ChainOf(t, first)
  <1>1. CASE first \in Clusters
    <2>1. Closed(ChainOf(t, first), u)
      BY <1>1, ChainClosed DEF Closed
    <2> QED BY <1>1, <2>1, ChainClosed, ChainLeast
  <1>2. CASE first \notin Clusters
    BY <1>2, ChainNone
  <1> QED BY <1>1, <1>2

LEMMA ChainLinked ==
  ASSUME NEW t, NEW u, NEW last \in Clusters, NEW new \in Clusters, NEW first,
         t[last] = EndOfChain, t[new] = EndOfChain, new # last,
         \A c \in Clusters : u[c] = IF c = last THEN new ELSE t[c],
         Acyclic(t), Acyclic(u)
  PROVE  ChainOf(u, first) =
           ChainOf(t, first) \cup (IF last \in ChainOf(t, first) THEN {new} ELSE {})
  <1>1. \A c \in Clusters : u[c] = IF c = last THEN new ELSE t[c]
    OBVIOUS
  <1>2. Acyclic(u)
    OBVIOUS
  <1>3. CASE first \notin Clusters
    BY <1>3, ChainNone
  <1>4. CASE first \in Clusters /\ last \notin ChainOf(t, first)
    <2>1. ChainOf(u, first) = ChainOf(t, first)
      BY <1>1, <1>2, <1>4, ChainWithin, ChainSame
    <2> QED BY <1>4, <2>1
  <1>5. CASE first \in Clusters /\ last \in ChainOf(t, first)
    <2> DEFINE S == ChainOf(t, first) \cup {new}
    <2>1. Closed(S, u) /\ S \in SUBSET Clusters /\ first \in S
      <3>1. u[new] = EndOfChain
        BY <1>1
      <3> QED BY <1>1, <1>5, <3>1, ChainClosed, FreeOutside DEF Closed
    <2>2. ChainOf(u, first) \subseteq S
      BY <2>1, ChainLeast
    <2> DEFINE T == ChainOf(t, first) \cap ChainOf(u, first)
    <2>3. T \in SUBSET Clusters /\ first \in T /\ Closed(T, t)
      BY <1>1, <1>2, <1>5, ChainClosed, FreeOutside DEF Closed
    <2>4. ChainOf(t, first) \subseteq ChainOf(u, first)
      BY <2>3, ChainLeast
    <2>5. new \in ChainOf(u, first)
      <3>1. last \in ChainOf(u, first) /\ u[last] = new
        BY <1>1, <1>5, <2>4
      <3> QED BY <1>2, <1>5, <3>1, ChainClosed DEF Closed
    <2>6. ChainOf(u, first) = ChainOf(t, first) \cup {new}
      BY <2>2, <2>4, <2>5
    <2> QED BY <1>5, <2>6
  <1> QED BY <1>3, <1>4, <1>5

-----------------------------------------------------------------------------
(* What lies where, before and after a step.                               *)

(* What stands in the slots is the same when the slots are.                *)
LEMMA SlotsSame ==
  ASSUME UNCHANGED slots
  PROVE  /\ LiveEntries' = LiveEntries /\ DirectoryHeads' = DirectoryHeads
         /\ \A kind : LiveOf(kind)' = LiveOf(kind)
         /\ \A l : EntryAt(l)' = EntryAt(l) /\ FirstOf(l)' = FirstOf(l)
         /\ \A c, s : KindIn(c, s)' = KindIn(c, s)
         /\ \A c : (Plain(c)' <=> Plain(c)) /\ (Barren(c)' <=> Barren(c)) /\ (Blank(c)' <=> Blank(c))
         /\ \A c : Dot(c)' <=> Dot(c)
         /\ \A c, d : DotDot(c, d)' <=> DotDot(c, d)
  BY DEF LiveEntries, DirectoryHeads, LiveOf, EntryAt, FirstOf, KindIn, Plain, Barren, Blank,
         Dot, DotDot

LEMMA ChainNext ==
  /\ \A f : ChainSet(f)' = ChainOf(fat', f)
  /\ \A l, d : Within(l, d)' <=> l.cluster \in ChainOf(fat', d)
  /\ \A l : ChainSet(FirstOf(l))' = ChainOf(fat', FirstOf(l)')
  <1>1. \A f : ChainSet(f)' = ChainOf(fat', f)
    BY DEF ChainSet, ChainOf, Walk, WalkOf
  <1>2. \A l, d : Within(l, d)' <=> l.cluster \in ChainOf(fat', d)
    BY <1>1 DEF Within
  <1>3. \A l : ChainSet(FirstOf(l))' = ChainOf(fat', FirstOf(l)')
    BY DEF ChainSet, ChainOf, Walk, WalkOf
  <1> QED BY <1>1, <1>2, <1>3

(* The chains are cut, or nothing of them changes.                         *)
LEMMA VolumeShrunk ==
  ASSUME UNCHANGED slots,
         \A c \in Clusters : fat'[c] = fat[c] \/ fat'[c] \notin Clusters,
         \A f : ChainOf(fat', f) \subseteq ChainOf(fat, f),
         \A l \in LiveEntries, d \in DirectoryHeads :
           l.cluster \in ChainOf(fat, d) => l.cluster \in ChainOf(fat', d),
         NEW o, NEW n, Volume(o), \A l : Moving(o, l) => Moving(n, l)
  PROVE  Volume(n)'
  <1>1. \A l, d : Within(l, d) <=> l.cluster \in ChainOf(fat, d)
    BY ChainIs DEF Within
  <1>2. EntriesListed'
    BY <1>1, ChainNext, SlotsSame DEF Volume, EntriesListed
  <1>3. FilesPlain'
    BY ChainIs, ChainNext, SlotsSame DEF Volume, FilesPlain
  <1>4. EndsTidy'
    <2>1. \A c \in Clusters : EndsOnce(c) => EndsOnce(c)'
      BY SlotsSame DEF EndsOnce
    <2> QED BY <2>1, ChainIs, ChainNext, ChainWithin, SlotsSame DEF Volume, EndsTidy
  <1>5. NamesApart'
    BY <1>1, ChainNext, SlotsSame DEF Volume, NamesApart
  <1>6. DotsRight(n)'
    BY <1>1, ChainNext, SlotsSame DEF Volume, DotsRight, Moving
  <1> QED BY <1>2, <1>3, <1>4, <1>5, <1>6 DEF Volume

LEMMA TableFacts ==
  ASSUME Disk, TableSound, NoCycle
  PROVE  fat \in TableType /\ Acyclic(fat) /\ Disjoint(fat)
  BY DEF Disk, TableType, NoCycle, Acyclic, TableSound, Disjoint

LEMMA TableFactsNext ==
  ASSUME Disk', TableSound', NoCycle'
  PROVE  fat' \in TableType /\ Acyclic(fat') /\ Disjoint(fat')
  BY DEF Disk, TableType, NoCycle, Acyclic, TableSound, Disjoint

(* What the chains of the table are like.                                  *)
LEMMA Chains ==
  ASSUME Disk, TableSound, NoCycle
  PROVE  /\ \A f : ChainSet(f) \subseteq Clusters
         /\ \A f : f \notin Clusters => ChainSet(f) = {}
         /\ \A f \in Clusters : f \in ChainSet(f)
         /\ \A f : \A c \in ChainSet(f) : fat[c] \in Clusters => fat[c] \in ChainSet(f)
         /\ \A f : \A c \in ChainSet(f) : c # f => Pointed(c)
         /\ \A f, g : f # g /\ ~Pointed(f) /\ ~Pointed(g) => ChainSet(f) \cap ChainSet(g) = {}
         /\ \A f \in Clusters : fat[f] = EndOfChain => ChainSet(f) = {f}
  <1>1. fat \in TableType /\ Acyclic(fat) /\ Disjoint(fat)
    BY TableFacts
  <1>2. \A f : ChainOf(fat, f) \subseteq Clusters
    BY ChainWithin
  <1>3. \A f : f \notin Clusters => ChainOf(fat, f) = {}
    BY ChainNone
  <1>4. \A f \in Clusters : f \in ChainOf(fat, f)
    BY <1>1, ChainClosed
  <1>5. \A f : \A c \in ChainOf(fat, f) : fat[c] \in Clusters => fat[c] \in ChainOf(fat, f)
    BY <1>1, <1>3, ChainClosed DEF Closed
  <1>6. \A f : \A c \in ChainOf(fat, f) : c # f => Pointed(c)
    BY <1>1, <1>2, ChainBefore DEF Pointed
  <1>7. \A f, g : f # g /\ ~Pointed(f) /\ ~Pointed(g) => ChainOf(fat, f) \cap ChainOf(fat, g) = {}
    BY <1>1, ChainsApart DEF Pointed
  <1>8. ASSUME NEW f \in Clusters, fat[f] = EndOfChain
        PROVE  ChainOf(fat, f) = {f}
    <2>1. Closed({f}, fat)
      BY <1>8, FreeOutside DEF Closed
    <2> QED BY <1>4, <2>1, ChainLeast
  <1> QED BY ONLY <1>2, <1>3, <1>4, <1>5, <1>6, <1>7, <1>8, ChainIs

(* The chains of two directories, or of a directory and a file, are apart. *)
Separate ==
  /\ \A d \in DirectoryHeads : d \in Clusters /\ ~Pointed(d) /\ d \in ChainSet(d)
  /\ \A d \in DirectoryHeads : \A c \in ChainSet(d) : fat[c] \in Clusters => fat[c] \in ChainSet(d)
  /\ \A d, e \in DirectoryHeads : d # e => ChainSet(d) \cap ChainSet(e) = {}
  /\ \A l \in LiveOf("file"), d \in DirectoryHeads : ChainSet(d) \cap ChainSet(FirstOf(l)) = {}

LEMMA IsSeparate ==
  ASSUME Disk, Sound(op), NoCycle, DotsRight(op), RenameRight(op)
  PROVE  Separate
  <1>1. TableSound /\ \A l \in LiveEntries : EntrySound(l, op)
    BY DEF Sound
  <1>2. \A l \in LiveEntries : l \in Location /\ FirstOf(l) \in Clusters \cup {Free}
    BY FirstType DEF LiveEntries
  <1>3. \A kind : \A l \in LiveOf(kind) : l \in LiveEntries /\ EntryAt(l).kind = kind
    BY DEF LiveOf
  <1>4. \A l \in LiveOf("dir") : FirstOf(l) # Free
    BY DEF DotsRight
  <1>5. ASSUME NEW d \in DirectoryHeads
        PROVE  d \in Clusters /\ ~Pointed(d)
    <2>1. CASE d = Root
      BY <1>1, <2>1 DEF TableSound, Pointed
    <2>2. CASE d # Root
      BY <1>1, <1>2, <1>3, <1>4, <2>2 DEF DirectoryHeads, EntrySound
    <2> QED BY <2>1, <2>2
  <1>6. ASSUME NEW l \in LiveOf("file"), NEW d \in DirectoryHeads, FirstOf(l) # Free
        PROVE  FirstOf(l) # d /\ ~Pointed(FirstOf(l))
    <2>1. ~Pointed(FirstOf(l)) /\ FirstOf(l) # Root
      BY <1>1, <1>3, <1>6 DEF EntrySound
    <2>2. ASSUME NEW m \in LiveOf("dir"), FirstOf(l) = FirstOf(m)
          PROVE  FALSE
      <3>1. m # l /\ Twins(op, l, m)
        BY <1>1, <1>3, <1>6, <2>2 DEF EntrySound
      <3>2. EntryAt(op.slot).kind = EntryAt(op.at).kind
        <4>1. /\ op.entry = [EntryAt(op.at) EXCEPT !.name = op.entry.name]
              /\ EntryAt(op.slot) = op.entry /\ EntryAt(op.at) \in Entry
          BY <1>2, <3>1, FirstType DEF Twins, RenameRight
        <4> QED BY <4>1 DEF Entry
      <3> QED BY <1>3, <3>1, <3>2 DEF Twins
    <2> QED BY <2>1, <2>2 DEF DirectoryHeads
  <1>7. Free \notin Clusters
    BY FreeOutside
  <1>8. \A d \in DirectoryHeads : d \in ChainSet(d)
    BY <1>1, <1>5, Chains
  <1>9. \A d, e \in DirectoryHeads : d # e => ChainSet(d) \cap ChainSet(e) = {}
    BY <1>1, <1>5, Chains
  <1>10. ASSUME NEW l \in LiveOf("file"), NEW d \in DirectoryHeads
         PROVE  ChainSet(d) \cap ChainSet(FirstOf(l)) = {}
    <2>1. CASE FirstOf(l) = Free
      BY <1>1, <1>7, <2>1, Chains
    <2>2. CASE FirstOf(l) # Free
      BY <1>1, <1>5, <1>6, <2>2, Chains
    <2> QED BY <2>1, <2>2
  <1>11. \A d : \A c \in ChainSet(d) : fat[c] \in Clusters => fat[c] \in ChainSet(d)
    BY <1>1, Chains
  <1> QED BY <1>5, <1>8, <1>9, <1>10, <1>11 DEF Separate

-----------------------------------------------------------------------------
(* What each kind of change does to the volume.                            *)

LEMMA VolumeSwitch ==
  ASSUME NEW o, NEW n, Volume(o), \A l \in LiveEntries : Moving(o, l) => Moving(n, l)
  PROVE  Volume(n)
  BY DEF Volume, DotsRight, LiveOf

LEMMA ChainsKept ==
  ASSUME UNCHANGED fat
  PROVE  /\ \A f : ChainSet(f)' = ChainSet(f)
         /\ \A l, d : Within(l, d)' <=> Within(l, d)
         /\ \A l : FirstOf(l)' = FirstOf(l) => ChainSet(FirstOf(l))' = ChainSet(FirstOf(l))
  BY ChainNext, ChainIs DEF Within

(* A cluster without entries, of no directory, is filled with what is no   *)
(* entry either.                                                           *)
LEMMA VolumeRow ==
  ASSUME Disk, Disk', Separate, UNCHANGED fat, NEW c \in Clusters, Barren(c), Barren(c)',
         \A b \in Clusters \ {c} : slots'[b] = slots[b],
         \A d \in DirectoryHeads : c \notin ChainSet(d),
         \/ Plain(c)'
         \/ \A l \in LiveOf("file") : c \notin ChainSet(FirstOf(l)),
         NEW n, Volume(n)
  PROVE  /\ Volume(n)' /\ LiveEntries' = LiveEntries /\ DirectoryHeads' = DirectoryHeads
         /\ \A l \in LiveEntries : l.cluster # c /\ EntryAt(l)' = EntryAt(l)
         /\ \A kind : LiveOf(kind)' = LiveOf(kind)
  <1>1. \A l \in Location : l.cluster \in Clusters /\ l.slot \in Slot
    BY DEF Location
  <1>2. \A l \in Location : l.cluster # c => EntryAt(l)' = EntryAt(l)
    BY <1>1 DEF EntryAt
  <1>3. \A l \in LiveEntries : l \in Location /\ l.cluster # c
    BY <1>1 DEF LiveEntries, Barren, KindIn, EntryAt
  <1>4. \A l \in LiveEntries' : l \in Location /\ l.cluster # c
    BY <1>1 DEF LiveEntries, Barren, KindIn, EntryAt
  <1>5. LiveEntries' = LiveEntries
    BY <1>2, <1>3, <1>4 DEF LiveEntries
  <1>6. \A l \in LiveEntries : EntryAt(l)' = EntryAt(l) /\ FirstOf(l)' = FirstOf(l)
    BY <1>2, <1>3 DEF FirstOf
  <1>7. \A kind : LiveOf(kind)' = LiveOf(kind)
    BY <1>5, <1>6 DEF LiveOf
  <1>8. DirectoryHeads' = DirectoryHeads
    <2>1. \A l \in LiveOf("dir") : FirstOf(l)' = FirstOf(l)
      BY <1>6 DEF LiveOf
    <2> QED BY <1>7, <2>1 DEF DirectoryHeads
  <1>9. \A b \in Clusters \ {c} : \A s : KindIn(b, s)' = KindIn(b, s)
    BY DEF KindIn
  <1>10. \A d \in DirectoryHeads : d # c /\ ChainSet(d) \subseteq Clusters \ {c}
    <2>1. \A d : ChainSet(d) \subseteq Clusters
      BY DEF ChainSet
    <2> QED BY <2>1 DEF Separate
  <1>11. EntriesListed'
    BY <1>5, <1>8, ChainsKept DEF Volume, EntriesListed
  <1>12. FilesPlain'
    <2> SUFFICES ASSUME NEW l \in LiveOf("file"), NEW b \in ChainSet(FirstOf(l))
                 PROVE  Plain(b)'
      <3>1. \A l \in LiveOf("file") : FirstOf(l)' = FirstOf(l)
        BY <1>6 DEF LiveOf
      <3> QED BY <1>7, <3>1, ChainsKept DEF FilesPlain
    <2>1. Plain(b) /\ b \in Clusters
      BY DEF Volume, FilesPlain, ChainSet
    <2>2. CASE b # c
      BY <1>9, <2>1, <2>2 DEF Plain
    <2> QED BY <2>2
  <1>13. EndsTidy'
    <2> SUFFICES ASSUME NEW d \in DirectoryHeads, NEW b \in ChainSet(d)
                 PROVE  EndsOnce(b)'
      BY <1>8, ChainsKept DEF EndsTidy
    <2>1. EndsOnce(b) /\ b \in Clusters \ {c}
      BY <1>10 DEF Volume, EndsTidy
    <2>2. fat[b] \in Clusters => fat[b] # c
      BY DEF Separate
    <2> QED BY <1>9, <2>1, <2>2 DEF EndsOnce
  <1>14. NamesApart'
    BY <1>5, <1>6, <1>8, ChainsKept DEF Volume, NamesApart
  <1>15. DotsRight(n)'
    <2> SUFFICES ASSUME NEW l \in LiveOf("dir")
                 PROVE  /\ FirstOf(l)' # Free
                        /\ Dot(FirstOf(l))'
                        /\ ~Moving(n, l) => \A d \in DirectoryHeads : Within(l, d) => DotDot(FirstOf(l), d)'
      BY <1>7, <1>8, ChainsKept DEF DotsRight, Moving
    <2>1. FirstOf(l)' = FirstOf(l) /\ FirstOf(l) \in DirectoryHeads
      BY <1>6 DEF LiveOf, DirectoryHeads
    <2>2. slots'[FirstOf(l)] = slots[FirstOf(l)]
      BY <1>10, <2>1 DEF Separate
    <2> QED BY <2>1, <2>2 DEF Volume, DotsRight, Dot, DotDot
  <1> QED BY <1>3, <1>5, <1>6, <1>7, <1>8, <1>11, <1>12, <1>13, <1>14, <1>15 DEF Volume

LEMMA SlotPut ==
  ASSUME Disk, NEW loc \in Location, NEW e, PutEntry(loc, e)
  PROVE  /\ loc.cluster \in Clusters /\ loc.slot \in Slot
         /\ \A l \in Location : EntryAt(l)' = IF l = loc THEN e ELSE EntryAt(l)
         /\ \A l \in Location : FirstOf(l)' = IF l = loc THEN e.first ELSE FirstOf(l)
         /\ \A c \in Clusters, s \in Slot :
              slots'[c][s] = IF c = loc.cluster /\ s = loc.slot THEN e ELSE slots[c][s]
         /\ \A c \in Clusters, s \in Slot :
              KindIn(c, s)' = IF c = loc.cluster /\ s = loc.slot THEN e.kind ELSE KindIn(c, s)
         /\ KindIn(loc.cluster, loc.slot) = EntryAt(loc).kind
         /\ \A l \in LiveEntries' : l \in Location /\ (l = loc \/ l \in LiveEntries)
         /\ \A l \in LiveEntries : l \in Location /\ (l = loc \/ l \in LiveEntries')
         /\ loc \in LiveEntries' <=> e.kind \in Live
         /\ loc \in LiveEntries <=> EntryAt(loc).kind \in Live
  <1>1. loc.cluster \in Clusters /\ loc.slot \in Slot
    BY DEF Location
  <1>2. \A l \in Location : EntryAt(l)' = IF l = loc THEN e ELSE EntryAt(l)
    BY PutEffect
  <1>3. \A l \in Location : FirstOf(l)' = IF l = loc THEN e.first ELSE FirstOf(l)
    BY <1>2 DEF FirstOf
  <1>4. ASSUME NEW c \in Clusters, NEW s \in Slot
        PROVE  slots'[c][s] = IF c = loc.cluster /\ s = loc.slot THEN e ELSE slots[c][s]
    <2> DEFINE l == [cluster |-> c, slot |-> s]
    <2>1. l \in Location /\ (l = loc <=> c = loc.cluster /\ s = loc.slot)
      BY DEF Location
    <2>2. l.cluster = c /\ l.slot = s
      OBVIOUS
    <2> HIDE DEF l
    <2>3. EntryAt(l)' = slots'[c][s] /\ EntryAt(l) = slots[c][s]
      BY <2>2 DEF EntryAt
    <2> QED BY <1>2, <2>1, <2>3
  <1>5. \A l \in LiveEntries' : l \in Location /\ (l = loc \/ l \in LiveEntries)
    BY <1>2 DEF LiveEntries
  <1>6. \A l \in LiveEntries : l \in Location /\ (l = loc \/ l \in LiveEntries')
    BY <1>2 DEF LiveEntries
  <1>7. loc \in LiveEntries' <=> e.kind \in Live
    BY <1>2 DEF LiveEntries
  <1>8. loc \in LiveEntries <=> EntryAt(loc).kind \in Live
    BY DEF LiveEntries
  <1>9. KindIn(loc.cluster, loc.slot) = EntryAt(loc).kind
    BY DEF KindIn, EntryAt
  <1>10. \A c \in Clusters, s \in Slot :
              KindIn(c, s)' = IF c = loc.cluster /\ s = loc.slot THEN e.kind ELSE KindIn(c, s)
    BY <1>4 DEF KindIn
  <1> QED BY <1>1, <1>2, <1>3, <1>4, <1>5, <1>6, <1>7, <1>8, <1>9, <1>10

LEMMA SlotNumbers == 0 \in Slot /\ 1 \in Slot /\ Slots - 1 \in Slot
  BY DEF Slot

(* Where the slots that change were no end marks and become none, the      *)
(* directories end where they did.                                         *)
LEMMA EndsKept ==
  ASSUME UNCHANGED fat,
         \A c \in Clusters, s \in Slot : KindIn(c, s)' = "end" <=> KindIn(c, s) = "end"
  PROVE  \A c \in Clusters : EndsOnce(c)' <=> EndsOnce(c)
  BY SlotNumbers DEF EndsOnce

(* An entry goes; what it led to has another name, or no entries.          *)
LEMMA VolumeDrop ==
  ASSUME Disk, Separate, UNCHANGED fat, NEW loc \in LiveEntries, PutEntry(loc, Mark("deleted")),
         EntryAt(loc).kind = "dir" =>
           \/ FirstOf(loc) \in DirectoryHeads'
           \/ \A c \in ChainSet(FirstOf(loc)) : Barren(c),
         NEW o, NEW n, Volume(o), \A l \in LiveEntries : l # loc /\ Moving(o, l) => Moving(n, l)
  PROVE  Volume(n)'
  <1> DEFINE e == Mark("deleted")
  <1>1. loc \in Location /\ e.kind = "deleted" /\ e.kind \notin Live
    BY DEF LiveEntries, Mark, fat32_build_entry, Live
  <1>2. PutEntry(loc, e)
    OBVIOUS
  <1> HIDE DEF e
  <1>3. \A l : l \in LiveEntries' <=> l \in LiveEntries /\ l # loc
    BY <1>1, <1>2, SlotPut
  <1>4. \A l \in LiveEntries : l # loc => EntryAt(l)' = EntryAt(l) /\ FirstOf(l)' = FirstOf(l)
    BY <1>1, <1>2, SlotPut
  <1>5. \A kind : \A l : l \in LiveOf(kind)' <=> l \in LiveOf(kind) /\ l # loc
    BY <1>3, <1>4 DEF LiveOf
  <1>6. DirectoryHeads' \subseteq DirectoryHeads
    BY <1>4, <1>5 DEF DirectoryHeads, LiveOf
  <1>7. \A c \in Clusters, s \in Slot : KindIn(c, s)' = "end" <=> KindIn(c, s) = "end"
    BY <1>1, <1>2, SlotPut DEF Live
  <1>8. EntriesListed'
    <2> SUFFICES ASSUME NEW l \in LiveEntries, l # loc
                 PROVE  \E d \in DirectoryHeads' : Within(l, d)
      BY <1>3, ChainsKept DEF EntriesListed
    <2>1. PICK d \in DirectoryHeads : Within(l, d)
      BY DEF Volume, EntriesListed
    <2>2. d \in DirectoryHeads' \/ (d = FirstOf(loc) /\ EntryAt(loc).kind = "dir")
      BY <1>4, <1>5 DEF DirectoryHeads, LiveOf
    <2>3. ~Barren(l.cluster)
      BY DEF LiveEntries, Barren, KindIn, EntryAt, Location
    <2> QED BY <2>1, <2>2, <2>3 DEF Within
  <1>9. FilesPlain'
    <2> SUFFICES ASSUME NEW l \in LiveOf("file"), l # loc, NEW c \in ChainSet(FirstOf(l))
                 PROVE  Plain(c)'
      <3>1. \A l \in LiveOf("file") : l # loc => FirstOf(l)' = FirstOf(l)
        BY <1>4 DEF LiveOf
      <3> QED BY <1>5, <3>1, ChainsKept DEF FilesPlain
    <2>1. Plain(c) /\ c \in Clusters
      BY DEF Volume, FilesPlain, ChainSet
    <2>2. ~Plain(loc.cluster)
      BY <1>1, <1>2, SlotPut DEF Plain, LiveEntries, Live
    <2>3. c # loc.cluster
      BY <2>1, <2>2
    <2>4. \A s \in Slot : KindIn(c, s)' = KindIn(c, s)
      BY <1>1, <1>2, <2>1, <2>3, SlotPut
    <2> QED BY <2>1, <2>4 DEF Plain
  <1>10. EndsTidy'
    BY <1>6, <1>7, EndsKept, ChainsKept DEF Volume, EndsTidy, ChainSet
  <1>11. NamesApart'
    BY <1>3, <1>4, <1>6, ChainsKept DEF Volume, NamesApart
  <1>12. DotsRight(n)'
    <2> SUFFICES ASSUME NEW l \in LiveOf("dir"), l # loc
                 PROVE  /\ FirstOf(l)' # Free
                        /\ Dot(FirstOf(l))'
                        /\ ~Moving(n, l) => \A d \in DirectoryHeads' : Within(l, d) => DotDot(FirstOf(l), d)'
      BY <1>5, ChainsKept DEF DotsRight, Moving
    <2>1. FirstOf(l)' = FirstOf(l) /\ FirstOf(l) \in DirectoryHeads /\ l \in LiveEntries
      BY <1>4 DEF LiveOf, DirectoryHeads
    <2>2. FirstOf(l) \in Clusters /\ Dot(FirstOf(l)) /\ FirstOf(l) # Free
          /\ (~Moving(o, l) => \A d \in DirectoryHeads : Within(l, d) => DotDot(FirstOf(l), d))
      BY <2>1 DEF Separate, Volume, DotsRight
    <2>3. \A s \in Slot : slots[FirstOf(l)][s].kind \notin Live => slots'[FirstOf(l)][s] = slots[FirstOf(l)][s]
      BY <1>1, <1>2, <2>2, SlotPut DEF KindIn
    <2>4. Dot(FirstOf(l))'
      BY <2>1, <2>2, <2>3, SlotNumbers DEF Dot, fat32_build_entry, Live
    <2>5. \A d : DotDot(FirstOf(l), d) => DotDot(FirstOf(l), d)'
      BY <2>1, <2>3, SlotNumbers DEF DotDot, fat32_build_entry, Live
    <2> QED BY <1>6, <2>1, <2>2, <2>4, <2>5
  <1> QED BY <1>8, <1>9, <1>10, <1>11, <1>12 DEF Volume

(* An entry is written where none was, before every end mark.              *)
LEMMA VolumeAdd ==
  ASSUME Disk, Separate, UNCHANGED fat, NEW loc \in Location, NEW e, PutEntry(loc, e), e.kind \in Live,
         EntryAt(loc).kind \in {"end", "deleted"},
         \A s \in Slot : s < loc.slot => KindIn(loc.cluster, s) # "end",
         loc.slot = 0 => \A c \in Clusters : fat[c] = loc.cluster => KindIn(c, Slots - 1) # "end",
         NEW home \in DirectoryHeads, Within(loc, home),
         \A l \in LiveEntries : Within(l, home) => EntryAt(l).name # e.name,
         \/ e.kind = "dir" /\ e.first \in DirectoryHeads
         \/ \A d \in DirectoryHeads : ChainSet(d) \cap ChainSet(e.first) = {},
         e.kind = "file" => \A c \in ChainSet(e.first) : Plain(c),
         e.kind = "dir" => /\ e.first \in Clusters /\ Dot(e.first)
                           /\ \/ e.first \in DirectoryHeads
                              \/ \A c \in ChainSet(e.first) : Barren(c) /\ EndsOnce(c),
         NEW o, NEW n, Volume(o), \A l \in LiveEntries : Moving(o, l) => Moving(n, l),
         e.kind = "dir" => Moving(n, loc) \/ DotDot(e.first, home)
  PROVE  Volume(n)'
  <1>1. loc \notin LiveEntries /\ loc \in LiveEntries'
    BY SlotPut DEF Live
  <1>2. \A l : l \in LiveEntries' <=> l \in LiveEntries \/ l = loc
    BY <1>1, SlotPut
  <1>3. /\ \A l \in LiveEntries : l \in Location /\ l # loc /\ EntryAt(l)' = EntryAt(l) /\ FirstOf(l)' = FirstOf(l)
        /\ EntryAt(loc)' = e /\ FirstOf(loc)' = e.first
    BY <1>1, SlotPut
  <1>4. \A kind : \A l : l \in LiveOf(kind)' <=> l \in LiveOf(kind) \/ (l = loc /\ e.kind = kind)
    BY <1>2, <1>3 DEF LiveOf
  <1>5. \A d : d \in DirectoryHeads' <=> d \in DirectoryHeads \/ (e.kind = "dir" /\ d = e.first)
    <2>1. \A l \in LiveOf("dir") : FirstOf(l)' = FirstOf(l)
      BY <1>3 DEF LiveOf
    <2> QED BY <1>3, <1>4, <2>1 DEF DirectoryHeads
  <1>6. \A c \in Clusters, s \in Slot : KindIn(c, s)' = "end" =>
          KindIn(c, s) = "end" /\ ~(c = loc.cluster /\ s = loc.slot)
    BY SlotPut DEF Live
  <1>7. \A c \in Clusters : EndsOnce(c) => EndsOnce(c)'
    <2> SUFFICES ASSUME NEW c \in Clusters, EndsOnce(c) PROVE EndsOnce(c)'
      OBVIOUS
    <2>1. ASSUME NEW s \in Slot, NEW t \in Slot, s < t, KindIn(c, s)' = "end"
          PROVE  KindIn(c, t)' = "end"
      <3>1. KindIn(c, s) = "end" /\ KindIn(c, t) = "end"
        BY <1>6, <2>1 DEF EndsOnce
      <3>2. ~(c = loc.cluster /\ t = loc.slot)
        BY <2>1, <3>1
      <3> QED BY <3>1, <3>2, SlotPut
    <2>2. ASSUME fat[c] \in Clusters, KindIn(c, Slots - 1)' = "end"
          PROVE  KindIn(fat[c], 0)' = "end"
      <3>1. KindIn(c, Slots - 1) = "end" /\ KindIn(fat[c], 0) = "end"
        BY <1>6, <2>2, SlotNumbers DEF EndsOnce
      <3>2. ~(fat[c] = loc.cluster /\ 0 = loc.slot)
        BY <3>1
      <3> QED BY <2>2, <3>1, <3>2, SlotNumbers, SlotPut
    <2> QED BY <2>1, <2>2 DEF EndsOnce
  <1>8. \A d \in DirectoryHeads : loc.cluster \in ChainSet(d) => d = home
    BY DEF Separate, Within
  <1>9. e.kind = "file" \/ e.first \notin DirectoryHeads => loc.cluster \notin ChainSet(e.first)
    BY DEF Within, Live
  <1>10. EntriesListed'
    BY <1>2, <1>5, ChainsKept DEF Volume, EntriesListed
  <1>11. FilesPlain'
    <2> SUFFICES ASSUME NEW l \in LiveOf("file")', NEW c \in ChainSet(FirstOf(l))'
                 PROVE  Plain(c)'
      BY DEF FilesPlain
    <2>1. Plain(c) /\ c \in Clusters /\ c # loc.cluster
      <3>1. CASE l = loc
        <4>1. FirstOf(l)' = e.first /\ e.kind = "file"
          BY <1>1, <1>3, <1>4, <3>1 DEF LiveOf
        <4>2. c \in ChainSet(e.first)
          BY <4>1, ChainNext, ChainIs
        <4> QED BY <1>9, <4>1, <4>2 DEF ChainSet
      <3>2. CASE l # loc
        <4>1. l \in LiveOf("file") /\ FirstOf(l)' = FirstOf(l)
          BY <1>3, <1>4, <3>2 DEF LiveOf
        <4>2. c \in ChainSet(FirstOf(l))
          BY <4>1, ChainsKept
        <4> QED BY <4>1, <4>2 DEF Volume, FilesPlain, Separate, Within, ChainSet
      <3> QED BY <3>1, <3>2
    <2> QED BY <2>1, SlotPut DEF Plain
  <1>12. EndsTidy'
    <2> SUFFICES ASSUME NEW d \in DirectoryHeads', NEW c \in ChainSet(d)
                 PROVE  EndsOnce(c)'
      BY ChainsKept DEF EndsTidy
    <2>1. c \in Clusters /\ EndsOnce(c)
      BY <1>5 DEF Volume, EndsTidy, ChainSet
    <2> QED BY <1>7, <2>1
  <1>13. NamesApart'
    <2> SUFFICES ASSUME NEW d \in DirectoryHeads', NEW l \in LiveEntries', NEW m \in LiveEntries',
                        l # m, Within(l, d), Within(m, d)
                 PROVE  EntryAt(l)'.name # EntryAt(m)'.name
      BY ChainsKept DEF NamesApart
    <2>1. d \in DirectoryHeads
      <3> SUFFICES ASSUME d \notin DirectoryHeads PROVE FALSE
        OBVIOUS
      <3>1. d = e.first /\ e.kind = "dir" /\ \A c \in ChainSet(d) : Barren(c)
        BY <1>5
      <3>2. \A k \in LiveEntries : ~Barren(k.cluster)
        BY DEF LiveEntries, Barren, KindIn, EntryAt, Location
      <3>3. l = loc /\ m = loc
        BY <1>2, <3>1, <3>2 DEF Within
      <3> QED BY <3>3
    <2>2. CASE l # loc /\ m # loc
      BY <1>2, <1>3, <2>1, <2>2 DEF Volume, NamesApart
    <2>3. CASE l = loc \/ m = loc
      <3>1. d = home
        BY <1>8, <2>1, <2>3 DEF Within
      <3> QED BY <1>2, <1>3, <2>3, <3>1
    <2> QED BY <2>2, <2>3
  <1>14. DotsRight(n)'
    <2> SUFFICES ASSUME NEW l \in LiveOf("dir")'
                 PROVE  /\ FirstOf(l)' # Free
                        /\ Dot(FirstOf(l))'
                        /\ ~Moving(n, l) => \A d \in DirectoryHeads' : Within(l, d) => DotDot(FirstOf(l), d)'
      BY ChainsKept DEF DotsRight, Moving
    <2>1. \A c \in Clusters, s \in Slot :
            slots[c][s].kind \in {"dot", "dotdot"} => slots'[c][s] = slots[c][s]
      BY SlotPut DEF KindIn
    <2>2. \A c \in Clusters : Dot(c) => Dot(c)'
      BY <2>1, SlotNumbers DEF Dot, fat32_build_entry
    <2>3. \A c \in Clusters : \A d : DotDot(c, d) => DotDot(c, d)'
      BY <2>1, SlotNumbers DEF DotDot, fat32_build_entry
    <2>4. CASE l = loc
      <3>1. FirstOf(l)' = e.first /\ e.kind = "dir" /\ e.first \in Clusters /\ e.first # Free
        BY <1>1, <1>3, <1>4, <2>4, FreeOutside DEF LiveOf
      <3>2. ASSUME NEW d \in DirectoryHeads', Within(l, d) PROVE d = home
        BY <1>5, <1>8, <1>9, <2>4, <3>1, <3>2 DEF Within
      <3>3. Dot(FirstOf(l))' /\ \A d : DotDot(e.first, d) => DotDot(FirstOf(l), d)'
        BY <2>2, <2>3, <3>1 DEF Dot, DotDot
      <3> QED BY <2>4, <3>1, <3>2, <3>3
    <2>5. CASE l # loc
      <3>1. l \in LiveOf("dir") /\ l \in LiveEntries /\ FirstOf(l)' = FirstOf(l)
        BY <1>3, <1>4, <2>5 DEF LiveOf
      <3>2. FirstOf(l) \in Clusters
        BY <3>1 DEF Separate, DirectoryHeads
      <3>3. FirstOf(l) # Free /\ Dot(FirstOf(l)) /\ (~Moving(o, l) =>
              \A d \in DirectoryHeads : Within(l, d) => DotDot(FirstOf(l), d))
        BY <3>1 DEF Volume, DotsRight
      <3>4. Dot(FirstOf(l))' /\ \A d : DotDot(FirstOf(l), d) => DotDot(FirstOf(l), d)'
        BY <2>2, <2>3, <3>1, <3>2, <3>3 DEF Dot, DotDot
      <3>5. ASSUME NEW d \in DirectoryHeads', Within(l, d) PROVE d \in DirectoryHeads
        <4>1. ~Barren(l.cluster)
          BY <3>1 DEF LiveEntries, Barren, KindIn, EntryAt, Location
        <4> QED BY <1>5, <3>5, <4>1 DEF Within
      <3> QED BY <3>1, <3>3, <3>4, <3>5
    <2> QED BY <2>4, <2>5
  <1> QED BY <1>10, <1>11, <1>12, <1>13, <1>14 DEF Volume

(* An entry is rewritten: another name, or another size and first cluster. *)
LEMMA VolumeUpdate ==
  ASSUME Disk, Separate, UNCHANGED fat, NEW loc \in LiveEntries, NEW e, PutEntry(loc, e),
         e.kind = EntryAt(loc).kind,
         e.kind = "dir" => e.first = FirstOf(loc),
         e.kind = "file" => \A c \in ChainSet(e.first) : Plain(c),
         \A l \in LiveEntries, d \in DirectoryHeads :
           l # loc /\ Within(l, d) /\ Within(loc, d) => EntryAt(l).name # e.name,
         NEW o, NEW n, Volume(o), \A l \in LiveEntries : Moving(o, l) => Moving(n, l)
  PROVE  Volume(n)'
  <1>1. loc \in Location /\ e.kind \in Live
    BY DEF LiveEntries
  <1>2. \A l : l \in LiveEntries' <=> l \in LiveEntries
    BY <1>1, SlotPut
  <1>3. /\ \A l \in LiveEntries : l # loc => EntryAt(l)' = EntryAt(l) /\ FirstOf(l)' = FirstOf(l)
        /\ EntryAt(loc)' = e /\ FirstOf(loc)' = e.first
    BY <1>1, SlotPut
  <1>4. \A kind : \A l : l \in LiveOf(kind)' <=> l \in LiveOf(kind)
    BY <1>2, <1>3 DEF LiveOf
  <1>5. \A l \in LiveOf("dir") : FirstOf(l)' = FirstOf(l)
    BY <1>3 DEF LiveOf
  <1>6. \A d : d \in DirectoryHeads' <=> d \in DirectoryHeads
    BY <1>4, <1>5 DEF DirectoryHeads
  <1>7. \A c \in Clusters, s \in Slot : KindIn(c, s)' = KindIn(c, s)
    BY <1>1, SlotPut
  <1>8. EntriesListed'
    BY <1>2, <1>6, ChainsKept DEF Volume, EntriesListed
  <1>9. FilesPlain'
    <2> SUFFICES ASSUME NEW l \in LiveOf("file")', NEW c \in ChainSet(FirstOf(l))'
                 PROVE  Plain(c)'
      BY DEF FilesPlain
    <2>1. Plain(c) /\ c \in Clusters
      <3>1. CASE l = loc
        <4>1. FirstOf(l)' = e.first /\ e.kind = "file"
          BY <1>1, <1>3, <1>4, <3>1 DEF LiveOf
        <4>2. c \in ChainSet(e.first)
          BY <4>1, ChainNext, ChainIs
        <4> QED BY <4>1, <4>2 DEF ChainSet
      <3>2. CASE l # loc
        <4>1. l \in LiveOf("file") /\ FirstOf(l)' = FirstOf(l)
          BY <1>3, <1>4, <3>2 DEF LiveOf
        <4>2. c \in ChainSet(FirstOf(l))
          BY <4>1, ChainsKept
        <4> QED BY <4>1, <4>2 DEF Volume, FilesPlain, ChainSet
      <3> QED BY <3>1, <3>2
    <2> QED BY <1>7, <2>1 DEF Plain
  <1>10. EndsTidy'
    <2> SUFFICES ASSUME NEW d \in DirectoryHeads, NEW c \in ChainSet(d)
                 PROVE  EndsOnce(c)'
      BY <1>6, ChainsKept DEF EndsTidy
    <2> QED BY <1>7, EndsKept DEF Volume, EndsTidy, ChainSet
  <1>11. NamesApart'
    BY <1>2, <1>3, <1>6, ChainsKept DEF Volume, NamesApart
  <1>12. DotsRight(n)'
    <2> SUFFICES ASSUME NEW l \in LiveOf("dir")
                 PROVE  /\ FirstOf(l)' # Free
                        /\ Dot(FirstOf(l))'
                        /\ ~Moving(n, l) => \A d \in DirectoryHeads : Within(l, d) => DotDot(FirstOf(l), d)'
      BY <1>4, <1>6, ChainsKept DEF DotsRight, Moving
    <2>1. \A c \in Clusters, s \in Slot :
            slots[c][s].kind \in {"dot", "dotdot"} => slots'[c][s] = slots[c][s]
      BY <1>1, SlotPut DEF KindIn, Live
    <2>2. FirstOf(l)' = FirstOf(l) /\ FirstOf(l) \in Clusters /\ l \in LiveEntries
      BY <1>5 DEF Separate, DirectoryHeads, LiveOf
    <2>3. FirstOf(l) # Free /\ Dot(FirstOf(l)) /\ (~Moving(o, l) =>
            \A d \in DirectoryHeads : Within(l, d) => DotDot(FirstOf(l), d))
      BY DEF Volume, DotsRight
    <2>4. Dot(FirstOf(l))' /\ \A d : DotDot(FirstOf(l), d) => DotDot(FirstOf(l), d)'
      BY <2>1, <2>2, <2>3, SlotNumbers DEF Dot, DotDot, fat32_build_entry
    <2> QED BY <2>2, <2>3, <2>4
  <1> QED BY <1>8, <1>9, <1>10, <1>11, <1>12 DEF Volume

(* The dots of a directory that moves are set to its new parent.           *)
LEMMA VolumeDots ==
  ASSUME Disk, Separate, UNCHANGED fat, NEW c \in DirectoryHeads, Dot(c), KindIn(c, 1) = "dotdot",
         NEW parent,
         slots' = [slots EXCEPT ![c][0] = fat32_build_entry("dot", NoName, c, 0),
                                ![c][1] = fat32_build_entry("dotdot", NoName, parent, 0)],
         NEW o, NEW n, Volume(o),
         \A l \in LiveOf("dir") :
           IF FirstOf(l) = c
           THEN Moving(n, l) \/ \A d \in DirectoryHeads : Within(l, d) => d = parent
           ELSE Moving(o, l) => Moving(n, l)
  PROVE  /\ Volume(n)' /\ LiveEntries' = LiveEntries /\ DirectoryHeads' = DirectoryHeads
         /\ \A l \in LiveEntries : EntryAt(l)' = EntryAt(l)
         /\ \A b \in Clusters, s \in Slot : KindIn(b, s)' = KindIn(b, s)
         /\ \A kind : LiveOf(kind)' = LiveOf(kind)
  <1> DEFINE dotdot == fat32_build_entry("dotdot", NoName, parent, 0)
  <1>1. c \in Clusters /\ dotdot.kind = "dotdot"
    BY DEF Separate, fat32_build_entry
  <1>2. \A b \in Clusters, s \in Slot :
          slots'[b][s] = IF b = c /\ s = 1 THEN dotdot ELSE slots[b][s]
    <2> DEFINE dot == fat32_build_entry("dot", NoName, c, 0)
    <2>1. slots[c][0] = dot
      BY DEF Dot
    <2>2. slots' = [slots EXCEPT ![c][0] = dot, ![c][1] = dotdot]
      OBVIOUS
    <2> HIDE DEF dot, dotdot
    <2> QED BY <1>1, <2>1, <2>2, SlotNumbers DEF Disk
  <1> HIDE DEF dotdot
  <1>3. \A b \in Clusters, s \in Slot : KindIn(b, s)' = KindIn(b, s)
    <2>1. KindIn(c, 1) = "dotdot"
      OBVIOUS
    <2> QED BY ONLY <1>1, <1>2, <2>1 DEF KindIn
  <1>4. \A l \in Location : l.cluster \in Clusters /\ l.slot \in Slot
    BY DEF Location
  <1>5. \A l \in Location : EntryAt(l).kind' = EntryAt(l).kind
    BY <1>3, <1>4 DEF KindIn, EntryAt
  <1>6. LiveEntries' = LiveEntries
    BY <1>5 DEF LiveEntries
  <1>7. \A l \in LiveEntries : EntryAt(l)' = EntryAt(l) /\ FirstOf(l)' = FirstOf(l)
    <2> SUFFICES ASSUME NEW l \in LiveEntries PROVE EntryAt(l)' = EntryAt(l)
      BY DEF FirstOf
    <2>1. EntryAt(l).kind \in Live /\ l.cluster \in Clusters /\ l.slot \in Slot
      BY <1>4 DEF LiveEntries
    <2>2. ~(l.cluster = c /\ l.slot = 1)
      BY <2>1 DEF KindIn, EntryAt, Live
    <2> QED BY <1>2, <2>1, <2>2 DEF EntryAt
  <1>8. \A kind : LiveOf(kind)' = LiveOf(kind)
    BY <1>6, <1>7 DEF LiveOf
  <1>9. DirectoryHeads' = DirectoryHeads
    <2>1. \A l \in LiveOf("dir") : FirstOf(l)' = FirstOf(l)
      BY <1>7 DEF LiveOf
    <2> QED BY <1>8, <2>1 DEF DirectoryHeads
  <1>10. EntriesListed'
    BY <1>6, <1>9, ChainsKept DEF Volume, EntriesListed
  <1>11. FilesPlain'
    <2> SUFFICES ASSUME NEW l \in LiveOf("file"), NEW b \in ChainSet(FirstOf(l))
                 PROVE  Plain(b)'
      <3>1. \A l \in LiveOf("file") : FirstOf(l)' = FirstOf(l)
        BY <1>7 DEF LiveOf
      <3> QED BY <1>8, <3>1, ChainsKept DEF FilesPlain
    <2> QED BY <1>3 DEF Volume, FilesPlain, ChainSet, Plain
  <1>12. EndsTidy'
    <2> SUFFICES ASSUME NEW d \in DirectoryHeads, NEW b \in ChainSet(d)
                 PROVE  EndsOnce(b)'
      BY <1>9, ChainsKept DEF EndsTidy
    <2> QED BY <1>3, EndsKept DEF Volume, EndsTidy, ChainSet
  <1>13. NamesApart'
    BY <1>6, <1>7, <1>9, ChainsKept DEF Volume, NamesApart
  <1>14. DotsRight(n)'
    <2> SUFFICES ASSUME NEW l \in LiveOf("dir")
                 PROVE  /\ FirstOf(l)' # Free
                        /\ Dot(FirstOf(l))'
                        /\ ~Moving(n, l) => \A d \in DirectoryHeads : Within(l, d) => DotDot(FirstOf(l), d)'
      BY <1>8, <1>9, ChainsKept DEF DotsRight, Moving
    <2>1. FirstOf(l)' = FirstOf(l) /\ FirstOf(l) \in Clusters /\ l \in LiveEntries
      BY <1>7 DEF Separate, DirectoryHeads, LiveOf
    <2>2. FirstOf(l) # Free /\ Dot(FirstOf(l)) /\ (~Moving(o, l) =>
            \A d \in DirectoryHeads : Within(l, d) => DotDot(FirstOf(l), d))
      BY DEF Volume, DotsRight
    <2>3. Dot(FirstOf(l))'
      <3>1. Dot(FirstOf(l)) /\ 0 \in Slot /\ 0 # 1
        BY <2>2, SlotNumbers
      <3> QED BY ONLY <1>2, <2>1, <3>1 DEF Dot
    <2>4. CASE FirstOf(l) = c
      <3>1. DotDot(FirstOf(l), parent)'
        BY <1>2, <2>1, <2>4, SlotNumbers DEF DotDot, dotdot
      <3> QED BY <2>1, <2>2, <2>3, <2>4, <3>1
    <2>5. CASE FirstOf(l) # c
      <3>1. \A d : DotDot(FirstOf(l), d) => DotDot(FirstOf(l), d)'
        BY ONLY <1>2, <2>1, <2>5, SlotNumbers DEF DotDot
      <3> QED BY <2>1, <2>2, <2>3, <2>5, <3>1
    <2> QED BY <2>4, <2>5
  <1> QED BY <1>3, <1>6, <1>7, <1>8, <1>9, <1>10, <1>11, <1>12, <1>13, <1>14 DEF Volume

(* A blank cluster is appended to a chain.                                 *)
LEMMA LinkedChains ==
  ASSUME Disk, TableSound, NoCycle, NoCycle', NEW last \in Clusters, NEW new \in Clusters,
         fat[last] = EndOfChain, fat[new] = EndOfChain, new # last,
         fat' = [fat EXCEPT ![last] = new]
  PROVE  /\ \A f : ChainSet(f)' = ChainSet(f) \cup (IF last \in ChainSet(f) THEN {new} ELSE {})
         /\ \A c \in Clusters : fat'[c] = IF c = last THEN new ELSE fat[c]
  <1>1. fat \in TableType /\ Acyclic(fat)
    BY TableFacts
  <1>2. Acyclic(fat') /\ \A c \in Clusters : fat'[c] = IF c = last THEN new ELSE fat[c]
    BY DEF NoCycle, Acyclic, Disk
  <1>3. \A f : ChainOf(fat', f) = ChainOf(fat, f) \cup (IF last \in ChainOf(fat, f) THEN {new} ELSE {})
    <2> SUFFICES ASSUME NEW f
                 PROVE  ChainOf(fat', f) = ChainOf(fat, f) \cup (IF last \in ChainOf(fat, f) THEN {new} ELSE {})
      OBVIOUS
    <2>1. /\ last \in Clusters /\ new \in Clusters
          /\ fat[last] = EndOfChain /\ fat[new] = EndOfChain /\ new # last
      OBVIOUS
    <2> QED BY ONLY <1>1, <1>2, <2>1, ChainLinked
  <1> QED BY <1>2, <1>3, ChainIs, ChainNext

LEMMA VolumeLinked ==
  ASSUME Disk, Separate, UNCHANGED slots, NEW last \in Clusters, NEW new \in Clusters,
         fat[new] = EndOfChain, Blank(new), new # last,
         \A f : ChainSet(f)' = ChainSet(f) \cup (IF last \in ChainSet(f) THEN {new} ELSE {}),
         \A c \in Clusters : fat'[c] = IF c = last THEN new ELSE fat[c],
         NEW n, Volume(n)
  PROVE  Volume(n)' /\ \A l \in LiveEntries : \A d : Within(l, d)' <=> Within(l, d)
  <1>1. \A l \in LiveEntries : l.cluster # new
    BY DEF LiveEntries, Blank, KindIn, EntryAt, Location, Live
  <1>2. \A l \in LiveEntries : \A d : Within(l, d)' <=> Within(l, d)
    BY <1>1, ChainNext, ChainIs DEF Within
  <1>3. EntriesListed'
    BY <1>2, SlotsSame DEF Volume, EntriesListed
  <1>4. FilesPlain'
    <2>1. Plain(new)
      BY DEF Plain, Blank
    <2> QED BY <2>1, ChainNext, ChainIs, SlotsSame DEF Volume, FilesPlain
  <1>5. EndsTidy'
    <2> SUFFICES ASSUME NEW d \in DirectoryHeads, NEW c \in ChainSet(d)'
                 PROVE  EndsOnce(c)'
      BY SlotsSame DEF EndsTidy
    <2>1. c \in Clusters /\ (c = new \/ EndsOnce(c))
      BY DEF Volume, EndsTidy, ChainSet
    <2>2. Blank(new) /\ 0 \in Slot /\ EndOfChain \notin Clusters
      BY SlotNumbers, FreeOutside
    <2>3. CASE c = new
      BY <2>1, <2>2, <2>3, SlotsSame DEF EndsOnce, Blank
    <2>4. CASE c # new
      BY <2>1, <2>2, <2>4, SlotsSame DEF EndsOnce, Blank
    <2> QED BY <2>3, <2>4
  <1>6. NamesApart'
    BY <1>2, SlotsSame DEF Volume, NamesApart
  <1>7. DotsRight(n)'
    BY <1>2, SlotsSame DEF Volume, DotsRight, Moving, LiveOf
  <1> QED BY <1>2, <1>3, <1>4, <1>5, <1>6, <1>7 DEF Volume

-----------------------------------------------------------------------------
(* The steps of the driver.                                                *)

USE CallerAssumption DEF Operations, Steps, Kinds, Appending

(* Every chain ends.                                                       *)

LEMMA NoCycleKept ==
  ASSUME NoCycle, \A c \in Clusters : fat'[c] = fat[c] \/ fat'[c] \notin Clusters
  PROVE  NoCycle'
  BY DEF NoCycle

(* A cluster that leads nowhere may follow any other.                      *)
LEMMA NoCycleLinked ==
  ASSUME Disk, NoCycle, NEW last, NEW new \in Clusters, fat[new] = EndOfChain, new # last,
         fat' = [fat EXCEPT ![last] = new]
  PROVE  NoCycle' /\ fat'[new] = EndOfChain
  <1>1. \A d \in Clusters : fat'[d] = IF d = last THEN new ELSE fat[d]
    BY DEF Disk
  <1>2. EndOfChain \notin Clusters
    BY DEF Clusters, EndOfChain
  <1>3. ASSUME NEW S \in SUBSET Clusters, S # {}
        PROVE  \E c \in S : fat'[c] \notin S
    <2>1. CASE new \in S
      BY <1>1, <1>2, <2>1
    <2>2. CASE new \notin S
      <3>1. PICK c \in S : fat[c] \notin S
        BY <1>3 DEF NoCycle
      <3> QED BY <1>1, <2>2, <3>1
    <2> QED BY <2>1, <2>2
  <1> QED BY <1>1, <1>3 DEF NoCycle

LEMMA NotAppending ==
  ASSUME op'.step \notin Appending
  PROVE  AppendSound(op)'
  BY DEF AppendSound

LEMMA RecoverNotAppending ==
  ASSUME Before, Recover
  PROVE  op'.step \notin Appending
  <1>1. PICK n \in Call : n = op
    BY BeforeDisk
  <1>2. \/ op' = [n EXCEPT !.step = "free", !.cur = n.first]
        \/ op' = [n EXCEPT !.step = "undo"]
        \/ op' = Idle
    BY <1>1 DEF Recover, Finish
  <1>3. Idle.step = "idle"
    BY DEF Idle
  <1>4. [n EXCEPT !.step = "free", !.cur = n.first].step = "free"
    BY DEF Call
  <1>5. [n EXCEPT !.step = "undo"].step = "undo"
    BY DEF Call
  <1> QED BY <1>2, <1>3, <1>4, <1>5

LEMMA CompleteNotAppending ==
  ASSUME Before, Complete
  PROVE  op'.step \notin Appending
  <1>1. CASE Recover
    BY <1>1, RecoverNotAppending
  <1>2. CASE op' = Idle
    BY <1>2 DEF Idle
  <1> QED BY <1>1, <1>2, WriteFailsSafe DEF Complete, Finish

(* What the next step of a write appends to.                               *)
LEMMA GrowAppends ==
  ASSUME NEW o \in Call, o.last # Free => fat[o.last] # Free
  PROVE  AppendSound(GrowOrWrite(o))
  <1>1. CASE o.need > 0
    <2>1. GrowOrWrite(o).step = "mark" /\ GrowOrWrite(o).last = o.last
      BY <1>1 DEF GrowOrWrite, Call
    <2> QED BY <2>1 DEF AppendSound
  <1>2. CASE ~(o.need > 0)
    <2>1. GrowOrWrite(o).step \in {"data", "update"}
      BY <1>2 DEF GrowOrWrite, DataOrUpdate, Call
    <2> QED BY <2>1 DEF AppendSound
  <1> QED BY <1>1, <1>2

LEMMA MarkClusterChains ==
  ASSUME Before, NoCycle, AppendSound(op), MarkCluster
  PROVE  NoCycle' /\ AppendSound(op)'
  <1>1. PICK c \in Clusters : /\ fat[c] = Free /\ fat' = [fat EXCEPT ![c] = EndOfChain]
                              /\ Proceed([op EXCEPT !.new = c, !.step = "zero"])
    BY DEF MarkCluster, Lowest, FreeClusters
  <1>2. op.step = "mark" /\ op \in Call /\ Disk
    BY BeforeDisk DEF MarkCluster
  <1>3. \A d \in Clusters : fat'[d] = IF d = c THEN EndOfChain ELSE fat[d]
    BY <1>1, <1>2 DEF Disk
  <1>4. NoCycle'
    BY <1>3, NoCycleKept DEF Clusters, EndOfChain
  <1>5. CASE Recover
    BY <1>4, <1>5, RecoverNotAppending, NotAppending
  <1>6. CASE op' = [op EXCEPT !.new = c, !.step = "zero"]
    <2>1. op'.new = c /\ op'.step = "zero" /\ op'.last = op.last
      BY <1>2, <1>6 DEF Call
    <2>2. op.last # c
      BY <1>1, <1>2 DEF AppendSound, Clusters, Free
    <2> QED BY <1>3, <1>4, <2>1, <2>2 DEF AppendSound
  <1> QED BY <1>1, <1>5, <1>6, ProceedSafe

LEMMA ZeroClusterChains ==
  ASSUME Before, NoCycle, AppendSound(op), ZeroCluster
  PROVE  NoCycle' /\ AppendSound(op)'
  <1>1. /\ op.step = "zero" /\ op \in Call /\ UNCHANGED fat
        /\ fat[op.new] = EndOfChain /\ op.new # op.last
    BY BeforeDisk DEF ZeroCluster, AppendSound
  <1>2. NoCycle'
    BY <1>1, NoCycleKept
  <1>3. CASE Recover
    BY <1>2, <1>3, RecoverNotAppending, NotAppending
  <1>4. CASE op' = Allocated
    <2>1. CASE op.kind = "create_directory" /\ op.first = Free
      <3>1. op'.step = "dots"
        BY <1>1, <1>4, <2>1 DEF Allocated, Call
      <3> QED BY <1>2, <3>1, NotAppending
    <2>2. CASE op.kind = "write" /\ op.first = Free
      <3> DEFINE o == [op EXCEPT !.first = op.new, !.last = op.new, !.need = op.need - 1]
      <3>1. op' = GrowOrWrite(o)
        BY <1>1, <1>4, <2>2 DEF Allocated, Call
      <3>2. op.need - 1 \in Nat /\ op.new # Free
        BY <1>1, <2>2 DEF Before, TypeInv, TypeOK, CallOK, Call, Free, Clusters
      <3>3. o \in Call /\ o.last = op.new
        <4> HIDE DEF Operations, Steps
        <4> QED BY <1>1, <2>2, <3>2 DEF Call
      <3>4. EndOfChain # Free
        BY DEF EndOfChain, Free
      <3> HIDE DEF o
      <3>5. AppendSound(GrowOrWrite(o))
        BY <1>1, <3>3, <3>4, GrowAppends
      <3> QED BY <1>1, <1>2, <3>1, <3>5 DEF AppendSound
    <2>3. CASE /\ ~(op.kind = "create_directory" /\ op.first = Free)
               /\ ~(op.kind = "write" /\ op.first = Free)
      <3>1. op'.step = "link" /\ op'.new = op.new /\ op'.last = op.last
        BY <1>1, <1>4, <2>3 DEF Allocated, Call
      <3> QED BY <1>1, <1>2, <3>1 DEF AppendSound
    <2> QED BY <2>1, <2>2, <2>3
  <1> QED BY <1>3, <1>4, ProceedSafe DEF ZeroCluster

LEMMA LinkClusterChains ==
  ASSUME Before, NoCycle, AppendSound(op), LinkCluster
  PROVE  NoCycle' /\ AppendSound(op)'
  <1>1. /\ op.step = "link" /\ op \in Call /\ Disk
        /\ op.new \in Clusters /\ fat[op.new] = EndOfChain /\ op.new # op.last
    BY BeforeDisk DEF LinkCluster, AppendSound, Before, TypeInv, CallOK
  <1>2. NoCycle' /\ fat'[op.new] = EndOfChain
    BY <1>1, NoCycleLinked DEF LinkCluster
  <1>3. CASE Recover
    BY <1>2, <1>3, RecoverNotAppending, NotAppending
  <1>4. CASE op.kind = "write" /\ op' = GrowOrWrite([op EXCEPT !.last = op.new, !.need = op.need - 1])
    <2> DEFINE o == [op EXCEPT !.last = op.new, !.need = op.need - 1]
    <2>1. op.need - 1 \in Nat
      BY <1>1, <1>4 DEF Before, TypeInv, TypeOK, CallOK, Call
    <2>2. o \in Call /\ o.last = op.new
      <3> HIDE DEF Operations, Steps
      <3> QED BY <1>1, <1>4, <2>1 DEF Call
    <2>3. op' = GrowOrWrite(o)
      BY <1>4
    <2> HIDE DEF o
    <2>4. CASE o.need > 0
      <3>1. op'.step = "mark" /\ op'.last = op.new
        BY <2>2, <2>3, <2>4 DEF GrowOrWrite, Call
      <3> QED BY <1>2, <3>1 DEF AppendSound, EndOfChain, Free
    <2>5. CASE ~(o.need > 0)
      <3>1. op'.step \in {"data", "update"}
        BY <2>2, <2>3, <2>5 DEF GrowOrWrite, DataOrUpdate, Call
      <3> QED BY <1>2, <3>1, NotAppending
    <2> QED BY <2>4, <2>5
  <1>5. CASE op' = [op EXCEPT !.slot = [cluster |-> op.new, slot |-> 0], !.step = "entry"]
    <2>1. op'.step = "entry"
      BY <1>1, <1>5 DEF Call
    <2> QED BY <1>2, <2>1, NotAppending
  <1>6. \/ Recover
        \/ op.kind = "write" /\ op' = GrowOrWrite([op EXCEPT !.last = op.new, !.need = op.need - 1])
        \/ op' = [op EXCEPT !.slot = [cluster |-> op.new, slot |-> 0], !.step = "entry"]
    BY <1>1, ProceedSafe DEF LinkCluster, Call
  <1> QED BY <1>3, <1>4, <1>5, <1>6

LEMMA FindSlotChains ==
  ASSUME Before, NoCycle, FindSlot
  PROVE  NoCycle' /\ AppendSound(op)'
  <1>1. op.step = "slot" /\ op \in Call /\ UNCHANGED fat
    BY BeforeDisk DEF FindSlot, Fail
  <1>2. NoCycle'
    BY <1>1, NoCycleKept
  <1>3. CASE \E p : op' = [op EXCEPT !.slot = LocationOf(op.dir, p), !.step = "entry"]
    <2>1. op'.step = "entry"
      BY <1>1, <1>3 DEF Call
    <2> QED BY <1>2, <2>1, NotAppending
  <1>4. CASE \E last \in LastCluster(op.dir) : op' = [op EXCEPT !.last = last, !.step = "mark"]
    <2>1. PICK last \in LastCluster(op.dir) : op' = [op EXCEPT !.last = last, !.step = "mark"]
      BY <1>4
    <2>2. op'.step = "mark" /\ op'.last = last
      BY <1>1, <2>1 DEF Call
    <2>3. fat[last] # Free
      BY DEF LastCluster, EndOfChain, Free
    <2> QED BY <1>1, <1>2, <2>2, <2>3 DEF AppendSound
  <1>5. CASE Recover
    BY <1>2, <1>5, RecoverNotAppending, NotAppending
  <1> QED BY <1>3, <1>4, <1>5 DEF FindSlot, Fail

(* Ending a chain early, or freeing a cluster, only takes links away.      *)
LEMMA CutChainChains ==
  ASSUME Before, NoCycle, CutChain
  PROVE  NoCycle' /\ AppendSound(op)'
  <1>1. op.step = "cut" /\ op \in Call /\ Disk /\ EndOfChain \notin Clusters
    BY BeforeDisk DEF CutChain, EndOfChain, Clusters
  <1>2. \A c \in Clusters : fat'[c] = fat[c] \/ fat'[c] \notin Clusters
    <2>1. fat' = fat \/ \E k : fat' = [fat EXCEPT ![k] = EndOfChain]
      BY DEF CutChain, Fail
    <2> QED BY <1>1, <2>1 DEF Disk
  <1>3. CASE Recover
    BY <1>2, <1>3, RecoverNotAppending, NotAppending, NoCycleKept
  <1>4. CASE op' = DataOrUpdate(op) \/ \E tail : op' = [op EXCEPT !.cur = tail, !.step = "free"]
    <2>1. op'.step \in {"data", "update", "free"}
      BY <1>1, <1>4 DEF DataOrUpdate, Call
    <2> QED BY <1>2, <2>1, NotAppending, NoCycleKept
  <1> QED BY <1>3, <1>4, ProceedSafe DEF CutChain, Fail

LEMMA FreeClusterChains ==
  ASSUME Before, NoCycle, FreeCluster
  PROVE  NoCycle' /\ AppendSound(op)'
  <1>1. op.step = "free" /\ op \in Call /\ Disk /\ Free \notin Clusters
    BY BeforeDisk DEF FreeCluster, Free, Clusters
  <1>2. \A c \in Clusters : fat'[c] = fat[c] \/ fat'[c] \notin Clusters
    BY <1>1 DEF FreeCluster, Disk
  <1>3. NoCycle'
    BY <1>2, NoCycleKept
  <1>4. CASE Recover
    BY <1>3, <1>4, RecoverNotAppending, NotAppending
  <1>5. CASE \/ op' = DataOrUpdate(op) \/ op' = Idle
             \/ op' = [op EXCEPT !.cur = fat[op.cur]] \/ op' = [op EXCEPT !.step = "unlink"]
    <2>1. op'.step \in {"data", "update", "idle", "free", "unlink"}
      BY <1>1, <1>5 DEF DataOrUpdate, Idle, Call
    <2> QED BY <1>3, <2>1, NotAppending
  <1>6. \/ Recover \/ op' = DataOrUpdate(op) \/ op' = Idle
        \/ op' = [op EXCEPT !.cur = fat[op.cur]] \/ op' = [op EXCEPT !.step = "unlink"]
    BY ProceedSafe, WriteFailsSafe DEF FreeCluster, Finish
  <1> QED BY <1>4, <1>5, <1>6

(* The steps that write no table entry and append nothing.                 *)
LEMMA OtherStepsChains ==
  ASSUME Before, NoCycle,
         \/ DiskFull \/ WriteDots \/ WriteEntry \/ UnlinkEntry \/ UndoEntry \/ WriteData
         \/ UpdateEntry \/ WriteLost \/ PowerLoss
  PROVE  NoCycle' /\ AppendSound(op)'
  <1>1. UNCHANGED fat /\ op \in Call
    BY BeforeDisk DEF DiskFull, Fail, WriteDots, WriteEntry, UnlinkEntry, UndoEntry, WriteData,
       UpdateEntry, WriteLost, PowerLoss
  <1>2. NoCycle'
    BY <1>1, NoCycleKept
  <1>3. CASE \/ DiskFull \/ UnlinkEntry \/ UndoEntry \/ UpdateEntry \/ WriteLost \/ PowerLoss
    <2>1. Recover \/ Complete \/ op' = Idle
      BY <1>3, WriteFailsSafe
         DEF DiskFull, Fail, UnlinkEntry, UndoEntry, UpdateEntry, WriteLost, PowerLoss, Finish
    <2>2. Idle.step = "idle"
      BY DEF Idle
    <2>3. op'.step \notin Appending
      BY <2>1, <2>2, RecoverNotAppending, CompleteNotAppending
    <2> QED BY <1>2, <2>3, NotAppending
  <1>4. CASE WriteDots
    <2>1. op'.step \notin Appending
      BY <1>1, <1>4, RecoverNotAppending, ProceedSafe DEF WriteDots, Call
    <2> QED BY <1>2, <2>1, NotAppending
  <1>5. CASE WriteEntry
    <2>1. CASE Complete
      BY <1>2, <2>1, CompleteNotAppending, NotAppending
    <2>2. CASE Proceed([op EXCEPT !.step = IF op.entry.kind = "dir" THEN "dots" ELSE "unlink"])
      <3>1. CASE op' = [op EXCEPT !.step = IF op.entry.kind = "dir" THEN "dots" ELSE "unlink"]
        <4>1. op'.step \in {"dots", "unlink"}
          BY <1>1, <3>1 DEF Call
        <4> QED BY <1>2, <4>1, NotAppending
      <3>2. CASE Recover
        BY <1>2, <3>2, RecoverNotAppending, NotAppending
      <3> QED BY <2>2, <3>1, <3>2, ProceedSafe
    <2> QED BY <1>5, <2>1, <2>2 DEF WriteEntry
  <1>6. CASE WriteData
    <2> DEFINE o == [op EXCEPT !.pos = op.pos + 1]
    <2>1. Recover \/ op' = DataOrUpdate(o)
      BY <1>1, <1>6, ProceedSafe DEF WriteData, Fail, Call
    <2>2. DataOrUpdate(o).step \in {"data", "update"}
      BY <1>1 DEF DataOrUpdate, Call
    <2>3. op'.step \notin Appending
      BY <2>1, <2>2, RecoverNotAppending
    <2> QED BY <1>2, <2>3, NotAppending
  <1> QED BY <1>3, <1>4, <1>5, <1>6

(* A write appends to the end of the file's chain, the other calls begin   *)
(* with nothing to append to.                                              *)
LEMMA ResizeAppends ==
  ASSUME NEW call \in Call, call.kind = "write", ChainEnds(call.first), call.step = "idle"
  PROVE  AppendSound(Resize(call))
  <1> DEFINE required == RequiredClusters(call.entry.size)
             have     == fat32_chain_length(call.first)
             last     == IF call.first = Free THEN Free
                         ELSE CHOOSE l \in LastCluster(call.first) : TRUE
             need     == required - have
             o        == [call EXCEPT !.need = need, !.last = last]
  <1>1. last # Free => last \in Clusters /\ fat[last] # Free
    BY DEF ChainEnds, LastCluster, ChainSet, EndOfChain, Free
  <1>2. \/ Resize(call) = DataOrUpdate(call)
        \/ Resize(call) = [call EXCEPT !.first = Free, !.cur = call.first, !.step = "free"]
        \/ Resize(call) = [call EXCEPT !.need = required, !.step = "cut"]
        \/ Resize(call) = GrowOrWrite(o)
    BY DEF Resize
  <1>3. ASSUME NEW n, \/ n = DataOrUpdate(call)
                      \/ n = [call EXCEPT !.first = Free, !.cur = call.first, !.step = "free"]
                      \/ n = [call EXCEPT !.need = required, !.step = "cut"]
                      \/ n = GrowOrWrite(o)
        PROVE  AppendSound(n)
    <2> HIDE DEF required, last, need
    <2>1. CASE n = GrowOrWrite(o)
      <3>1. n.step \in {"mark", "data", "update"} /\ n.last = last
        BY <2>1 DEF GrowOrWrite, DataOrUpdate, Call
      <3> QED BY <1>1, <3>1 DEF AppendSound
    <2>2. CASE n # GrowOrWrite(o)
      <3>1. n.step \in {"data", "update", "free", "cut"}
        BY <1>3, <2>2 DEF DataOrUpdate, Call
      <3> QED BY <3>1 DEF AppendSound
    <2> QED BY <2>1, <2>2
  <1> QED BY <1>2, <1>3

LEMMA RequestChains ==
  ASSUME Before, NoCycle, Request
  PROVE  NoCycle' /\ AppendSound(op)'
  <1>1. UNCHANGED fat /\ op.step = "idle"
    BY DEF Request, fat32_create_file, fat32_create_directory, fat32_write, fat32_rename,
       fat32_remove, Ready
  <1>2. NoCycle'
    BY <1>1, NoCycleKept
  <1>3. Idle \in Call /\ Idle.step = "idle" /\ Idle.last = Free
    BY IdleType DEF Idle
  <1>4. CASE Refuse
    <2>1. op'.step = "idle"
      BY <1>3, <1>4 DEF Refuse, Finish
    <2> QED BY <1>2, <2>1, NotAppending
  <1>5. ASSUME NEW path \in Paths, fat32_create_file(path)
        PROVE  Refuse \/ op'.step = "slot"
    BY <1>3, <1>5 DEF fat32_create_file, Begin, Call
  <1>6. ASSUME NEW path \in Paths, fat32_create_directory(path)
        PROVE  Refuse \/ (op'.step = "mark" /\ op'.last = Free)
    <2>1. Refuse \/ \E entry, dir : op' = [Idle EXCEPT !.kind = "create_directory", !.step = "mark",
                                                      !.dir = dir, !.entry = entry]
      BY <1>6 DEF fat32_create_directory, Begin
    <2> QED BY <1>3, <2>1 DEF Call
  <1>7. ASSUME NEW path \in Paths, fat32_remove(path)
        PROVE  Refuse \/ op'.step \in {"unlink", "free"}
    BY <1>3, <1>7 DEF fat32_remove, Begin, Call
  <1>8. ASSUME NEW path \in Paths, NEW new_path \in Paths, fat32_rename(path, new_path)
        PROVE  Refuse \/ op'.step \in {"entry", "slot"}
    <2>1. \A loc, from, to, name : RenameCall(loc, from, to, name).step \in {"entry", "slot"}
      BY <1>3 DEF RenameCall, Call
    <2> QED BY <1>8, <2>1 DEF fat32_rename, Begin
  <1>9. ASSUME NEW path \in Paths, NEW offset \in Offsets, NEW length \in Lengths,
               fat32_write(path, offset, length)
        PROVE  Refuse \/ AppendSound(op)'
    <2> SUFFICES ASSUME NEW loc \in Lookup(path), ChainEnds(EntryAt(loc).first),
                        offset + length < Word,
                        Begin(Resize(WriteCall(loc, EntryAt(loc), offset, length)))
                 PROVE  AppendSound(op)'
      BY <1>9 DEF fat32_write
    <2> DEFINE call == WriteCall(loc, EntryAt(loc), offset, length)
    <2>1. loc \in Location /\ EntryAt(loc) \in Entry
      BY LookupType, BeforeDisk, FirstType
    <2> DEFINE size == NewSize(EntryAt(loc), offset, length)
    <2>2. /\ call \in Call /\ call.kind = "write" /\ call.at = loc /\ call.first = EntryAt(loc).first
          /\ call.entry = [EntryAt(loc) EXCEPT !.size = size]
          /\ call.entry.size = size /\ call.step = "idle"
      <3>1. /\ TypeInv /\ loc \in Location /\ EntryAt(loc) \in Entry
            /\ offset \in Offsets /\ length \in Lengths /\ offset + length < Word
        BY <2>1 DEF Before
      <3> QED BY ONLY <3>1, WriteCallFields
    <2> HIDE DEF call
    <2>3. AppendSound(Resize(call))
      BY <2>2, ResizeAppends
    <2> QED BY <1>1, <2>3 DEF call, Begin, AppendSound
  <1> QED BY <1>2, <1>4, <1>5, <1>6, <1>7, <1>8, <1>9, NotAppending DEF Request, AppendSound

LEMMA NextChains ==
  ASSUME Before, NoCycle, AppendSound(op), [Next]_vars
  PROVE  NoCycle' /\ AppendSound(op)'
  <1>1. CASE Request
    BY <1>1, RequestChains
  <1>2. CASE Step
    BY <1>2, FindSlotChains, MarkClusterChains, ZeroClusterChains, LinkClusterChains,
       CutChainChains, FreeClusterChains, OtherStepsChains DEF Step
  <1>3. CASE WriteLost \/ PowerLoss
    BY <1>3, OtherStepsChains
  <1>4. CASE UNCHANGED vars
    BY <1>4 DEF vars, NoCycle, AppendSound
  <1> QED BY <1>1, <1>2, <1>3, <1>4 DEF Next

(* At every moment of every call, with any disk faults outside the windows *)
(* of Fat32, no chain of the allocation table runs into itself: only a     *)
(* cluster that ends a chain of its own is ever appended to another.       *)
THEOREM Fat32ChainsFinite == Spec => []ChainsFinite
  <1> DEFINE Inv == TypeInv /\ Ownership /\ ChainsFinite
  <1>1. Init => Inv
    <2> SUFFICES ASSUME Init PROVE Inv
      OBVIOUS
    <2>1. TypeInv /\ Ownership
      BY InitType, InitSound DEF Ownership, TypeInv
    <2>2. \A c \in Clusters : fat[c] \notin Clusters
      BY DEF Init, Clusters, EndOfChain, Free
    <2>3. op.step = "idle"
      BY DEF Init, Idle
    <2> QED BY <2>1, <2>2, <2>3 DEF ChainsFinite, NoCycle, AppendSound
  <1>2. Inv /\ [Next]_vars => Inv'
    <2> SUFFICES ASSUME Inv, [Next]_vars PROVE Inv'
      OBVIOUS
    <2>1. TypeInv'
      BY NextType
    <2>2. ~damaged' => ~damaged
      BY DamageStays DEF TypeInv, TypeOK
    <2>3. ~damaged' => Sound(op)' /\ NoCycle' /\ AppendSound(op)'
      BY <2>1, <2>2, NextSound, NextChains DEF Before, Ownership, ChainsFinite
    <2> QED BY <2>1, <2>3 DEF Ownership, TypeInv, ChainsFinite
  <1>3. Inv => ChainsFinite
    OBVIOUS
  <1> QED BY <1>1, <1>2, <1>3, PTL DEF Spec

(* Between two operations the chain of every entry leads to an end mark:   *)
(* no file is left with a cluster the allocator may give away, and no walk *)
(* along a chain fails.                                                    *)
THEOREM Fat32NoDanglingEntry == Spec => []NoDanglingEntry
  <1>1. TypeInv /\ Ownership /\ ChainsFinite => NoDanglingEntry
    <2> SUFFICES ASSUME TypeInv, Sound(op), NoCycle, op.step = "idle", NEW l \in LiveEntries
                 PROVE  ChainEnds(FirstOf(l))
      BY DEF Ownership, ChainsFinite, NoDanglingEntry, Quiet
    <2>1. Disk /\ TableSound /\ EntrySound(l, op) /\ op.kind # "remove"
      BY DEF Sound, TypeInv, TypeOK, CallOK, StepOK, Disk
    <2>2. FirstOf(l) \in Clusters \cup {Free}
      BY <2>1, FirstType DEF LiveEntries
    <2>3. CASE FirstOf(l) # Free
      <3>1. fat[FirstOf(l)] # Free
        BY <2>1, <2>3 DEF EntrySound
      <3>2. PICK c \in ChainSet(FirstOf(l)) : fat[c] = EndOfChain
        <4>1. fat \in TableType /\ Acyclic(fat) /\ Disjoint(fat)
          BY <2>1 DEF Disk, TableType, NoCycle, Acyclic, TableSound, Disjoint
        <4> QED BY <2>2, <2>3, <3>1, <4>1, ChainIs, ChainReachesEnd
      <3> QED BY <3>2 DEF ChainEnds, LastCluster
    <2> QED BY <2>3 DEF ChainEnds
  <1>2. TypeOK /\ Ownership => TypeInv
    BY DEF TypeInv, Ownership
  <1> QED BY <1>1, <1>2, Fat32TypeOK, Fat32Ownership, Fat32ChainsFinite, PTL

-----------------------------------------------------------------------------
(* Each step leaves everything in its place.                               *)

Placed == /\ Before /\ Sound(op)' /\ NoCycle /\ NoCycle' /\ AppendSound(op) /\ AppendSound(op)'
          /\ Volume(op) /\ LayoutOf(op)

LEMMA PlacedFacts ==
  ASSUME Placed
  PROVE  /\ Disk /\ Disk' /\ op \in Call /\ op' \in Call /\ StepOK(op) /\ StepOK(op)' /\ CallOK(op)
         /\ CallSound(op) /\ TableSound /\ TableSound' /\ \A l \in LiveEntries : EntrySound(l, op)
         /\ Separate /\ Sound(op) /\ Volume(op)
         /\ DirectoryRight(op) /\ LastRight(op) /\ SlotRight(op) /\ CreateRight(op)
         /\ NewDirectoryRight(op) /\ WriteRight(op) /\ RenameRight(op) /\ RemoveRight(op)
         /\ op.step = "link" => Blank(op.new)
  <1>1. /\ Disk /\ Disk' /\ op \in Call /\ op' \in Call /\ StepOK(op) /\ StepOK(op)'
        /\ CallSound(op) /\ TableSound /\ \A l \in LiveEntries : EntrySound(l, op)
    BY BeforeDisk DEF Placed
  <1>2. CallOK(op) /\ Sound(op) /\ TableSound'
    BY DEF Placed, Before, TypeInv, Sound
  <1>3. /\ Volume(op)
        /\ DirectoryRight(op) /\ LastRight(op) /\ SlotRight(op) /\ CreateRight(op)
        /\ NewDirectoryRight(op) /\ WriteRight(op) /\ RenameRight(op) /\ RemoveRight(op)
        /\ op.step = "link" => Blank(op.new)
    BY DEF Placed, LayoutOf
  <1>4. Separate
    BY <1>1, <1>2, <1>3, IsSeparate DEF Placed, Volume
  <1> QED BY <1>1, <1>2, <1>3, <1>4

LEMMA PlacedIdle ==
  ASSUME op' = Idle, NEW n, n = Idle, Volume(n)'
  PROVE  Volume(op)' /\ LayoutOf(op)'
  <1>1. op'.kind = "none" /\ op'.step = "idle"
    BY DEF Idle
  <1>2. Volume(op)'
    BY DEF Volume, DotsRight, Moving
  <1>3. LayoutOf(op)'
    BY <1>1 DEF LayoutOf, DirectoryRight, LastRight, SlotRight, CreateRight, NewDirectoryRight,
       WriteRight, RenameRight, RemoveRight, Enters
  <1> QED BY <1>2, <1>3

LEMMA PlacedRecover ==
  ASSUME Recover, NEW n \in Call, n = op, Volume(n)', RenameRight(n)',
         n.step \notin {"unlink", "undo"}
  PROVE  Volume(op)' /\ LayoutOf(op)'
  <1>1. CASE /\ n.kind = "create_directory" /\ n.first # Free
             /\ op' = [n EXCEPT !.step = "free", !.cur = n.first]
    <2>1. op'.kind = "create_directory" /\ op'.step = "free" /\ op'.first # Free
      BY <1>1 DEF Call
    <2>2. Volume(op)'
      BY <1>1, <2>1 DEF Volume, DotsRight, Moving
    <2>3. LayoutOf(op)'
      BY <2>1 DEF LayoutOf, DirectoryRight, LastRight, SlotRight, CreateRight, NewDirectoryRight,
         WriteRight, RenameRight, RemoveRight, Enters
    <2> QED BY <2>2, <2>3
  <1>2. CASE n.kind = "rename" /\ n.step = "dots" /\ op' = [n EXCEPT !.step = "undo"]
    <2>1. /\ op'.kind = "rename" /\ op'.step = "undo" /\ op'.at = n.at /\ op'.slot = n.slot
          /\ op'.entry = n.entry /\ op'.dir = n.dir
      BY <1>2 DEF Call
    <2>2. Volume(op)'
      BY <1>2, <2>1 DEF Volume, DotsRight, Moving
    <2>3. RenameRight(op)'
      BY <1>2, <2>1 DEF RenameRight
    <2>4. LayoutOf(op)'
      BY <2>1, <2>3 DEF LayoutOf, DirectoryRight, LastRight, SlotRight, CreateRight, NewDirectoryRight,
         WriteRight, RemoveRight, Enters
    <2> QED BY <2>2, <2>4
  <1>3. CASE op' = Idle /\ ~(n.kind = "rename" /\ n.step = "dots")
    <2>1. PICK m : m = Idle
      OBVIOUS
    <2>2. Volume(m)'
      BY <1>3 DEF Volume, DotsRight, Moving
    <2> QED BY <1>3, <2>1, <2>2, PlacedIdle
  <1> QED BY <1>1, <1>2, <1>3 DEF Recover, Finish

(* While entries stay where they are.                                      *)
LEMMA EntriesFrame ==
  ASSUME LiveEntries' = LiveEntries, DirectoryHeads' = DirectoryHeads,
         \A l \in LiveEntries : EntryAt(l)' = EntryAt(l),
         \A l \in LiveEntries : \A d : Within(l, d)' <=> Within(l, d), NEW n
  PROVE  /\ DirectoryRight(n) => DirectoryRight(n)'
         /\ RenameRight(n) => RenameRight(n)'
  <1>1. DirectoryRight(n) => DirectoryRight(n)'
    BY DEF DirectoryRight, Enters
  <1>2. RenameRight(n) => RenameRight(n)'
    BY DEF RenameRight
  <1> QED BY <1>1, <1>2

LEMMA UnchangedFrame ==
  ASSUME UNCHANGED <<fat, slots>>, NEW n
  PROVE  /\ Volume(n) => Volume(n)'
         /\ LiveEntries' = LiveEntries /\ DirectoryHeads' = DirectoryHeads
         /\ \A l : EntryAt(l)' = EntryAt(l)
         /\ \A l, d : Within(l, d)' <=> Within(l, d)
         /\ \A f : ChainSet(f)' = ChainSet(f)
         /\ DirectoryRight(n) => DirectoryRight(n)'
         /\ RenameRight(n) => RenameRight(n)'
  <1>1. \A f : ChainOf(fat', f) = ChainOf(fat, f)
    OBVIOUS
  <1>2. Volume(n) => Volume(n)'
    BY <1>1, VolumeShrunk
  <1> QED BY <1>2, ChainsKept, SlotsSame, EntriesFrame

LEMMA FailPlaced ==
  ASSUME Placed, Fail \/ WriteLost,
         op.step \notin {"unlink", "undo"}
  PROVE  Volume(op)' /\ LayoutOf(op)'
  <1>1. UNCHANGED <<fat, slots>> /\ Recover
    BY WriteFailsSafe DEF Fail, WriteLost, Placed
  <1>2. PICK n \in Call : n = op
    BY PlacedFacts
  <1> QED BY <1>1, <1>2, PlacedFacts, UnchangedFrame, PlacedRecover

(* The call goes on as before, as far as its entry is concerned.           *)
LEMMA PlacedOn ==
  ASSUME NEW n, Volume(n)', DirectoryRight(n)', RenameRight(n)',
         op'.kind = n.kind, op'.dir = n.dir, op'.at = n.at, op'.entry.name = n.entry.name,
         n.kind = "rename" => op'.entry = n.entry,
         Enters(op)' => Enters(n),
         n.kind = "rename" => /\ n.step \notin {"dots", "unlink", "undo"}
                              /\ op'.step \notin {"dots", "unlink", "undo"}
  PROVE  Volume(op)' /\ DirectoryRight(op)' /\ RenameRight(op)'
  <1>1. Volume(op)'
    BY DEF Volume, DotsRight, Moving
  <1>2. DirectoryRight(op)'
    BY DEF DirectoryRight, Enters
  <1>3. RenameRight(op)'
    BY DEF RenameRight
  <1> QED BY <1>1, <1>2, <1>3

LEMMA MarkPlaced ==
  ASSUME Placed, MarkCluster
  PROVE  Volume(op)' /\ LayoutOf(op)'
  <1>1. PICK c \in Clusters : /\ fat[c] = Free /\ fat' = [fat EXCEPT ![c] = EndOfChain]
                              /\ Proceed([op EXCEPT !.new = c, !.step = "zero"])
    BY DEF MarkCluster, Lowest, FreeClusters
  <1>2. op.step = "mark" /\ UNCHANGED slots /\ Before
    BY DEF MarkCluster, Placed
  <1>3. PICK n \in Call : n = op
    BY PlacedFacts
  <1>4. \A d \in Clusters : fat'[d] = IF d = c THEN EndOfChain ELSE fat[d]
    BY <1>1, PlacedFacts DEF Disk
  <1>5. \A f : ChainOf(fat', f) = ChainOf(fat, f)
    <2>1. Acyclic(fat) /\ Acyclic(fat')
      BY DEF Placed, NoCycle, Acyclic
    <2>2. \A d \in Clusters : fat'[d] = fat[d] \/ (fat'[d] \notin Clusters /\ fat[d] \notin Clusters)
      BY <1>1, <1>4, FreeOutside
    <2> QED BY <2>1, <2>2, ChainWithin, ChainSame
  <1>6. Volume(n)'
    <2>1. \A d \in Clusters : fat'[d] = fat[d] \/ fat'[d] \notin Clusters
      BY <1>4, FreeOutside
    <2> QED BY <1>2, <1>3, <1>5, <2>1, PlacedFacts, VolumeShrunk
  <1>7. \A l : \A d : Within(l, d)' <=> Within(l, d)
    BY <1>5, ChainNext, ChainIs DEF Within
  <1>8. DirectoryRight(n)' /\ RenameRight(n)'
    BY <1>2, <1>3, <1>7, PlacedFacts, SlotsSame, EntriesFrame
  <1>9. CASE Recover
    BY <1>2, <1>3, <1>6, <1>8, <1>9, PlacedRecover
  <1>10. CASE op' = [n EXCEPT !.new = c, !.step = "zero"]
    <2>1. /\ op'.kind = n.kind /\ op'.step = "zero" /\ op'.dir = n.dir /\ op'.entry = n.entry
          /\ op'.at = n.at /\ op'.first = n.first /\ op'.last = n.last
      BY <1>10 DEF Call
    <2>2. Volume(op)' /\ DirectoryRight(op)' /\ RenameRight(op)'
      BY <1>2, <1>3, <1>6, <1>8, <2>1, PlacedOn DEF Enters
    <2>3. \A f : ChainSet(f)' = ChainSet(f)
      BY <1>5, ChainNext, ChainIs
    <2>4. LastRight(op)'
      <3>1. CASE op.last = Free
        BY <1>2, <1>3, <2>1, <3>1, PlacedFacts, FreeOutside DEF LastRight, ChainSet
      <3>2. CASE op.last # Free
        <4>1. /\ fat[op.last] = EndOfChain /\ op.last \in Clusters
              /\ \/ op.kind = "write" /\ op.last \in ChainSet(op.first)
                 \/ /\ op.kind # "write" /\ op.last \in ChainSet(op.dir)
                    /\ KindIn(op.last, Slots - 1) # "end"
          BY <1>2, <3>2, PlacedFacts DEF LastRight, ChainSet
        <4>2. fat'[op.last] = EndOfChain
          BY <1>4, <4>1
        <4> QED BY <1>2, <1>3, <2>1, <2>3, <4>1, <4>2, SlotsSame DEF LastRight
      <3> QED BY <3>1, <3>2
    <2>5. CreateRight(op)'
      BY <1>2, <1>3, <2>1, PlacedFacts DEF CreateRight, Enters
    <2>6. NewDirectoryRight(op)'
      <3> SUFFICES ASSUME n.kind = "create_directory", n.first # Free
                   PROVE  /\ fat'[n.first] = EndOfChain
                          /\ (Dot(n.first) /\ DotDot(n.first, n.dir))'
                          /\ \A s \in Slot : s > 1 => KindIn(n.first, s)' = "end"
        BY <2>1 DEF NewDirectoryRight, Dot, DotDot
      <3>1. /\ fat[n.first] = EndOfChain /\ Dot(n.first) /\ DotDot(n.first, n.dir)
            /\ \A s \in Slot : s > 1 => KindIn(n.first, s) = "end"
        BY <1>2, <1>3, PlacedFacts DEF NewDirectoryRight
      <3>2. n.first \in Clusters
        BY DEF Call
      <3> QED BY <1>2, <1>4, <3>1, <3>2, SlotsSame
    <2>7. WriteRight(op)'
      BY <1>2, <1>3, <2>1, <2>3, PlacedFacts, SlotsSame DEF WriteRight
    <2>8. SlotRight(op)' /\ RemoveRight(op)' /\ (op'.step # "link")
      BY <2>1, <1>2, <1>3, PlacedFacts DEF SlotRight, RemoveRight, StepOK
    <2> QED BY <2>2, <2>4, <2>5, <2>6, <2>7, <2>8 DEF LayoutOf
  <1> QED BY <1>1, <1>2, <1>3, <1>9, <1>10, ProceedSafe

(* What nothing leads to is in no chain but its own, and holds no entry.   *)
LEMMA LooseOutside ==
  ASSUME Placed, NEW c, Loose(c)
  PROVE  /\ \A f : f # c => c \notin ChainSet(f)
         /\ \A d \in DirectoryHeads : d # c /\ c \notin ChainSet(d)
         /\ \A l \in LiveEntries : c \notin ChainSet(FirstOf(l))
         /\ Barren(c)
  <1>1. \A f : f # c => c \notin ChainSet(f)
    BY PlacedFacts, Chains DEF Placed, Loose
  <1>2. c # Root /\ \A l \in LiveEntries : FirstOf(l) # c
    BY DEF Loose, Named
  <1>3. \A d \in DirectoryHeads : d # c /\ c \notin ChainSet(d)
    BY <1>1, <1>2 DEF DirectoryHeads, LiveOf
  <1>4. Barren(c)
    <2> SUFFICES ASSUME NEW s \in Slot, KindIn(c, s) \in Live PROVE FALSE
      BY DEF Barren
    <2> DEFINE l == [cluster |-> c, slot |-> s]
    <2>1. l \in Location /\ l.cluster = c
      BY DEF Location, Loose
    <2>2. l \in LiveEntries
      BY <2>1 DEF LiveEntries, EntryAt, KindIn
    <2> HIDE DEF l
    <2>3. \E d \in DirectoryHeads : Within(l, d)
      BY <2>2, PlacedFacts DEF Volume, EntriesListed
    <2> QED BY <1>3, <2>1, <2>3 DEF Within
  <1> QED BY <1>1, <1>2, <1>3, <1>4

LEMMA RowMarked ==
  ASSUME Disk, NEW c \in Clusters, NEW kind \in Kinds,
         slots' = [slots EXCEPT ![c] = [s \in Slot |-> Mark(kind)]]
  PROVE  /\ \A s \in Slot : KindIn(c, s)' = kind
         /\ \A b \in Clusters \ {c} : slots'[b] = slots[b]
         /\ \A b \in Clusters \ {c} : \A s : KindIn(b, s)' = KindIn(b, s)
  <1>1. Mark(kind).kind = kind
    BY DEF Mark, fat32_build_entry
  <1>2. slots'[c] = [s \in Slot |-> Mark(kind)] /\ \A b \in Clusters \ {c} : slots'[b] = slots[b]
    BY DEF Disk
  <1> QED BY <1>1, <1>2 DEF KindIn

(* What a write does next: it marks another cluster, or writes its data.   *)
LEMMA GrowIs ==
  ASSUME NEW o \in Call
  PROVE  LET n == GrowOrWrite(o)
         IN /\ n.step \in {"mark", "data", "update"}
            /\ n.kind = o.kind /\ n.at = o.at /\ n.entry = o.entry /\ n.first = o.first
            /\ n.last = o.last /\ n.dir = o.dir /\ n.slot = o.slot
  BY DEF GrowOrWrite, DataOrUpdate, Call

(* A write goes on: only its file and the chain it appends to matter.      *)
LEMMA PlacedWrite ==
  ASSUME op'.kind = "write", StepOK(op)', NEW n, Volume(n)', n.kind = "write",
         WriteRight(op)', LastRight(op)', op'.step = "link" => Blank(op.new)'
  PROVE  Volume(op)' /\ LayoutOf(op)'
  <1>1. Volume(op)'
    BY DEF Volume, DotsRight, Moving
  <1>2. LayoutOf(op)'
    BY DEF LayoutOf, StepOK, DirectoryRight, SlotRight, CreateRight, NewDirectoryRight,
       RenameRight, RemoveRight, Enters
  <1> QED BY <1>1, <1>2

LEMMA ZeroPlaced ==
  ASSUME Placed, ZeroCluster
  PROVE  Volume(op)' /\ LayoutOf(op)'
  <1>1. /\ op.step = "zero" /\ UNCHANGED fat /\ Before /\ Disk /\ Disk' /\ Separate /\ StepOK(op)'
        /\ op.new \in Clusters /\ Loose(op.new) /\ op.new # op.first
        /\ fat[op.new] = EndOfChain /\ op.new # op.last
    BY PlacedFacts DEF ZeroCluster, Placed, AppendSound, CallOK, CallSound
  <1>2. PICK n \in Call : n = op
    BY PlacedFacts
  <1> DEFINE c == n.new
  <1>3. c \in Clusters /\ slots' = [slots EXCEPT ![c] = [s \in Slot |-> Mark("end")]]
    BY <1>1, <1>2 DEF ZeroCluster
  <1>4. /\ \A s \in Slot : KindIn(c, s)' = "end"
        /\ \A b \in Clusters \ {c} : slots'[b] = slots[b]
        /\ \A b \in Clusters \ {c} : \A s : KindIn(b, s)' = KindIn(b, s)
    BY <1>1, <1>3, RowMarked
  <1>5. Blank(c)' /\ Plain(c)' /\ Barren(c)'
    BY <1>4 DEF Blank, Plain, Barren, Live
  <1>6. /\ \A f : f # c => c \notin ChainSet(f)
        /\ \A d \in DirectoryHeads : d # c /\ c \notin ChainSet(d)
        /\ Barren(c)
    BY <1>1, <1>2, LooseOutside
  <1>7. /\ Volume(n)' /\ LiveEntries' = LiveEntries /\ DirectoryHeads' = DirectoryHeads
        /\ \A l \in LiveEntries : l.cluster # c /\ EntryAt(l)' = EntryAt(l)
        /\ \A kind : LiveOf(kind)' = LiveOf(kind)
    BY <1>1, <1>2, <1>3, <1>4, <1>5, <1>6, VolumeRow, PlacedFacts
  <1>8. /\ \A f : ChainSet(f)' = ChainSet(f)
        /\ \A l, d : Within(l, d)' <=> Within(l, d)
    BY <1>1, ChainsKept
  <1>9. DirectoryRight(n)' /\ RenameRight(n)'
    BY <1>2, <1>7, <1>8, EntriesFrame, PlacedFacts
  <1>10. CASE Recover
    BY <1>1, <1>2, <1>7, <1>9, <1>10, PlacedRecover
  <1>11. CASE n.kind = "create_directory" /\ n.first = Free /\ op' = Allocated
    <2>1. op' = [n EXCEPT !.first = n.new, !.entry.first = n.new, !.step = "dots"]
      BY <1>2, <1>11 DEF Allocated
    <2>2. /\ op'.kind = "create_directory" /\ op'.step = "dots" /\ op'.dir = n.dir /\ op'.at = n.at
          /\ op'.entry.name = n.entry.name /\ op'.entry.kind = n.entry.kind /\ op'.first = n.new
      BY <1>11, <2>1 DEF Call, Entry
    <2>3. Volume(op)' /\ DirectoryRight(op)' /\ RenameRight(op)'
      BY <1>1, <1>2, <1>7, <1>9, <1>11, <2>2, PlacedOn DEF Enters
    <2>4. CreateRight(op)'
      BY <1>1, <1>2, <1>11, <2>2, PlacedFacts, FreeOutside DEF CreateRight, Enters
    <2>5. NewDirectoryRight(op)'
      BY <1>1, <1>2, <1>5, <2>2 DEF NewDirectoryRight, Blank
    <2> QED BY <2>2, <2>3, <2>4, <2>5
            DEF LayoutOf, LastRight, SlotRight, WriteRight, RemoveRight
  <1>12. CASE n.kind = "write" /\ n.first = Free /\ op' = Allocated
    <2> DEFINE o == [n EXCEPT !.first = n.new, !.last = n.new, !.need = n.need - 1]
    <2>1. op' = GrowOrWrite(o)
      BY <1>2, <1>12 DEF Allocated, Call
    <2>2. n.need - 1 \in Nat
      BY <1>1, <1>2, <1>12, PlacedFacts DEF CallOK, Call
    <2>3. /\ o \in Call /\ o.last = c /\ o.first = c /\ o.kind = "write" /\ o.at = n.at
          /\ o.entry = n.entry
      <3> HIDE DEF Operations, Steps
      <3> QED BY <1>12, <1>3, <2>2 DEF Call
    <2> HIDE DEF o
    <2>4. /\ op'.step \in {"mark", "data", "update"} /\ op'.kind = "write" /\ op'.at = n.at
          /\ op'.entry = n.entry /\ op'.first = c /\ op'.last = c
      BY <2>1, <2>3, GrowIs
    <2>5. ChainSet(c) = {c}
      BY <1>1, <1>2, <1>3, Chains, PlacedFacts DEF Placed
    <2>6. WriteRight(op)'
      <3>1. /\ n.at \in LiveOf("file") /\ FirstOf(n.at) \in {Free, n.first}
            /\ n.entry.kind = "file" /\ n.entry.name = EntryAt(n.at).name
        BY <1>2, <1>12, PlacedFacts DEF WriteRight
      <3>2. n.at \in LiveEntries /\ EntryAt(n.at)' = EntryAt(n.at)
        BY <1>7, <3>1 DEF LiveOf
      <3>3. FirstOf(n.at)' \in {Free, c}
        BY <1>12, <3>1, <3>2 DEF FirstOf
      <3>4. \A b \in ChainSet(c)' : Plain(b)'
        BY <1>5, <1>8, <2>5
      <3> QED BY <1>7, <2>4, <3>1, <3>2, <3>3, <3>4 DEF WriteRight, FirstOf
    <2>7. LastRight(op)'
      <3>1. fat'[c] = EndOfChain /\ c \in ChainSet(c)'
        BY <1>1, <1>2, <1>8, <2>5
      <3> QED BY <2>4, <3>1 DEF LastRight
    <2> QED BY <1>1, <1>7, <1>12, <2>4, <2>6, <2>7, PlacedWrite
  <1>13. CASE /\ ~(n.kind = "create_directory" /\ n.first = Free)
              /\ ~(n.kind = "write" /\ n.first = Free) /\ op' = Allocated
    <2>1. op' = [n EXCEPT !.step = "link"]
      BY <1>2, <1>13 DEF Allocated
    <2>2. /\ op'.kind = n.kind /\ op'.step = "link" /\ op'.dir = n.dir /\ op'.at = n.at
          /\ op'.entry = n.entry /\ op'.first = n.first /\ op'.last = n.last /\ op'.new = c
      BY <2>1 DEF Call
    <2>3. Volume(op)' /\ DirectoryRight(op)' /\ RenameRight(op)'
      BY <1>1, <1>2, <1>7, <1>9, <2>2, PlacedOn DEF Enters
    <2>4. CreateRight(op)'
      BY <1>1, <1>2, <1>13, <2>2, PlacedFacts DEF CreateRight, Enters
    <2>5. Blank(op.new)'
      BY <1>5, <2>2
    <2>6. LastRight(op)'
      <3>1. /\ fat[n.last] = EndOfChain /\ n.last \in Clusters \ {c}
            /\ \/ n.kind = "write" /\ n.last \in ChainSet(n.first)
               \/ /\ n.kind # "write" /\ n.last \in ChainSet(n.dir)
                  /\ KindIn(n.last, Slots - 1) # "end"
        BY <1>1, <1>2, <1>13, PlacedFacts DEF LastRight, ChainSet
      <3>2. KindIn(n.last, Slots - 1)' = KindIn(n.last, Slots - 1)
        BY <1>4, <3>1
      <3> QED BY <1>1, <1>8, <2>2, <3>1, <3>2 DEF LastRight
    <2>7. NewDirectoryRight(op)'
      <3> SUFFICES ASSUME n.kind = "create_directory", n.first # Free
                   PROVE  /\ fat'[n.first] = EndOfChain
                          /\ (Dot(n.first) /\ DotDot(n.first, n.dir))'
                          /\ \A s \in Slot : s > 1 => KindIn(n.first, s)' = "end"
        BY <2>2 DEF NewDirectoryRight, Dot, DotDot
      <3>1. /\ fat[n.first] = EndOfChain /\ Dot(n.first) /\ DotDot(n.first, n.dir)
            /\ \A s \in Slot : s > 1 => KindIn(n.first, s) = "end"
        BY <1>1, <1>2, PlacedFacts DEF NewDirectoryRight
      <3>2. n.first \in Clusters \ {c}
        BY <1>1, <1>2 DEF Call
      <3> QED BY <1>1, <1>4, <3>1, <3>2 DEF Dot, DotDot
    <2>8. WriteRight(op)'
      <3> SUFFICES ASSUME n.kind = "write" PROVE WriteRight(op)'
        BY <2>2 DEF WriteRight
      <3>1. /\ n.at \in LiveOf("file") /\ FirstOf(n.at) \in {Free, n.first}
            /\ n.entry.kind = "file" /\ n.entry.name = EntryAt(n.at).name
            /\ \A b \in ChainSet(n.first) : Plain(b)
        BY <1>2, PlacedFacts DEF WriteRight
      <3>2. n.at \in LiveEntries /\ EntryAt(n.at)' = EntryAt(n.at)
        BY <1>7, <3>1 DEF LiveOf
      <3>3. \A b \in ChainSet(n.first) : Plain(b)'
        <4>1. \A b \in ChainSet(n.first) : b \in Clusters
          BY DEF ChainSet
        <4> QED BY <1>4, <1>5, <3>1, <4>1 DEF Plain
      <3> QED BY <1>7, <1>8, <2>2, <3>1, <3>2, <3>3 DEF WriteRight, FirstOf
    <2>9. SlotRight(op)' /\ RemoveRight(op)'
      BY <1>1, <1>2, <2>2, PlacedFacts DEF SlotRight, RemoveRight, StepOK
    <2> QED BY <2>2, <2>3, <2>4, <2>5, <2>6, <2>7, <2>8, <2>9 DEF LayoutOf
  <1> QED BY <1>1, <1>2, <1>10, <1>11, <1>12, <1>13, ProceedSafe DEF ZeroCluster

(* The call is over, one way or the other.                                 *)
LEMMA PlacedOver ==
  ASSUME Placed, op' = Idle,
         NEW n, \A l \in LiveEntries : ~Moving(n, l), UNCHANGED <<fat, slots>>, Volume(n)
  PROVE  Volume(op)' /\ LayoutOf(op)'
  <1>1. PICK m : m = Idle
    OBVIOUS
  <1>2. Volume(m)
    BY VolumeSwitch
  <1> QED BY <1>1, <1>2, UnchangedFrame, PlacedIdle

LEMMA CompleteOver ==
  ASSUME Placed, Complete \/ Recover \/ op' = Idle, op.kind # "create_directory", op.step # "dots"
  PROVE  op' = Idle
  BY WriteFailsSafe DEF Placed, Complete, Recover, Finish

LEMMA PowerLossPlaced ==
  ASSUME Placed, PowerLoss
  PROVE  Volume(op)' /\ LayoutOf(op)'
  <1>1. op' = Idle /\ UNCHANGED <<fat, slots>> /\ ~PowerWindow
    BY DEF PowerLoss, Finish, Strike, Placed, Before
  <1>2. PICK n \in Call : n = op
    BY PlacedFacts
  <1>3. \A l \in LiveEntries : ~Moving(n, l)
    BY <1>1, <1>2 DEF PowerWindow, TwiceNamed, Moving
  <1> QED BY <1>1, <1>2, <1>3, PlacedFacts, PlacedOver

LEMMA WriteLostPlaced ==
  ASSUME Placed, WriteLost
  PROVE  Volume(op)' /\ LayoutOf(op)'
  <1>1. Recover /\ UNCHANGED <<fat, slots>> /\ ~WriteWindow(FALSE)
    BY WriteFailsSafe DEF WriteLost, Placed
  <1>2. CASE op.step \notin {"unlink", "undo"}
    BY <1>2, FailPlaced
  <1>3. CASE op.step \in {"unlink", "undo"}
    <2>1. PICK n \in Call : n = op
      BY PlacedFacts
    <2>2. op.kind = "remove"
      BY <1>1, <1>3, PlacedFacts DEF WriteWindow, StepOK, Call
    <2>3. op' = Idle
      BY <1>1, <1>3, <2>2, CompleteOver
    <2>4. \A l \in LiveEntries : ~Moving(n, l)
      BY <2>1, <2>2 DEF Moving
    <2> QED BY <1>1, <2>1, <2>3, <2>4, PlacedFacts, PlacedOver
  <1> QED BY <1>2, <1>3

LEMMA DiskFullPlaced ==
  ASSUME Placed, DiskFull
  PROVE  Volume(op)' /\ LayoutOf(op)'
  BY FailPlaced DEF DiskFull

LEMMA UpdatePlaced ==
  ASSUME Placed, UpdateEntry
  PROVE  Volume(op)' /\ LayoutOf(op)'
  <1>1. op.step = "update" /\ UNCHANGED fat /\ op.kind = "write"
    BY PlacedFacts DEF UpdateEntry, StepOK, Call
  <1>2. PICK n \in Call : n = op
    BY PlacedFacts
  <1> DEFINE e == [n.entry EXCEPT !.first = n.first]
  <1>3. PutEntry(n.at, e)
    BY <1>2 DEF UpdateEntry
  <1>4. e.kind = n.entry.kind /\ e.name = n.entry.name /\ e.first = n.first
    BY DEF Call, Entry
  <1> HIDE DEF e
  <1>5. op' = Idle
    BY <1>1, CompleteOver DEF UpdateEntry
  <1>6. PICK m : m = Idle
    OBVIOUS
  <1>7. /\ n.at \in LiveEntries /\ EntryAt(n.at).kind = "file"
        /\ n.entry.kind = "file" /\ n.entry.name = EntryAt(n.at).name
        /\ \A c \in ChainSet(n.first) : Plain(c)
    BY <1>1, <1>2, PlacedFacts DEF WriteRight, LiveOf
  <1>8. \A l \in LiveEntries, d \in DirectoryHeads :
          l # n.at /\ Within(l, d) /\ Within(n.at, d) => EntryAt(l).name # e.name
    BY <1>4, <1>7, PlacedFacts DEF Volume, NamesApart
  <1>9. \A l \in LiveEntries : ~Moving(op, l)
    BY <1>1 DEF Moving
  <1>10. Volume(m)'
    BY <1>1, <1>3, <1>4, <1>7, <1>8, <1>9, PlacedFacts, VolumeUpdate
  <1> QED BY <1>5, <1>6, <1>10, PlacedIdle

LEMMA UnlinkPlaced ==
  ASSUME Placed, UnlinkEntry
  PROVE  Volume(op)' /\ LayoutOf(op)'
  <1>1. op.step = "unlink" /\ UNCHANGED fat /\ op.kind \in {"rename", "remove"}
    BY PlacedFacts DEF UnlinkEntry, StepOK, Call
  <1>2. PICK n \in Call : n = op
    BY PlacedFacts
  <1>3. op' = Idle
    BY <1>1, CompleteOver DEF UnlinkEntry
  <1>4. PICK m : m = Idle
    OBVIOUS
  <1>5. PutEntry(n.at, Mark("deleted")) /\ n.at \in LiveEntries
    BY <1>1, <1>2, PlacedFacts DEF UnlinkEntry, RenameRight, RemoveRight
  <1>6. EntryAt(n.at).kind = "dir" =>
           \/ FirstOf(n.at) \in DirectoryHeads'
           \/ \A c \in ChainSet(FirstOf(n.at)) : Barren(c)
    <2> SUFFICES ASSUME EntryAt(n.at).kind = "dir"
                 PROVE  \/ FirstOf(n.at) \in DirectoryHeads'
                        \/ \A c \in ChainSet(FirstOf(n.at)) : Barren(c)
      OBVIOUS
    <2>1. CASE n.kind = "remove"
      BY <1>2, <1>5, <2>1, PlacedFacts DEF RemoveRight, CallSound
    <2>2. CASE n.kind = "rename"
      <3>1. /\ n.slot \in LiveEntries /\ n.slot # n.at /\ EntryAt(n.slot) = n.entry
            /\ n.entry = [EntryAt(n.at) EXCEPT !.name = n.entry.name]
        BY <1>1, <1>2, <2>2, PlacedFacts DEF RenameRight
      <3>2. n.at \in Location /\ n.slot \in Location /\ EntryAt(n.at) \in Entry
        BY <1>5, <3>1, PlacedFacts, FirstType DEF LiveEntries
      <3>3. EntryAt(n.slot).kind = "dir" /\ FirstOf(n.slot) = FirstOf(n.at)
        BY <3>1, <3>2 DEF Entry, FirstOf
      <3>4. EntryAt(n.slot)' = EntryAt(n.slot) /\ n.slot \in LiveEntries'
        BY <1>5, <3>1, <3>2, PlacedFacts, SlotPut
      <3>5. n.slot \in LiveOf("dir")' /\ FirstOf(n.slot)' = FirstOf(n.at)
        BY <3>3, <3>4 DEF LiveOf, FirstOf
      <3> QED BY <3>5 DEF DirectoryHeads
    <2> QED BY <1>1, <1>2, <2>1, <2>2
  <1>7. \A l \in LiveEntries : l # n.at => ~Moving(n, l)
    BY <1>1, <1>2 DEF Moving
  <1>8. Volume(m)'
    BY <1>1, <1>2, <1>5, <1>6, <1>7, PlacedFacts, VolumeDrop
  <1> QED BY <1>3, <1>4, <1>8, PlacedIdle

LEMMA UndoPlaced ==
  ASSUME Placed, UndoEntry
  PROVE  Volume(op)' /\ LayoutOf(op)'
  <1>1. op.step = "undo" /\ UNCHANGED fat /\ op.kind = "rename"
    BY PlacedFacts DEF UndoEntry, StepOK, Call
  <1>2. PICK n \in Call : n = op
    BY PlacedFacts
  <1>3. op' = Idle
    <2>1. Recover \/ op' = Idle
      BY WriteFailsSafe DEF UndoEntry, Finish, Placed
    <2> QED BY <1>1, <2>1, CompleteOver
  <1>4. PICK m : m = Idle
    OBVIOUS
  <1>5. /\ n.slot \in LiveEntries /\ n.slot # n.at /\ EntryAt(n.slot) = n.entry
        /\ n.entry = [EntryAt(n.at) EXCEPT !.name = n.entry.name]
        /\ n.at \in LiveEntries /\ PutEntry(n.slot, Mark("deleted"))
    BY <1>1, <1>2, PlacedFacts DEF UndoEntry, RenameRight
  <1>6. EntryAt(n.slot).kind = "dir" => FirstOf(n.slot) \in DirectoryHeads'
    <2> SUFFICES ASSUME EntryAt(n.slot).kind = "dir" PROVE FirstOf(n.slot) \in DirectoryHeads'
      OBVIOUS
    <2>1. n.at \in Location /\ n.slot \in Location /\ EntryAt(n.at) \in Entry
      BY <1>5, PlacedFacts, FirstType DEF LiveEntries
    <2>2. EntryAt(n.at).kind = "dir" /\ FirstOf(n.slot) = FirstOf(n.at)
      BY <1>5, <2>1 DEF Entry, FirstOf
    <2>3. EntryAt(n.at)' = EntryAt(n.at) /\ n.at \in LiveEntries'
      BY <1>5, <2>1, PlacedFacts, SlotPut
    <2>4. n.at \in LiveOf("dir")' /\ FirstOf(n.at)' = FirstOf(n.slot)
      BY <2>2, <2>3 DEF LiveOf, FirstOf
    <2> QED BY <2>4 DEF DirectoryHeads
  <1>7. \A l \in LiveEntries : l # n.slot => ~Moving(n, l)
    BY <1>1, <1>2 DEF Moving
  <1>8. Volume(m)'
    BY <1>1, <1>2, <1>5, <1>6, <1>7, PlacedFacts, VolumeDrop
  <1> QED BY <1>3, <1>4, <1>8, PlacedIdle

(* The chain a write works on is none of a directory.                      *)
LEMMA WriteApart ==
  ASSUME Placed, NEW n \in Call, n = op, n.kind = "write"
  PROVE  \A d \in DirectoryHeads : ChainSet(d) \cap ChainSet(n.first) = {}
  <1>1. Holds(n) /\ n.at \in LiveOf("file")
    BY PlacedFacts DEF CallSound, WriteRight
  <1>2. CASE n.first = Free
    BY <1>2, PlacedFacts, Chains, FreeOutside DEF Placed
  <1>3. CASE Loose(n.first)
    BY <1>3, PlacedFacts, Chains, LooseOutside DEF Placed, Separate, Loose
  <1>4. CASE FirstOf(n.at) = n.first
    BY <1>1, <1>4, PlacedFacts DEF Separate
  <1> QED BY <1>1, <1>2, <1>3, <1>4 DEF Holds

LEMMA WriteDataPlaced ==
  ASSUME Placed, WriteData
  PROVE  Volume(op)' /\ LayoutOf(op)'
  <1>1. op.step = "data" /\ op.kind = "write"
    BY PlacedFacts DEF WriteData, StepOK, Call
  <1>2. CASE Fail
    BY <1>1, <1>2, FailPlaced
  <1>3. CASE ~Fail
    <2>1. PICK n \in Call : n = op
      BY PlacedFacts
    <2> DEFINE o == [n EXCEPT !.pos = n.pos + 1]
    <2>2. PICK c \in Clusters :
            /\ c = ClusterAt(n.first, n.pos)
            /\ slots' = [slots EXCEPT ![c] = [s \in Slot |-> Mark("data")]]
            /\ Proceed(DataOrUpdate(o)) /\ UNCHANGED fat
      BY <1>3, <2>1 DEF WriteData, Call
    <2>3. c \in ChainSet(n.first)
      BY <2>2, FreeOutside DEF ClusterAt, ChainSet
    <2>4. o \in Call /\ o.kind = "write" /\ o.at = n.at /\ o.entry = n.entry /\ o.first = n.first
      BY <1>1, <2>1 DEF Call
    <2> HIDE DEF o
    <2>5. /\ \A s \in Slot : KindIn(c, s)' = "data"
          /\ \A b \in Clusters \ {c} : slots'[b] = slots[b]
          /\ \A b \in Clusters \ {c} : \A s : KindIn(b, s)' = KindIn(b, s)
      <3>1. Disk /\ "data" \in Kinds
        BY PlacedFacts
      <3> QED BY ONLY <2>2, <3>1, RowMarked
    <2>6. Plain(c)' /\ Barren(c)'
      BY <2>5 DEF Plain, Barren, Live
    <2>7. /\ n.at \in LiveOf("file") /\ FirstOf(n.at) \in {Free, n.first}
          /\ n.entry.kind = "file" /\ n.entry.name = EntryAt(n.at).name
          /\ \A b \in ChainSet(n.first) : Plain(b)
      BY <1>1, <2>1, PlacedFacts DEF WriteRight
    <2>8. Barren(c) /\ \A d \in DirectoryHeads : c \notin ChainSet(d)
      BY <1>1, <2>1, <2>3, <2>7, WriteApart DEF Plain, Barren, Live
    <2>9. /\ Volume(n)' /\ LiveEntries' = LiveEntries /\ DirectoryHeads' = DirectoryHeads
          /\ \A l \in LiveEntries : l.cluster # c /\ EntryAt(l)' = EntryAt(l)
          /\ \A kind : LiveOf(kind)' = LiveOf(kind)
      <3>1. Disk /\ Disk' /\ Separate /\ Volume(n)
        BY <2>1, PlacedFacts
      <3> QED BY ONLY <2>2, <2>5, <2>6, <2>8, <3>1, VolumeRow
    <2>10. CASE Recover
      <3>1. RenameRight(n)'
        BY <1>1, <2>1 DEF RenameRight
      <3> QED BY <1>1, <2>1, <2>9, <2>10, <3>1, PlacedRecover
    <2>11. CASE op' = DataOrUpdate(o)
      <3>1. /\ op'.step \in {"data", "update"} /\ op'.kind = "write" /\ op'.at = n.at
            /\ op'.entry = n.entry /\ op'.first = n.first
        BY <2>4, <2>11 DEF DataOrUpdate, Call
      <3>2. WriteRight(op)'
        <4>1. n.at \in LiveEntries /\ EntryAt(n.at)' = EntryAt(n.at)
          BY <2>7, <2>9 DEF LiveOf
        <4>2. \A b \in ChainSet(n.first) : Plain(b)'
          <5>1. \A b \in ChainSet(n.first) : b \in Clusters
            BY DEF ChainSet
          <5>2. \A b \in Clusters \ {c} : Plain(b) => Plain(b)'
            BY <2>5 DEF Plain
          <5> QED BY <2>6, <2>7, <5>1, <5>2 DEF Plain
        <4>3. ChainSet(n.first)' = ChainSet(n.first)
          BY <2>2, ChainsKept
        <4> QED BY <2>7, <2>9, <3>1, <4>1, <4>2, <4>3 DEF WriteRight, FirstOf
      <3> QED BY <1>1, <2>1, <2>9, <3>1, <3>2, PlacedFacts, PlacedWrite DEF LastRight
    <2> QED BY <2>2, <2>10, <2>11, ProceedSafe DEF Placed
  <1> QED BY <1>2, <1>3

LEMMA LinkPlaced ==
  ASSUME Placed, LinkCluster
  PROVE  Volume(op)' /\ LayoutOf(op)'
  <1>1. PICK n \in Call : n = op
    BY PlacedFacts
  <1> DEFINE new == n.new  last == n.last
  <1>2. /\ n.step = "link" /\ UNCHANGED slots /\ fat' = [fat EXCEPT ![last] = new]
        /\ Disk /\ Disk' /\ TableSound /\ NoCycle /\ NoCycle' /\ Separate /\ Before
    BY <1>1, PlacedFacts DEF LinkCluster, Placed
  <1>3. /\ new \in Clusters /\ Loose(new) /\ new # n.first /\ fat[new] = EndOfChain /\ new # last
        /\ Blank(new)
    BY <1>1, <1>2, PlacedFacts DEF Placed, AppendSound, CallOK, CallSound
  <1>4. /\ fat[last] = EndOfChain /\ last \in Clusters
        /\ \/ n.kind = "write" /\ last \in ChainSet(n.first)
           \/ n.kind # "write" /\ last \in ChainSet(n.dir) /\ KindIn(last, Slots - 1) # "end"
    BY <1>1, <1>2, PlacedFacts DEF LastRight, ChainSet
  <1>5. /\ \A f : ChainSet(f)' = ChainSet(f) \cup (IF last \in ChainSet(f) THEN {new} ELSE {})
        /\ \A c \in Clusters : fat'[c] = IF c = last THEN new ELSE fat[c]
    BY ONLY <1>2, <1>3, <1>4, LinkedChains
  <1>6. Volume(n)' /\ \A l \in LiveEntries : \A d : Within(l, d)' <=> Within(l, d)
    BY <1>1, <1>2, <1>3, <1>4, <1>5, PlacedFacts, VolumeLinked
  <1>7. DirectoryRight(n)' /\ RenameRight(n)'
    BY <1>1, <1>2, <1>6, PlacedFacts, SlotsSame, EntriesFrame
  <1>8. CASE Recover
    BY <1>1, <1>2, <1>6, <1>7, <1>8, PlacedRecover
  <1>9. CASE n.kind = "write" /\ op' = GrowOrWrite([n EXCEPT !.last = new, !.need = n.need - 1])
    <2> DEFINE o == [n EXCEPT !.last = new, !.need = n.need - 1]
    <2>1. op' = GrowOrWrite(o)
      BY <1>9
    <2>2. n.need - 1 \in Nat
      BY <1>1, <1>2, <1>9, PlacedFacts DEF CallOK, Call
    <2>3. /\ o \in Call /\ o.last = new /\ o.first = n.first /\ o.kind = "write" /\ o.at = n.at
          /\ o.entry = n.entry
      <3> HIDE DEF Operations, Steps
      <3> QED BY <1>3, <1>9, <2>2 DEF Call
    <2> HIDE DEF o
    <2>4. /\ op'.step \in {"mark", "data", "update"} /\ op'.kind = "write" /\ op'.at = n.at
          /\ op'.entry = n.entry /\ op'.first = n.first /\ op'.last = new
      BY <2>1, <2>3, GrowIs
    <2>5. ChainSet(n.first)' = ChainSet(n.first) \cup {new}
      BY <1>4, <1>5, <1>9
    <2>6. WriteRight(op)'
      <3>1. /\ n.at \in LiveOf("file") /\ FirstOf(n.at) \in {Free, n.first}
            /\ n.entry.kind = "file" /\ n.entry.name = EntryAt(n.at).name
            /\ \A b \in ChainSet(n.first) : Plain(b)
        BY <1>1, <1>9, PlacedFacts DEF WriteRight
      <3>2. Plain(new)
        BY <1>3 DEF Plain, Blank
      <3>3. \A b \in ChainSet(n.first)' : Plain(b)'
        BY <1>2, <2>5, <3>1, <3>2, SlotsSame
      <3> QED BY <1>2, <2>4, <3>1, <3>3, SlotsSame DEF WriteRight
    <2>7. LastRight(op)'
      <3>1. fat'[new] = EndOfChain
        BY <1>3, <1>5
      <3> QED BY <2>4, <2>5, <3>1 DEF LastRight
    <2> QED BY <1>1, <1>2, <1>6, <1>9, <2>4, <2>6, <2>7, PlacedFacts, PlacedWrite
  <1>10. CASE /\ n.kind # "write"
              /\ op' = [n EXCEPT !.slot = [cluster |-> new, slot |-> 0], !.step = "entry"]
    <2>1. /\ op'.kind = n.kind /\ op'.step = "entry" /\ op'.dir = n.dir /\ op'.at = n.at
          /\ op'.entry = n.entry /\ op'.first = n.first
          /\ op'.slot = [cluster |-> new, slot |-> 0]
      BY <1>10 DEF Call
    <2>2. Volume(op)' /\ DirectoryRight(op)' /\ RenameRight(op)'
      BY <1>1, <1>2, <1>6, <1>7, <2>1, PlacedOn DEF Enters
    <2>3. CreateRight(op)'
      BY <1>1, <1>2, <2>1, PlacedFacts DEF CreateRight, Enters
    <2>4. SlotRight(op)'
      <3> DEFINE loc == [cluster |-> new, slot |-> 0]
      <3>1. loc.cluster = new /\ loc.slot = 0
        OBVIOUS
      <3> HIDE DEF loc
      <3>2. Within(loc, n.dir)'
        BY <1>4, <1>5, <1>10, <3>1, ChainNext DEF Within
      <3>3. EntryAt(loc).kind' = "end"
        BY <1>2, <1>3, <3>1, SlotNumbers DEF EntryAt, Blank, KindIn
      <3>4. \A c \in Clusters : fat'[c] = new => KindIn(c, Slots - 1)' # "end"
        <4>1. \A c \in Clusters : fat[c] # new
          BY <1>3 DEF Loose, Pointed
        <4> QED BY <1>2, <1>4, <1>5, <1>10, <4>1, SlotsSame
      <3>5. \A s \in Slot : ~(s < 0)
        BY DEF Slot
      <3>6. op'.slot = loc /\ op'.dir = n.dir /\ op'.step = "entry"
        BY <2>1 DEF loc
      <3> QED BY <3>1, <3>2, <3>3, <3>4, <3>5, <3>6 DEF SlotRight, Within, EntryAt, KindIn
    <2>5. NewDirectoryRight(op)'
      <3> SUFFICES ASSUME n.kind = "create_directory", n.first # Free
                   PROVE  /\ fat'[n.first] = EndOfChain
                          /\ (Dot(n.first) /\ DotDot(n.first, n.dir))'
                          /\ \A s \in Slot : s > 1 => KindIn(n.first, s)' = "end"
        BY <2>1 DEF NewDirectoryRight, Dot, DotDot
      <3>1. /\ fat[n.first] = EndOfChain /\ Dot(n.first) /\ DotDot(n.first, n.dir)
            /\ \A s \in Slot : s > 1 => KindIn(n.first, s) = "end"
        BY <1>1, <1>2, PlacedFacts DEF NewDirectoryRight
      <3>2. n.first \in Clusters /\ Loose(n.first) /\ n.dir \in DirectoryHeads
        BY <1>1, <1>2, PlacedFacts DEF Call, CallSound, DirectoryRight, Enters
      <3>3. n.first # last
        BY <1>4, <1>10, <3>2, LooseOutside
      <3> QED BY <1>2, <1>5, <3>1, <3>2, <3>3, SlotsSame
    <2> QED BY <1>1, <1>2, <1>10, <2>1, <2>2, <2>3, <2>4, <2>5, PlacedFacts
            DEF LayoutOf, LastRight, WriteRight, RemoveRight, StepOK
  <1>11. \/ Recover
         \/ n.kind = "write" /\ op' = GrowOrWrite([n EXCEPT !.last = new, !.need = n.need - 1])
         \/ n.kind # "write" /\ op' = [n EXCEPT !.slot = [cluster |-> new, slot |-> 0], !.step = "entry"]
    BY <1>1, <1>2, ProceedSafe DEF LinkCluster, Call
  <1> QED BY <1>8, <1>9, <1>10, <1>11

LEMMA DotsPlaced ==
  ASSUME Placed, WriteDots
  PROVE  Volume(op)' /\ LayoutOf(op)'
  <1>1. PICK n \in Call : n = op
    BY PlacedFacts
  <1>2. PICK c : c = n.first
    OBVIOUS
  <1> DEFINE dot == fat32_build_entry("dot", NoName, c, 0)
             dotdot == fat32_build_entry("dotdot", NoName, n.dir, 0)
  <1>3. /\ n.step = "dots" /\ UNCHANGED fat /\ slots' = [slots EXCEPT ![c][0] = dot, ![c][1] = dotdot]
        /\ Disk /\ Disk' /\ TableSound /\ Separate /\ Before /\ Volume(n)
        /\ n.kind \in {"create_directory", "rename"}
        /\ Recover \/ op' = [n EXCEPT !.step = IF n.kind = "rename" THEN "unlink" ELSE "slot"]
    BY <1>1, <1>2, PlacedFacts, ProceedSafe DEF WriteDots, Placed, StepOK, Call
  <1>4. CASE n.kind = "create_directory"
    <2>1. /\ Loose(c) /\ c \in Clusters /\ fat[c] = EndOfChain /\ Blank(c)
      BY <1>1, <1>2, <1>3, <1>4, PlacedFacts DEF CallSound, CreateRight, NewDirectoryRight, Loose
    <2>2. /\ \A d \in DirectoryHeads : d # c /\ c \notin ChainSet(d)
          /\ \A l \in LiveEntries : c \notin ChainSet(FirstOf(l))
          /\ Barren(c)
      BY <2>1, LooseOutside
    <2>3. /\ \A b \in Clusters \ {c} : slots'[b] = slots[b]
          /\ \A s \in Slot : slots'[c][s] = IF s = 0 THEN dot ELSE IF s = 1 THEN dotdot ELSE slots[c][s]
      <3> HIDE DEF dot, dotdot
      <3> QED BY <1>3, <2>1, SlotNumbers DEF Disk
    <2>4. (Dot(c) /\ DotDot(c, n.dir))' /\ \A s \in Slot : s > 1 => KindIn(c, s)' = "end"
      BY <2>1, <2>3, SlotNumbers DEF Dot, DotDot, KindIn, Blank
    <2>5. Barren(c)'
      <3> SUFFICES ASSUME NEW s \in Slot PROVE KindIn(c, s)' \notin Live
        BY DEF Barren
      <3>1. KindIn(c, s)' \in {"dot", "dotdot", "end"}
        BY <2>1, <2>3 DEF KindIn, Blank, fat32_build_entry
      <3> QED BY <3>1 DEF Live
    <2>6. \A l \in LiveOf("file") : c \notin ChainSet(FirstOf(l))
      BY <2>2 DEF LiveOf
    <2>7. /\ Volume(n)' /\ LiveEntries' = LiveEntries /\ DirectoryHeads' = DirectoryHeads
          /\ \A l \in LiveEntries : l.cluster # c /\ EntryAt(l)' = EntryAt(l)
      BY ONLY <1>3, <2>1, <2>2, <2>3, <2>5, <2>6, VolumeRow
    <2>8. DirectoryRight(n)' /\ RenameRight(n)'
      BY <1>1, <1>3, <2>7, ChainsKept, PlacedFacts, EntriesFrame
    <2>9. CASE Recover
      BY <1>1, <1>3, <2>7, <2>8, <2>9, PlacedRecover
    <2>10. CASE op' = [n EXCEPT !.step = "slot"]
      <3>1. /\ op'.kind = n.kind /\ op'.step = "slot" /\ op'.dir = n.dir /\ op'.at = n.at
            /\ op'.entry = n.entry /\ op'.first = c
        BY <1>2, <2>10 DEF Call
      <3>2. Volume(op)' /\ DirectoryRight(op)' /\ RenameRight(op)'
        BY <1>3, <1>4, <2>7, <2>8, <3>1, PlacedOn DEF Enters
      <3>3. CreateRight(op)'
        BY <1>1, <1>3, <1>4, <2>1, <3>1, PlacedFacts, FreeOutside DEF CreateRight, Enters
      <3>4. NewDirectoryRight(op)'
        BY <1>3, <2>1, <2>4, <3>1 DEF NewDirectoryRight, Dot, DotDot, KindIn
      <3> QED BY <1>4, <3>1, <3>2, <3>3, <3>4
              DEF LayoutOf, LastRight, SlotRight, WriteRight, RemoveRight
    <2> QED BY <1>3, <1>4, <2>9, <2>10
  <1>5. CASE n.kind = "rename"
    <2>1. op' = [n EXCEPT !.step = "unlink"]
      BY <1>1, <1>3, <1>5, ProceedSafe DEF WriteDots, WriteWindow
    <2>2. PICK m \in Call : m = op'
      BY PlacedFacts
    <2>3. /\ m.kind = "rename" /\ m.step = "unlink" /\ m.dir = n.dir /\ m.at = n.at
          /\ m.entry = n.entry /\ m.first = n.first /\ m.slot = n.slot
      BY <1>5, <2>1, <2>2 DEF Call
    <2>4. /\ n.slot \in LiveEntries /\ n.slot # n.at /\ EntryAt(n.slot) = n.entry
          /\ n.entry = [EntryAt(n.at) EXCEPT !.name = n.entry.name]
          /\ n.at \in LiveEntries /\ n.entry.kind = "dir"
          /\ n.dir \in DirectoryHeads /\ Within(n.slot, n.dir)
      BY <1>1, <1>3, <1>5, PlacedFacts DEF RenameRight
    <2>5. /\ EntryAt(n.at).kind = "dir" /\ FirstOf(n.at) = c /\ FirstOf(n.slot) = c
      <3>1. EntryAt(n.at) \in Entry
        BY <1>3, <2>4, FirstType DEF LiveEntries
      <3>2. n.entry.kind = EntryAt(n.at).kind /\ n.entry.first = EntryAt(n.at).first
        BY <2>4, <3>1 DEF Entry
      <3>3. n.entry.first = c
        BY <1>1, <1>2, <1>5, PlacedFacts DEF CallSound
      <3> QED BY <2>4, <3>2, <3>3 DEF FirstOf
    <2>6. n.at \in LiveOf("dir") /\ c \in DirectoryHeads
      BY <2>4, <2>5 DEF LiveOf, DirectoryHeads
    <2>7. Dot(c) /\ KindIn(c, 1) = "dotdot"
      <3>1. PICK d \in DirectoryHeads : Within(n.at, d)
        BY <1>3, <2>4 DEF Volume, EntriesListed
      <3>2. ~Moving(n, n.at)
        BY <1>3, <2>4 DEF Moving
      <3>3. Dot(c) /\ DotDot(c, d)
        BY <1>3, <2>5, <2>6, <3>1, <3>2 DEF Volume, DotsRight
      <3> QED BY <3>3 DEF DotDot, KindIn, fat32_build_entry
    <2>8. ASSUME NEW l \in LiveOf("dir")
          PROVE  IF FirstOf(l) = c
                 THEN Moving(m, l) \/ \A d \in DirectoryHeads : Within(l, d) => d = n.dir
                 ELSE Moving(n, l) => Moving(m, l)
      <3>1. l \in LiveEntries
        BY DEF LiveOf
      <3>2. CASE FirstOf(l) = c
        <4>1. c # Free /\ EntrySound(n.at, n)
          BY <1>1, <1>3, <2>4, <2>6, PlacedFacts, FreeOutside DEF Separate
        <4>2. l = n.at \/ Twins(n, n.at, l)
          BY <2>5, <3>1, <3>2, <4>1 DEF EntrySound
        <4>3. l = n.at \/ l = n.slot
          BY <4>2 DEF Twins
        <4>4. Moving(m, n.at)
          BY <2>3 DEF Moving
        <4>5. \A d \in DirectoryHeads : Within(n.slot, d) => d = n.dir
          BY <1>3, <2>4 DEF Separate, Within
        <4> QED BY <3>2, <4>3, <4>4, <4>5
      <3>3. CASE FirstOf(l) # c
        BY <1>3, <2>4, <2>5, <3>3 DEF Moving
      <3> QED BY <3>2, <3>3
    <2>9. /\ Volume(m)' /\ LiveEntries' = LiveEntries /\ DirectoryHeads' = DirectoryHeads
          /\ \A l \in LiveEntries : EntryAt(l)' = EntryAt(l)
      BY ONLY <1>3, <2>6, <2>7, <2>8, VolumeDots
    <2>10. RenameRight(n)'
      BY <1>1, <1>3, <2>9, ChainsKept, PlacedFacts, EntriesFrame
    <2>11. Volume(op)'
      BY <2>2, <2>9 DEF Volume, DotsRight, Moving
    <2>12. RenameRight(op)'
      BY <1>3, <1>5, <2>2, <2>3, <2>10 DEF RenameRight
    <2> QED BY <2>2, <2>3, <2>11, <2>12
            DEF LayoutOf, DirectoryRight, LastRight, SlotRight, CreateRight, NewDirectoryRight,
                WriteRight, RemoveRight, Enters
  <1> QED BY <1>3, <1>4, <1>5

LEMMA WriteEntryPlaced ==
  ASSUME Placed, WriteEntry
  PROVE  Volume(op)' /\ LayoutOf(op)'
  <1>1. PICK n \in Call : n = op
    BY PlacedFacts
  <1>2. PICK e : e = n.entry
    OBVIOUS
  <1>3. /\ n.step = "entry" /\ UNCHANGED fat /\ PutEntry(n.slot, e)
        /\ Disk /\ Disk' /\ TableSound /\ NoCycle /\ Separate /\ Before /\ Volume(n)
        /\ n.kind \in {"create_file", "create_directory", "rename"} /\ n.slot \in Location
    BY <1>1, <1>2, PlacedFacts DEF WriteEntry, Placed, StepOK, Call
  <1>4. /\ n.dir \in DirectoryHeads /\ Within(n.slot, n.dir)
        /\ \A l \in LiveEntries : Within(l, n.dir) => EntryAt(l).name # e.name
    BY <1>1, <1>2, <1>3, PlacedFacts DEF DirectoryRight, SlotRight, Enters
  <1>5. \A l : ~Moving(n, l)
    BY <1>3 DEF Moving
  <1>6. PICK m : m = Idle
    OBVIOUS
  <1>7. ~(n.kind = "rename" /\ n.slot = n.at) =>
          /\ EntryAt(n.slot).kind \in {"end", "deleted"}
          /\ \A s \in Slot : s < n.slot.slot => KindIn(n.slot.cluster, s) # "end"
          /\ n.slot.slot = 0 => \A c \in Clusters : fat[c] = n.slot.cluster => KindIn(c, Slots - 1) # "end"
    BY <1>1, <1>3, PlacedFacts DEF SlotRight
  <1>8. ChainSet(Free) = {}
    BY <1>3, Chains, FreeOutside
  <1>9. CASE n.kind = "create_file"
    <2>1. e.kind = "file" /\ e.first = Free
      BY <1>1, <1>2, <1>3, <1>9, PlacedFacts DEF CreateRight, Enters, CallSound
    <2>2. Volume(m)'
      BY <1>3, <1>4, <1>5, <1>7, <1>8, <1>9, <2>1, VolumeAdd DEF Live
    <2>3. op' = Idle
      BY <1>1, <1>3, <1>9, CompleteOver DEF WriteEntry
    <2> QED BY <1>6, <2>2, <2>3, PlacedIdle
  <1>10. CASE n.kind = "create_directory"
    <2>1. e.kind = "dir" /\ e.first = n.first /\ Loose(e.first) /\ e.first \in Clusters
      BY <1>1, <1>2, <1>3, <1>10, PlacedFacts DEF CreateRight, CallSound, Loose
    <2>2. /\ fat[e.first] = EndOfChain /\ Dot(e.first) /\ DotDot(e.first, n.dir)
          /\ \A s \in Slot : s > 1 => KindIn(e.first, s) = "end"
      BY <1>1, <1>3, <1>10, <2>1, PlacedFacts, FreeOutside DEF NewDirectoryRight
    <2>3. ChainSet(e.first) = {e.first}
      BY <1>3, <2>1, <2>2, Chains
    <2>4. Barren(e.first) /\ \A d \in DirectoryHeads : ChainSet(d) \cap ChainSet(e.first) = {}
      BY <2>1, <2>3, LooseOutside
    <2>5. EndsOnce(e.first)
      <3>1. KindIn(e.first, 0) # "end" /\ KindIn(e.first, 1) # "end"
        BY <2>2 DEF Dot, DotDot, KindIn, fat32_build_entry
      <3>2. ASSUME NEW s \in Slot, NEW t \in Slot, s < t, KindIn(e.first, s) = "end"
            PROVE  KindIn(e.first, t) = "end"
        <4>1. s > 1 /\ t > 1
          BY <3>1, <3>2 DEF Slot
        <4> QED BY <2>2, <4>1
      <3> QED BY <2>2, <3>2, FreeOutside DEF EndsOnce
    <2>6. Volume(m)'
      BY <1>3, <1>4, <1>5, <1>7, <1>10, <2>1, <2>2, <2>3, <2>4, <2>5, VolumeAdd DEF Live
    <2>7. op' = Idle
      <3>1. Complete
        BY <1>1, <1>3, <1>10 DEF WriteEntry
      <3>2. ~WriteFails(TRUE)
        BY <1>1, <1>3, <1>10, WriteFailsSafe DEF WriteWindow
      <3> QED BY <3>1, <3>2 DEF Complete, Finish
    <2> QED BY <1>6, <2>6, <2>7, PlacedIdle
  <1>11. CASE n.kind = "rename"
    <2>1. /\ n.at \in LiveEntries /\ EntryAt(n.at) \in Entry
          /\ e = [EntryAt(n.at) EXCEPT !.name = e.name]
      BY <1>1, <1>2, <1>3, <1>11, PlacedFacts, FirstType DEF RenameRight, LiveEntries
    <2>2. e.kind = EntryAt(n.at).kind /\ e.first = FirstOf(n.at) /\ e.kind \in Live
      BY <2>1 DEF Entry, FirstOf, LiveEntries
    <2>3. n.at \in LiveOf(e.kind)
      BY <2>1, <2>2 DEF LiveOf
    <2>4. e.kind = "file" => \A c \in ChainSet(e.first) : Plain(c)
      BY <1>3, <2>2, <2>3 DEF Volume, FilesPlain
    <2>5. CASE n.slot = n.at
      <3>1. \A l \in LiveEntries, d \in DirectoryHeads :
              l # n.at /\ Within(l, d) /\ Within(n.at, d) => EntryAt(l).name # e.name
        BY <1>3, <1>4, <2>5 DEF Separate, Within
      <3>2. PutEntry(n.at, e)
        BY <1>3, <2>5
      <3>3. Volume(m)'
        BY <1>3, <1>5, <2>1, <2>2, <2>4, <3>1, <3>2, VolumeUpdate
      <3>4. op' = Idle
        BY <1>1, <1>3, <1>11, <2>5, CompleteOver DEF WriteEntry
      <3> QED BY <1>6, <3>3, <3>4, PlacedIdle
    <2>6. CASE n.slot # n.at
      <3>1. op' = [n EXCEPT !.step = IF e.kind = "dir" THEN "dots" ELSE "unlink"]
        BY <1>1, <1>2, <1>3, <1>11, <2>6, ProceedSafe DEF WriteEntry, WriteWindow
      <3>2. PICK o \in Call : o = op'
        BY PlacedFacts
      <3>3. /\ o.kind = "rename" /\ o.step = (IF e.kind = "dir" THEN "dots" ELSE "unlink")
            /\ o.dir = n.dir /\ o.at = n.at /\ o.entry = e /\ o.slot = n.slot
        BY <1>2, <1>11, <3>1, <3>2 DEF Call
      <3>4. \/ e.kind = "dir" /\ e.first \in DirectoryHeads
            \/ \A d \in DirectoryHeads : ChainSet(d) \cap ChainSet(e.first) = {}
        BY <1>3, <2>2, <2>3 DEF Separate, DirectoryHeads, Live
      <3>5. e.kind = "dir" => e.first \in DirectoryHeads /\ e.first \in Clusters /\ Dot(e.first)
        BY <1>3, <2>2, <2>3 DEF Separate, DirectoryHeads, Volume, DotsRight
      <3>6. e.kind = "dir" => Moving(o, n.slot)
        BY <3>3 DEF Moving
      <3>7. Volume(o)'
        BY <1>3, <1>4, <1>5, <1>7, <2>2, <2>4, <2>6, <3>4, <3>5, <3>6, VolumeAdd
      <3>8. /\ n.at \in LiveEntries' /\ EntryAt(n.at)' = EntryAt(n.at)
            /\ n.slot \in LiveEntries' /\ EntryAt(n.slot)' = e
        BY <1>3, <2>1, <2>2, <2>6, SlotPut
      <3>9. n.dir \in DirectoryHeads'
        <4>1. ASSUME NEW l \in LiveOf("dir") PROVE l \in LiveOf("dir")' /\ FirstOf(l)' = FirstOf(l)
          <5>1. l \in Location /\ l # n.slot
            BY <1>7, <1>11, <2>6 DEF LiveOf, LiveEntries, Live
          <5>2. EntryAt(l)' = EntryAt(l)
            BY <1>3, <5>1, SlotPut
          <5> QED BY <5>1, <5>2 DEF LiveOf, LiveEntries, FirstOf
        <4> QED BY <1>4, <4>1 DEF DirectoryHeads
      <3>10. Within(n.slot, n.dir)'
        BY <1>3, <1>4, ChainsKept
      <3>11. RenameRight(op)'
        BY <2>1, <2>6, <3>2, <3>3, <3>8, <3>9, <3>10 DEF RenameRight
      <3>12. Volume(op)'
        BY <3>2, <3>7 DEF Volume, DotsRight, Moving
      <3> QED BY <3>2, <3>3, <3>11, <3>12
              DEF LayoutOf, DirectoryRight, LastRight, SlotRight, CreateRight, NewDirectoryRight,
                  WriteRight, RemoveRight, Enters
    <2> QED BY <2>5, <2>6
  <1> QED BY <1>3, <1>9, <1>10, <1>11

(* The slots of a directory in the order of the scans, and back.           *)
LEMMA PositionParts ==
  ASSUME NEW p \in 0 .. N * Slots - 1
  PROVE  /\ p \div Slots \in 0 .. N - 1 /\ p % Slots \in Slot
         /\ p = (p \div Slots) * Slots + (p % Slots)
  <1>1. p \in Nat /\ Slots \in Nat \ {0} /\ N \in Nat
    OBVIOUS
  <1>2. p % Slots \in Slot
    BY <1>1 DEF Slot
  <1>3. p = (p \div Slots) * Slots + (p % Slots)
    BY <1>1
  <1>4. p \div Slots \in 0 .. N - 1
    <2> DEFINE k == p \div Slots
    <2>1. k \in Nat
      BY <1>1
    <2>2. ASSUME k >= N PROVE FALSE
      <3>1. k * Slots >= N * Slots
        BY <1>1, <2>1, <2>2
      <3>2. k * Slots \in Nat /\ N * Slots \in Nat /\ p >= k * Slots
        BY <1>1, <1>2, <1>3, <2>1 DEF Slot
      <3>3. p < N * Slots
        BY <3>2
      <3> QED BY <3>1, <3>2, <3>3
    <2> QED BY <2>1, <2>2
  <1> QED BY <1>2, <1>3, <1>4

LEMMA PositionOf ==
  ASSUME NEW k \in 0 .. N - 1, NEW s \in Slot
  PROVE  /\ k * Slots + s \in 0 .. N * Slots - 1
         /\ (k * Slots + s) \div Slots = k /\ (k * Slots + s) % Slots = s
  <1>1. k \in Nat /\ s \in Nat /\ s < Slots /\ Slots \in Nat \ {0} /\ N \in Nat /\ k <= N - 1
    BY DEF Slot
  <1>2. (k * Slots + s) \div Slots = k
    BY ONLY <1>1
  <1>3. (k * Slots + s) % Slots = s
    BY ONLY <1>1
  <1>4. k * Slots <= (N - 1) * Slots /\ (N - 1) * Slots = N * Slots - Slots
    BY ONLY <1>1
  <1>5. k * Slots \in Nat /\ N * Slots \in Nat
    BY ONLY <1>1
  <1>6. k * Slots + s \in 0 .. N * Slots - 1
    BY <1>1, <1>4, <1>5
  <1> QED BY <1>2, <1>3, <1>6

LEMMA PositionIn ==
  ASSUME NEW d, NEW p \in Positions(d)
  PROVE  /\ p \in 0 .. N * Slots - 1 /\ LocationOf(d, p) \in Location /\ Within(LocationOf(d, p), d)
         /\ LocationOf(d, p).cluster = WalkOf(fat, d)[p \div Slots] /\ LocationOf(d, p).slot = p % Slots
         /\ WalkOf(fat, d)[p \div Slots] \in Clusters
         /\ KindAt(d, p) = KindIn(LocationOf(d, p).cluster, LocationOf(d, p).slot)
         /\ KindAt(d, p) = EntryAt(LocationOf(d, p)).kind
  <1>1. p \in 0 .. N * Slots - 1 /\ Walk(d)[p \div Slots] \in Clusters
    BY DEF Positions
  <1>2. Walk(d) = WalkOf(fat, d)
    BY DEF Walk, WalkOf
  <1>3. LocationOf(d, p).cluster = Walk(d)[p \div Slots] /\ LocationOf(d, p).slot = p % Slots
    BY DEF LocationOf
  <1>4. LocationOf(d, p) \in Location
    BY LocationType
  <1>5. Within(LocationOf(d, p), d)
    <2>1. p \div Slots \in 0 .. N
      BY <1>1, PositionParts
    <2> QED BY <1>1, <1>3, <2>1 DEF Within, ChainSet
  <1>6. /\ KindAt(d, p) = KindIn(LocationOf(d, p).cluster, LocationOf(d, p).slot)
        /\ KindAt(d, p) = EntryAt(LocationOf(d, p)).kind
    BY DEF KindAt, EntryAt, KindIn
  <1> QED BY <1>1, <1>2, <1>3, <1>4, <1>5, <1>6

(* A step of the walk along a directory, as a position.                    *)
LEMMA PositionAtStep ==
  ASSUME NEW d, NEW k \in 0 .. N - 1, WalkOf(fat, d)[k] \in Clusters, NEW s \in Slot
  PROVE  /\ k * Slots + s \in Positions(d)
         /\ LocationOf(d, k * Slots + s) = [cluster |-> WalkOf(fat, d)[k], slot |-> s]
  <1> DEFINE q == k * Slots + s
  <1>1. q \in 0 .. N * Slots - 1 /\ q \div Slots = k /\ q % Slots = s
    BY PositionOf
  <1> HIDE DEF q
  <1>2. Walk(d) = WalkOf(fat, d)
    BY DEF Walk, WalkOf
  <1>3. q \in Positions(d) /\ LocationOf(d, q) = [cluster |-> WalkOf(fat, d)[k], slot |-> s]
    BY <1>1, <1>2 DEF Positions, LocationOf
  <1> QED BY <1>3 DEF q

LEMMA PositionAt ==
  ASSUME Acyclic(fat), NEW d, NEW l \in Location, Within(l, d)
  PROVE  \E p \in Positions(d) : LocationOf(d, p) = l
  <1>1. PICK k \in 0 .. N : WalkOf(fat, d)[k] = l.cluster /\ l.cluster \in Clusters
    BY ChainIs DEF Within, ChainOf
  <1>2. k # N
    <2>1. PICK j \in 0 .. N : WalkOf(fat, d)[j] \notin Clusters
      BY WalkLeaves
    <2> QED BY <1>1, <2>1, WalkStays
  <1>3. k \in 0 .. N - 1 /\ l.slot \in Slot /\ l = [cluster |-> l.cluster, slot |-> l.slot]
    BY <1>2 DEF Location
  <1> QED BY <1>1, <1>3, PositionAtStep

(* What a scan comes to before a position.                                 *)
LEMMA PositionBefore ==
  ASSUME fat \in TableType, Disjoint(fat), NEW d, ~Pointed(d), NEW p \in Positions(d), NEW l, l = LocationOf(d, p)
  PROVE  /\ \A s \in Slot : s < l.slot =>
              \E q \in Positions(d) : q < p /\ LocationOf(d, q) = [cluster |-> l.cluster, slot |-> s]
         /\ l.slot = 0 => \A c \in Clusters : fat[c] = l.cluster =>
              \E q \in Positions(d) : q < p /\ LocationOf(d, q) = [cluster |-> c, slot |-> Slots - 1]
  <1> DEFINE k == p \div Slots
  <1>1. /\ k \in 0 .. N - 1 /\ p % Slots \in Slot /\ p = k * Slots + (p % Slots)
        /\ l.cluster = WalkOf(fat, d)[k] /\ l.slot = p % Slots /\ WalkOf(fat, d)[k] \in Clusters
    BY PositionIn, PositionParts
  <1> HIDE DEF k
  <1>2. k * Slots \in Nat
    BY <1>1
  <1>3. ASSUME NEW s \in Slot, s < l.slot
        PROVE  \E q \in Positions(d) : q < p /\ LocationOf(d, q) = [cluster |-> l.cluster, slot |-> s]
    <2>1. k * Slots + s < p
      BY <1>1, <1>2, <1>3 DEF Slot
    <2>2. /\ k * Slots + s \in Positions(d)
          /\ LocationOf(d, k * Slots + s) = [cluster |-> WalkOf(fat, d)[k], slot |-> s]
      BY <1>1, PositionAtStep
    <2> QED BY <1>1, <2>1, <2>2
  <1>4. ASSUME l.slot = 0, NEW c \in Clusters, fat[c] = l.cluster
        PROVE  \E q \in Positions(d) : q < p /\ LocationOf(d, q) = [cluster |-> c, slot |-> Slots - 1]
    <2>1. k # 0
      <3> SUFFICES ASSUME k = 0 PROVE FALSE
        OBVIOUS
      <3>1. l.cluster = WalkOf(fat, d)[0]
        BY <1>1
      <3>2. l.cluster = d
        BY <3>1, WalkIs
      <3> QED BY <1>4, <3>2 DEF Pointed
    <2>2. k \in 1 .. N /\ k - 1 \in 0 .. N - 1 /\ k - 1 \in 0 .. k /\ k \in 0 .. N
      BY <1>1, <2>1
    <2>3. WalkOf(fat, d)[k - 1] \in Clusters
      BY <1>1, <2>2, WalkStays
    <2>4. fat[WalkOf(fat, d)[k - 1]] = l.cluster
      BY <1>1, <2>2, <2>3, WalkIs DEF Successor
    <2>5. WalkOf(fat, d)[k - 1] = c
      BY <1>1, <1>4, <2>3, <2>4 DEF Disjoint
    <2>6. (k - 1) * Slots + (Slots - 1) < p
      <3>1. (k - 1) * Slots = k * Slots - Slots
        BY <2>2
      <3> QED BY <1>1, <1>2, <3>1 DEF Slot
    <2> QED BY <2>2, <2>3, <2>5, <2>6, SlotNumbers, PositionAtStep
  <1> QED BY <1>3, <1>4

LEMMA FindSlotPlaced ==
  ASSUME Placed, FindSlot
  PROVE  Volume(op)' /\ LayoutOf(op)'
  <1>1. PICK n \in Call : n = op
    BY PlacedFacts
  <1> DEFINE usable == {p \in Positions(n.dir) : KindAt(n.dir, p) \in {"end", "deleted"}}
  <1>2. /\ n.step = "slot" /\ UNCHANGED <<fat, slots>> /\ Volume(n)
        /\ n.kind \in {"create_file", "create_directory", "rename"}
        /\ Disk /\ NoCycle /\ TableSound /\ Separate
        /\ fat \in TableType /\ Acyclic(fat) /\ Disjoint(fat)
    BY <1>1, PlacedFacts, TableFacts DEF FindSlot, Fail, Placed, StepOK, Call
  <1>3. n.dir \in DirectoryHeads /\ ~Pointed(n.dir)
    BY <1>1, <1>2, PlacedFacts DEF DirectoryRight, Enters, Separate
  <1>4. CASE Fail
    BY <1>1, <1>2, <1>4, FailPlaced
  <1>5. Volume(n)' /\ DirectoryRight(n)' /\ RenameRight(n)'
    BY <1>1, <1>2, PlacedFacts, UnchangedFrame
  <1>6. ASSUME op'.kind = n.kind, op'.dir = n.dir, op'.at = n.at, op'.entry = n.entry,
               op'.first = n.first, op'.step \in {"mark", "entry"}, LastRight(op)', SlotRight(op)'
        PROVE  Volume(op)' /\ LayoutOf(op)'
    <2>1. Volume(op)' /\ DirectoryRight(op)' /\ RenameRight(op)'
      BY <1>2, <1>5, <1>6, PlacedOn DEF Enters
    <2>2. CreateRight(op)' /\ n.kind = "create_directory" => n.first # Free
      BY <1>1, <1>2, <1>6, PlacedFacts DEF CreateRight, Enters
    <2>3. CreateRight(op)'
      BY <1>1, <1>2, <1>6, PlacedFacts DEF CreateRight, Enters
    <2>4. NewDirectoryRight(op)'
      <3>1. NewDirectoryRight(n) /\ \A c : Dot(c)' <=> Dot(c)
        BY <1>1, <1>2, PlacedFacts, SlotsSame
      <3>2. \A c, d : DotDot(c, d)' <=> DotDot(c, d)
        BY <1>2, SlotsSame
      <3>3. \A c, s : KindIn(c, s)' = KindIn(c, s)
        BY <1>2, SlotsSame
      <3> QED BY <1>2, <1>6, <3>1, <3>2, <3>3 DEF NewDirectoryRight, Dot, DotDot, KindIn
    <2> QED BY <1>2, <1>6, <2>1, <2>3, <2>4 DEF LayoutOf, WriteRight, RemoveRight
  <1>7. ASSUME NEW p \in Lowest(usable), op' = [n EXCEPT !.slot = LocationOf(n.dir, p), !.step = "entry"]
        PROVE  Volume(op)' /\ LayoutOf(op)'
    <2>1. p \in Positions(n.dir) /\ KindAt(n.dir, p) \in {"end", "deleted"}
      BY DEF Lowest
    <2>2. \A q \in Positions(n.dir) : q < p => KindAt(n.dir, q) # "end"
      <3>1. \A q \in Positions(n.dir) : q \in Int /\ p \in Int
        BY <2>1, PositionIn
      <3> QED BY <3>1 DEF Lowest
    <2>3. PICK l : l = LocationOf(n.dir, p)
      OBVIOUS
    <2>4. /\ l \in Location /\ Within(l, n.dir) /\ EntryAt(l).kind \in {"end", "deleted"}
      BY <2>1, <2>3, PositionIn
    <2>5. \A q \in Positions(n.dir) : KindAt(n.dir, q) = KindIn(LocationOf(n.dir, q).cluster, LocationOf(n.dir, q).slot)
      BY PositionIn
    <2>6. \A s \in Slot : s < l.slot => KindIn(l.cluster, s) # "end"
      <3> SUFFICES ASSUME NEW s \in Slot, s < l.slot PROVE KindIn(l.cluster, s) # "end"
        OBVIOUS
      <3>1. PICK q \in Positions(n.dir) : q < p /\ LocationOf(n.dir, q) = [cluster |-> l.cluster, slot |-> s]
        BY <1>2, <1>3, <2>1, <2>3, PositionBefore
      <3> QED BY <2>2, <2>5, <3>1
    <2>7. l.slot = 0 => \A c \in Clusters : fat[c] = l.cluster => KindIn(c, Slots - 1) # "end"
      <3> SUFFICES ASSUME l.slot = 0, NEW c \in Clusters, fat[c] = l.cluster PROVE KindIn(c, Slots - 1) # "end"
        OBVIOUS
      <3>1. PICK q \in Positions(n.dir) : q < p /\ LocationOf(n.dir, q) = [cluster |-> c, slot |-> Slots - 1]
        BY <1>2, <1>3, <2>1, <2>3, PositionBefore
      <3> QED BY <2>2, <2>5, <3>1
    <2>8. /\ op'.kind = n.kind /\ op'.dir = n.dir /\ op'.at = n.at /\ op'.entry = n.entry
          /\ op'.first = n.first /\ op'.step = "entry" /\ op'.slot = l
      BY <1>7, <2>3 DEF Call
    <2>9. SlotRight(op)'
      <3>1. EntryAt(l)' = EntryAt(l) /\ Within(l, n.dir)' /\ \A c, s : KindIn(c, s)' = KindIn(c, s)
        BY <1>2, <2>4, ChainsKept, SlotsSame
      <3> QED BY <1>2, <2>4, <2>6, <2>7, <2>8, <3>1 DEF SlotRight, Within, EntryAt, KindIn
    <2> QED BY <1>6, <2>8, <2>9 DEF LastRight
  <1>8. ASSUME usable = {}, NEW last \in LastCluster(n.dir), op' = [n EXCEPT !.last = last, !.step = "mark"]
        PROVE  Volume(op)' /\ LayoutOf(op)'
    <2>1. /\ op'.kind = n.kind /\ op'.dir = n.dir /\ op'.at = n.at /\ op'.entry = n.entry
          /\ op'.first = n.first /\ op'.step = "mark" /\ op'.last = last
      BY <1>8 DEF Call
    <2>2. last \in ChainSet(n.dir) /\ fat[last] = EndOfChain /\ last \in Clusters
      BY DEF LastCluster, ChainSet
    <2>3. KindIn(last, Slots - 1) # "end"
      <3> DEFINE l == [cluster |-> last, slot |-> Slots - 1]
      <3>1. l \in Location /\ Within(l, n.dir)
        BY <2>2, SlotNumbers DEF Location, Within
      <3>2. l.cluster = last /\ l.slot = Slots - 1
        OBVIOUS
      <3> HIDE DEF l
      <3>3. PICK p \in Positions(n.dir) : LocationOf(n.dir, p) = l
        BY <1>2, <3>1, PositionAt
      <3> QED BY <1>8, <3>2, <3>3, PositionIn
    <2>4. LastRight(op)'
      <3>1. ChainSet(n.dir)' = ChainSet(n.dir) /\ KindIn(last, Slots - 1)' = KindIn(last, Slots - 1)
        BY <1>2, ChainsKept, SlotsSame
      <3> QED BY <1>2, <2>1, <2>2, <2>3, <3>1 DEF LastRight
    <2> QED BY <1>6, <2>1, <2>4 DEF SlotRight
  <1> QED BY <1>1, <1>4, <1>7, <1>8 DEF FindSlot

(* Ending a chain early, and freeing a cluster.                            *)
LEMMA CutPlaced ==
  ASSUME Placed, CutChain
  PROVE  Volume(op)' /\ LayoutOf(op)'
  <1>1. PICK n \in Call : n = op
    BY PlacedFacts
  <1>2. /\ n.step = "cut" /\ n.kind = "write" /\ Before /\ Volume(n) /\ WriteRight(n) /\ StepOK(op)'
        /\ Disk /\ Acyclic(fat) /\ Acyclic(fat')
    BY <1>1, PlacedFacts DEF CutChain, StepOK, Call, Placed, NoCycle, Acyclic
  <1>3. CASE Fail
    BY <1>1, <1>2, <1>3, FailPlaced
  <1>4. CASE ~Fail
    <2>1. PICK c \in Clusters :
            /\ c = ClusterAt(n.first, n.need - 1)
            /\ fat' = [fat EXCEPT ![c] = EndOfChain] /\ UNCHANGED slots
            /\ \/ Proceed([op EXCEPT !.cur = fat[c], !.step = "free"])
               \/ Proceed(DataOrUpdate(op))
               \/ Recover
      BY <1>1, <1>4 DEF CutChain
    <2>2. c \in ChainSet(n.first)
      BY <2>1, FreeOutside DEF ClusterAt, ChainSet
    <2>3. \A d \in DirectoryHeads : c \notin ChainSet(d)
      BY <1>1, <1>2, <2>2, WriteApart
    <2>4. /\ \A b \in Clusters : fat'[b] = fat[b] \/ fat'[b] \notin Clusters
          /\ \A b \in Clusters \ {c} : fat'[b] = fat[b]
      BY <1>2, <2>1, FreeOutside DEF Disk
    <2>5. \A f : ChainOf(fat', f) \subseteq ChainOf(fat, f)
      BY <1>2, <2>4, ChainLess
    <2>6. \A d \in DirectoryHeads : ChainOf(fat', d) = ChainOf(fat, d)
      <3> SUFFICES ASSUME NEW d \in DirectoryHeads PROVE ChainOf(fat', d) = ChainOf(fat, d)
        OBVIOUS
      <3>1. \A b \in ChainOf(fat, d) : fat'[b] = fat[b]
        BY <2>3, <2>4, ChainIs, ChainWithin
      <3> QED BY <1>2, <3>1, ChainSame
    <2>7. Volume(n)'
      BY <1>2, <2>1, <2>4, <2>5, <2>6, VolumeShrunk
    <2>8. CASE Recover
      <3>1. RenameRight(n)'
        BY <1>2 DEF RenameRight
      <3> QED BY <1>1, <1>2, <2>7, <2>8, <3>1, PlacedRecover
    <2>9. CASE op' = [op EXCEPT !.cur = fat[c], !.step = "free"] \/ op' = DataOrUpdate(op)
      <3>1. /\ op'.step \in {"free", "data", "update"} /\ op'.kind = "write" /\ op'.at = n.at
            /\ op'.entry = n.entry /\ op'.first = n.first
        BY <1>1, <1>2, <2>9 DEF DataOrUpdate, Call
      <3>2. ChainSet(n.first)' \subseteq ChainSet(n.first)
        BY <2>5, ChainNext, ChainIs
      <3>3. WriteRight(op)'
        BY <1>2, <2>1, <3>1, <3>2, SlotsSame DEF WriteRight
      <3> QED BY <1>2, <2>7, <3>1, <3>3, PlacedWrite DEF LastRight
    <2> QED BY <1>2, <2>1, <2>8, <2>9, ProceedSafe
  <1> QED BY <1>3, <1>4

LEMMA FreePlaced ==
  ASSUME Placed, FreeCluster
  PROVE  Volume(op)' /\ LayoutOf(op)'
  <1>1. PICK n \in Call : n = op
    BY PlacedFacts
  <1>2. /\ n.step = "free" /\ Before /\ Volume(n) /\ WriteRight(n) /\ RemoveRight(n) /\ StepOK(op)'
        /\ n.kind \in {"create_directory", "write", "remove"}
        /\ Disk /\ Acyclic(fat) /\ Acyclic(fat') /\ TableSound /\ NoCycle /\ UNCHANGED slots
    BY <1>1, PlacedFacts DEF FreeCluster, StepOK, Call, Placed, NoCycle, Acyclic
  <1>3. PICK c \in Clusters : c = n.cur
    BY <1>1, <1>2, PlacedFacts DEF CallSound
  <1>4. /\ c # Root /\ ~Pointed(c)
        /\ \A l \in LiveEntries : FirstOf(l) = c => n.kind = "remove" /\ l = n.at
        /\ n.kind = "remove" => FirstOf(n.at) = n.first
    BY <1>1, <1>2, <1>3, PlacedFacts DEF CallSound, RemoveRight
  <1>5. /\ \A b \in Clusters : fat'[b] = fat[b] \/ fat'[b] \notin Clusters
        /\ \A b \in Clusters \ {c} : fat'[b] = fat[b]
    BY <1>1, <1>2, <1>3, FreeOutside DEF FreeCluster, Disk
  <1>6. \A f : ChainOf(fat', f) \subseteq ChainOf(fat, f)
    BY <1>2, <1>5, ChainLess
  <1>7. ASSUME NEW d \in DirectoryHeads, d # c
        PROVE  ChainOf(fat', d) = ChainOf(fat, d)
    <2>1. c \notin ChainSet(d)
      BY <1>2, <1>4, <1>7, Chains
    <2>2. \A b \in ChainOf(fat, d) : fat'[b] = fat[b]
      BY <1>5, <2>1, ChainIs, ChainWithin
    <2> QED BY <1>2, <2>2, ChainSame
  <1>8. ASSUME c \in DirectoryHeads, NEW l \in LiveEntries
        PROVE  l.cluster \notin ChainOf(fat, c)
    <2>1. PICK m \in LiveOf("dir") : FirstOf(m) = c
      BY <1>4, <1>8 DEF DirectoryHeads
    <2>2. n.kind = "remove" /\ c = n.first
      BY <1>4, <2>1 DEF LiveOf
    <2>3. \A b \in ChainSet(c) : Barren(b)
      BY <1>2, <2>2 DEF RemoveRight
    <2>4. ~Barren(l.cluster)
      BY DEF LiveEntries, Barren, KindIn, EntryAt, Location
    <2> QED BY <2>3, <2>4, ChainIs
  <1>9. Volume(n)'
    <2>1. \A l \in LiveEntries, d \in DirectoryHeads :
            l.cluster \in ChainOf(fat, d) => l.cluster \in ChainOf(fat', d)
      BY <1>7, <1>8
    <2> QED BY <1>2, <1>5, <1>6, <2>1, VolumeShrunk
  <1>10. \A f : ChainSet(f)' \subseteq ChainSet(f)
    BY <1>6, ChainNext, ChainIs
  <1>11. CASE Recover
    <2>1. RenameRight(n)'
      BY <1>2 DEF RenameRight
    <2> QED BY <1>1, <1>2, <1>9, <1>11, <2>1, PlacedRecover
  <1>12. CASE op' = Idle
    <2>1. PICK m : m = Idle
      OBVIOUS
    <2>2. Volume(m)'
      BY <1>2, <1>9 DEF Volume, DotsRight, Moving
    <2> QED BY <1>12, <2>1, <2>2, PlacedIdle
  <1>13. CASE /\ op'.kind = n.kind /\ op'.at = n.at /\ op'.entry = n.entry /\ op'.first = n.first
              /\ op'.step \in {"free", "unlink", "data", "update"}
    <2>1. Volume(op)'
      BY <1>2, <1>9, <1>13 DEF Volume, DotsRight, Moving
    <2>2. CASE n.kind = "write"
      <3>1. WriteRight(op)'
        BY <1>2, <1>10, <1>13, SlotsSame DEF WriteRight
      <3>2. LastRight(op)' /\ op'.kind = "write" /\ StepOK(op)'
        BY <1>2, <1>13, <2>2 DEF LastRight
      <3>3. op'.step = "link" => Blank(op.new)'
        BY <1>13
      <3> QED BY ONLY <1>9, <2>2, <3>1, <3>2, <3>3, PlacedWrite
    <2>3. CASE n.kind # "write"
      <3>1. RemoveRight(op)'
        BY <1>2, <1>10, <1>13, SlotsSame DEF RemoveRight
      <3>2. CreateRight(op)' /\ NewDirectoryRight(op)'
        BY <1>1, <1>2, <1>13, <2>3, PlacedFacts DEF CreateRight, NewDirectoryRight, Enters, StepOK
      <3> QED BY <1>2, <1>13, <2>1, <2>3, <3>1, <3>2
              DEF LayoutOf, DirectoryRight, LastRight, SlotRight, WriteRight, RenameRight, Enters, StepOK
    <2> QED BY <2>2, <2>3
  <1>14. \/ Recover \/ op' = Idle
         \/ op' = [n EXCEPT !.cur = fat[n.cur]] \/ op' = [n EXCEPT !.step = "unlink"]
         \/ op' = DataOrUpdate(n)
    BY <1>1, <1>2, ProceedSafe, WriteFailsSafe DEF FreeCluster, Finish
  <1>15. op' \in {[n EXCEPT !.cur = fat[n.cur]], [n EXCEPT !.step = "unlink"], DataOrUpdate(n)} =>
            /\ op'.kind = n.kind /\ op'.at = n.at /\ op'.entry = n.entry /\ op'.first = n.first
            /\ op'.step \in {"free", "unlink", "data", "update"}
    BY <1>2 DEF DataOrUpdate, Call
  <1> QED BY <1>11, <1>12, <1>13, <1>14, <1>15

-----------------------------------------------------------------------------
(* The scans and the paths, and the calls that begin with them.            *)

LEMMA PositionPrevious ==
  ASSUME fat \in TableType, NEW d, NEW p \in Positions(d), p > 0
  PROVE  /\ p - 1 \in Positions(d)
         /\ \/ /\ LocationOf(d, p - 1).cluster = LocationOf(d, p).cluster
               /\ LocationOf(d, p - 1).slot < LocationOf(d, p).slot
            \/ /\ LocationOf(d, p).slot = 0 /\ LocationOf(d, p - 1).slot = Slots - 1
               /\ fat[LocationOf(d, p - 1).cluster] = LocationOf(d, p).cluster
  <1> DEFINE k == p \div Slots  s == p % Slots
  <1>1. /\ k \in 0 .. N - 1 /\ s \in Slot /\ p = k * Slots + s
        /\ LocationOf(d, p).cluster = WalkOf(fat, d)[k] /\ LocationOf(d, p).slot = s
        /\ WalkOf(fat, d)[k] \in Clusters
    BY PositionIn, PositionParts
  <1> HIDE DEF k, s
  <1>2. k * Slots \in Nat
    BY <1>1
  <1>3. CASE s # 0
    <2>1. s - 1 \in Slot /\ k * Slots + (s - 1) = p - 1 /\ s - 1 < s
      BY <1>1, <1>2, <1>3 DEF Slot
    <2>2. /\ k * Slots + (s - 1) \in Positions(d)
          /\ LocationOf(d, k * Slots + (s - 1)) = [cluster |-> WalkOf(fat, d)[k], slot |-> s - 1]
      BY <1>1, <2>1, PositionAtStep
    <2> QED BY <1>1, <2>1, <2>2
  <1>4. CASE s = 0
    <2>1. k # 0
      BY <1>1, <1>4
    <2>2. k \in 1 .. N /\ k - 1 \in 0 .. N - 1 /\ k - 1 \in 0 .. k /\ k \in 0 .. N
      BY <1>1, <2>1
    <2>3. WalkOf(fat, d)[k - 1] \in Clusters
      BY <1>1, <2>2, WalkStays
    <2>4. fat[WalkOf(fat, d)[k - 1]] = WalkOf(fat, d)[k]
      BY <2>2, <2>3, WalkIs DEF Successor
    <2>5. (k - 1) * Slots + (Slots - 1) = p - 1
      <3>1. (k - 1) * Slots = k * Slots - Slots
        BY <2>2
      <3> QED BY <1>1, <1>2, <1>4, <3>1
    <2>6. /\ (k - 1) * Slots + (Slots - 1) \in Positions(d)
          /\ LocationOf(d, (k - 1) * Slots + (Slots - 1)) = [cluster |-> WalkOf(fat, d)[k - 1], slot |-> Slots - 1]
      BY <2>2, <2>3, SlotNumbers, PositionAtStep
    <2> QED BY <1>1, <1>4, <2>4, <2>5, <2>6
  <1> QED BY <1>3, <1>4

(* After the first end mark a scan would only find more of them.           *)
LEMMA EndsAfter ==
  ASSUME fat \in TableType, NEW d, \A c \in ChainSet(d) : EndsOnce(c),
         NEW q \in Positions(d), KindAt(d, q) = "end", NEW p \in Positions(d), q <= p
  PROVE  KindAt(d, p) = "end"
  <1> SUFFICES ASSUME KindAt(d, p) # "end" PROVE FALSE
    OBVIOUS
  <1> DEFINE Bad == {r \in Positions(d) : q <= r /\ KindAt(d, r) # "end"}
  <1>1. PICK r \in Bad : \A m \in Bad : r <= m
    <2>1. Bad \in SUBSET Nat /\ p \in Bad
      BY PositionIn
    <2> HIDE DEF Bad
    <2> QED BY <2>1, LeastNatural
  <1>2. r \in Positions(d) /\ r \in Nat /\ q \in Nat /\ q < r
    BY <1>1, PositionIn
  <1>3. /\ r - 1 \in Positions(d)
        /\ \/ /\ LocationOf(d, r - 1).cluster = LocationOf(d, r).cluster
              /\ LocationOf(d, r - 1).slot < LocationOf(d, r).slot
           \/ /\ LocationOf(d, r).slot = 0 /\ LocationOf(d, r - 1).slot = Slots - 1
              /\ fat[LocationOf(d, r - 1).cluster] = LocationOf(d, r).cluster
    BY <1>2, PositionPrevious
  <1>4. KindAt(d, r - 1) = "end"
    BY <1>1, <1>2, <1>3
  <1>5. PICK a \in Location, b \in Location :
          /\ a = LocationOf(d, r - 1) /\ b = LocationOf(d, r) /\ a.cluster \in ChainSet(d)
          /\ KindIn(a.cluster, a.slot) = "end" /\ KindIn(b.cluster, b.slot) # "end"
    BY <1>1, <1>2, <1>3, <1>4, PositionIn DEF Within
  <1>6. EndsOnce(a.cluster) /\ a.slot \in Slot /\ b.slot \in Slot /\ b.cluster \in Clusters
    BY <1>5 DEF Location
  <1> QED BY <1>3, <1>5, <1>6 DEF EndsOnce

LEMMA LiveScanned ==
  ASSUME fat \in TableType, NEW d, \A c \in ChainSet(d) : EndsOnce(c),
         NEW p \in Positions(d), KindAt(d, p) # "end"
  PROVE  p \in Scanned(d)
  <1>1. ASSUME NEW q \in Positions(d), KindAt(d, q) = "end" PROVE p < q
    <2>1. p \in Int /\ q \in Int /\ ~(q <= p)
      BY <1>1, EndsAfter, PositionIn
    <2> QED BY <2>1
  <1> QED BY <1>1 DEF Scanned

(* A lookup finds a live entry of that name in the directory, ...          *)
LEMMA FindIs ==
  ASSUME NEW d, NEW name, NEW l \in fat32_find_in_directory(d, name)
  PROVE  l \in LiveEntries /\ Within(l, d) /\ EntryAt(l).name = name
  <1>1. PICK p \in Positions(d) : /\ l = LocationOf(d, p) /\ KindAt(d, p) \in Live
                                  /\ EntryAt(LocationOf(d, p)).name = name
    BY DEF fat32_find_in_directory, Lowest, Scanned
  <1>2. l \in Location /\ Within(l, d) /\ EntryAt(l).kind \in Live
    BY <1>1, PositionIn
  <1> QED BY <1>1, <1>2 DEF LiveEntries

(* ... and when it finds none there is none.                               *)
LEMMA FindMisses ==
  ASSUME fat \in TableType, Acyclic(fat), NEW d, \A c \in ChainSet(d) : EndsOnce(c),
         NEW name, fat32_find_in_directory(d, name) = {},
         NEW l \in LiveEntries, Within(l, d)
  PROVE  EntryAt(l).name # name
  <1> SUFFICES ASSUME EntryAt(l).name = name PROVE FALSE
    OBVIOUS
  <1> DEFINE hits == {p \in Scanned(d) : /\ KindAt(d, p) \in Live
                                         /\ EntryAt(LocationOf(d, p)).name = name}
  <1>1. l \in Location /\ EntryAt(l).kind \in Live
    BY DEF LiveEntries
  <1>2. PICK p \in Positions(d) : LocationOf(d, p) = l
    BY <1>1, PositionAt
  <1>3. KindAt(d, p) \in Live
    BY <1>1, <1>2, PositionIn
  <1>4. p \in hits
    BY <1>2, <1>3, LiveScanned DEF Live
  <1>5. hits \in SUBSET Nat
    BY PositionIn DEF Scanned
  <1>6. Lowest(hits) # {}
    <2> HIDE DEF hits
    <2> QED BY <1>4, <1>5, LeastNatural DEF Lowest
  <1> QED BY <1>6 DEF fat32_find_in_directory

LEMMA EmptyBarren ==
  ASSUME fat \in TableType, Acyclic(fat), NEW d, \A c \in ChainSet(d) : EndsOnce(c),
         fat32_directory_empty(d), NEW c \in ChainSet(d)
  PROVE  Barren(c)
  <1> SUFFICES ASSUME NEW s \in Slot, KindIn(c, s) \in Live PROVE FALSE
    BY DEF Barren
  <1> DEFINE l == [cluster |-> c, slot |-> s]
  <1>1. l \in Location /\ Within(l, d) /\ l.cluster = c /\ l.slot = s
    BY DEF Location, Within, ChainSet
  <1> HIDE DEF l
  <1>2. PICK p \in Positions(d) : LocationOf(d, p) = l
    BY <1>1, PositionAt
  <1>3. KindAt(d, p) \in Live
    BY <1>1, <1>2, PositionIn
  <1>4. p \in Scanned(d)
    BY <1>3, LiveScanned DEF Live
  <1> QED BY <1>3, <1>4 DEF fat32_directory_empty, Live

(* The descent along a path, as an operator of its step.                   *)
Below(path, k, above) ==
  LET found == IF above = Free THEN {} ELSE fat32_find_in_directory(above, path[k])
      child == EntryAt(CHOOSE loc \in found : TRUE)
  IN IF found # {} /\ child.kind = "dir" THEN child.first ELSE Free

Descent(f, n, path) == f = [k \in 0 .. n |-> IF k = 0 THEN Root ELSE Below(path, k, f[k - 1])]

LEMMA DescentIs ==
  ASSUME NEW n \in Nat, NEW path, NEW f
  PROVE  Descent(f, n, path) <=> /\ f = [k \in 0 .. n |-> f[k]]
                                 /\ f[0] = Root
                                 /\ \A k \in 1 .. n : f[k] = Below(path, k, f[k - 1])
  <1>1. 0 \in 0 .. n /\ \A k \in 0 .. n : k # 0 <=> k \in 1 .. n
    OBVIOUS
  <1> QED BY ONLY <1>1 DEF Descent

LEMMA DescentExists ==
  ASSUME NEW n \in Nat, NEW path
  PROVE  \E f : Descent(f, n, path)
  <1> DEFINE Bad == {m \in Nat : ~\E f : Descent(f, m, path)}
  <1>1. ASSUME Bad # {}
        PROVE  FALSE
    <2>1. PICK m \in Bad : \A k \in Bad : m <= k
      <3>1. Bad \in SUBSET Nat
        OBVIOUS
      <3> HIDE DEF Bad
      <3> QED BY <1>1, <3>1, LeastNatural
    <2>2. m \in Nat /\ ~\E f : Descent(f, m, path)
      OBVIOUS
    <2>3. CASE m = 0
      <3> DEFINE f == [k \in 0 .. 0 |-> Root]
      <3>1. f = [k \in 0 .. 0 |-> f[k]] /\ f[0] = Root
        OBVIOUS
      <3> HIDE DEF f
      <3>2. Descent(f, 0, path)
        <4>1. 0 \in Nat /\ \A k \in 1 .. 0 : f[k] = Below(path, k, f[k - 1])
          OBVIOUS
        <4> QED BY ONLY <3>1, <4>1, DescentIs
      <3> QED BY <2>2, <2>3, <3>2
    <2>4. CASE m # 0
      <3>1. m - 1 \in Nat /\ ~(m <= m - 1)
        BY <2>2, <2>4
      <3>2. PICK f : Descent(f, m - 1, path)
        BY <2>1, <3>1
      <3>3. f[0] = Root /\ \A k \in 1 .. m - 1 : f[k] = Below(path, k, f[k - 1])
        BY ONLY <3>1, <3>2, DescentIs
      <3> DEFINE g == [k \in 0 .. m |-> IF k = m THEN Below(path, m, f[m - 1]) ELSE f[k]]
      <3>4. g = [k \in 0 .. m |-> g[k]]
        OBVIOUS
      <3>5. g[0] = Root /\ \A k \in 0 .. m - 1 : g[k] = f[k]
        BY <2>2, <2>4, <3>3
      <3>6. g[m] = Below(path, m, f[m - 1])
        BY <2>2
      <3> HIDE DEF g
      <3>7. ASSUME NEW k \in 1 .. m
            PROVE  g[k] = Below(path, k, g[k - 1])
        <4>1. k - 1 \in 0 .. m - 1
          BY <2>2
        <4>2. CASE k = m
          BY <3>5, <3>6, <4>1, <4>2
        <4>3. CASE k # m
          <5>1. k \in 1 .. m - 1 /\ k \in 0 .. m - 1
            BY <2>2, <4>3
          <5> QED BY <3>3, <3>5, <4>1, <5>1
        <4> QED BY <4>2, <4>3
      <3>8. Descent(g, m, path)
        BY <2>2, <3>4, <3>5, <3>7, DescentIs
      <3> QED BY <2>2, <3>8
    <2> QED BY <2>3, <2>4
  <1> QED BY <1>1

(* A path leads to no directory, to the root or to one that an entry names.*)
LEMMA ParentHead ==
  ASSUME NEW path \in Paths
  PROVE  ParentOf(path) = Free \/ ParentOf(path) \in DirectoryHeads
  <1> DEFINE n == Len(path) - 1
  <1>1. n \in Nat
    OBVIOUS
  <1> DEFINE f == CHOOSE g : Descent(g, n, path)
  <1>2. Descent(f, n, path)
    BY <1>1, DescentExists
  <1>3. ParentOf(path) = f[n]
    BY Zenon DEF ParentOf, Descent, Below
  <1> HIDE DEF f, n
  <1>4. f[0] = Root /\ \A k \in 1 .. n : f[k] = Below(path, k, f[k - 1])
    BY ONLY <1>1, <1>2, DescentIs
  <1>5. CASE n = 0
    BY <1>3, <1>4, <1>5 DEF DirectoryHeads
  <1>6. CASE n # 0
    <2>1. ParentOf(path) = Below(path, n, f[n - 1])
      BY <1>1, <1>3, <1>4, <1>6
    <2> DEFINE found == fat32_find_in_directory(f[n - 1], path[n])
               loc == CHOOSE l \in found : TRUE
    <2>2. \/ ParentOf(path) = Free
          \/ found # {} /\ EntryAt(loc).kind = "dir" /\ ParentOf(path) = FirstOf(loc)
      BY <2>1 DEF Below, FirstOf
    <2>3. found # {} => loc \in found
      OBVIOUS
    <2>4. found # {} => loc \in LiveEntries
      BY <2>3, FindIs
    <2> HIDE DEF found, loc
    <2> QED BY <2>2, <2>4 DEF DirectoryHeads, LiveOf
  <1> QED BY <1>5, <1>6

LEMMA LayoutUnchanged ==
  ASSUME UNCHANGED <<fat, slots>>, NEW m, LayoutOf(m)
  PROVE  LayoutOf(m)'
  <1>1. DirectoryRight(m)' /\ RenameRight(m)'
    BY UnchangedFrame DEF LayoutOf
  <1>2. /\ \A l, d : Within(l, d)' <=> Within(l, d)
        /\ \A f : ChainSet(f)' = ChainSet(f)
        /\ LiveEntries' = LiveEntries /\ \A kind : LiveOf(kind)' = LiveOf(kind)
        /\ \A l : EntryAt(l)' = EntryAt(l) /\ FirstOf(l)' = FirstOf(l)
        /\ \A c, s : KindIn(c, s)' = KindIn(c, s)
        /\ \A c : (Plain(c)' <=> Plain(c)) /\ (Barren(c)' <=> Barren(c)) /\ (Blank(c)' <=> Blank(c))
        /\ \A c : Dot(c)' <=> Dot(c)
        /\ \A c, d : DotDot(c, d)' <=> DotDot(c, d)
    BY UnchangedFrame, SlotsSame
  <1>3. LastRight(m)'
    BY <1>2 DEF LayoutOf, LastRight
  <1>4. SlotRight(m)'
    BY <1>2 DEF LayoutOf, SlotRight
  <1>5. CreateRight(m)'
    BY DEF LayoutOf, CreateRight, Enters
  <1>6. NewDirectoryRight(m)'
    BY <1>2 DEF LayoutOf, NewDirectoryRight
  <1>7. WriteRight(m)'
    BY <1>2 DEF LayoutOf, WriteRight
  <1>8. RemoveRight(m)'
    BY <1>2 DEF LayoutOf, RemoveRight
  <1> QED BY <1>1, <1>2, <1>3, <1>4, <1>5, <1>6, <1>7, <1>8 DEF LayoutOf

(* A call begins: nothing on the disk has changed.                         *)
LEMMA BeginPlaced ==
  ASSUME Placed, op.step = "idle", UNCHANGED <<fat, slots>>, NEW m, op' = m, LayoutOf(m)
  PROVE  Volume(op)' /\ LayoutOf(op)'
  <1>1. op.kind = "none" /\ Volume(op)
    BY PlacedFacts DEF StepOK, Call
  <1>2. PICK o : o = op
    OBVIOUS
  <1>3. Volume(o) /\ \A l : ~Moving(o, l)
    BY <1>1, <1>2 DEF Moving
  <1>4. Volume(m)
    BY <1>3, VolumeSwitch
  <1>5. Volume(m)' /\ LayoutOf(m)'
    BY <1>4, UnchangedFrame, LayoutUnchanged
  <1>6. Volume(op)'
    BY <1>5 DEF Volume, DotsRight, Moving
  <1> QED BY <1>5, <1>6 DEF LayoutOf, DirectoryRight, LastRight, SlotRight, CreateRight,
          NewDirectoryRight, WriteRight, RenameRight, RemoveRight, Enters

LEMMA RefusePlaced ==
  ASSUME Placed, op.step = "idle", UNCHANGED <<fat, slots>>, Refuse
  PROVE  Volume(op)' /\ LayoutOf(op)'
  <1>1. PICK o : o = op
    OBVIOUS
  <1>2. Volume(o) /\ \A l : ~Moving(o, l)
    BY <1>1, PlacedFacts DEF StepOK, Call, Moving
  <1> QED BY <1>2, PlacedOver DEF Refuse, Finish

LEMMA NameFree ==
  ASSUME Placed, NEW path \in Paths, ParentOf(path) \in Clusters, Lookup(path) = {}
  PROVE  /\ ParentOf(path) \in DirectoryHeads
         /\ \A l \in LiveEntries :
              Within(l, ParentOf(path)) => EntryAt(l).name # NameOf(path)
  <1> DEFINE d == ParentOf(path)
  <1>1. d \in DirectoryHeads /\ fat32_find_in_directory(d, NameOf(path)) = {}
    BY ParentHead, FreeOutside DEF Lookup
  <1> HIDE DEF d
  <1>2. fat \in TableType /\ Acyclic(fat) /\ \A c \in ChainSet(d) : EndsOnce(c)
    BY <1>1, PlacedFacts, TableFacts DEF Placed, Volume, EndsTidy
  <1>3. \A l \in LiveEntries : Within(l, d) => EntryAt(l).name # NameOf(path)
    BY <1>1, <1>2, FindMisses
  <1> QED BY <1>1, <1>3 DEF d

LEMMA LookupPlaced ==
  ASSUME NEW path \in Paths, NEW loc \in Lookup(path)
  PROVE  /\ ParentOf(path) \in DirectoryHeads /\ loc \in LiveEntries /\ loc \in Location
         /\ Within(loc, ParentOf(path))
  <1> DEFINE d == ParentOf(path)
  <1>1. d \in Clusters /\ loc \in fat32_find_in_directory(d, NameOf(path))
    BY DEF Lookup
  <1>2. d \in DirectoryHeads
    BY <1>1, ParentHead, FreeOutside
  <1> HIDE DEF d
  <1>3. loc \in LiveEntries /\ Within(loc, d)
    BY <1>1, FindIs
  <1> QED BY <1>2, <1>3 DEF d, LiveEntries

LEMMA CreateFilePlaced ==
  ASSUME Placed, NEW path \in Paths, fat32_create_file(path)
  PROVE  Volume(op)' /\ LayoutOf(op)'
  <1> DEFINE dir == ParentOf(path)
             e == fat32_build_entry("file", NameOf(path), Free, 0)
  <1>1. op.step = "idle" /\ UNCHANGED <<fat, slots>> /\ ~damaged'
    BY DEF fat32_create_file, Ready, Placed, Before
  <1>2. \/ Refuse
        \/ /\ dir \in Clusters /\ Lookup(path) = {}
           /\ op' = [Idle EXCEPT !.kind = "create_file", !.step = "slot", !.dir = dir, !.entry = e]
    BY <1>1 DEF fat32_create_file, Sees, Strike, Begin
  <1>3. CASE dir \in Clusters /\ Lookup(path) = {}
             /\ op' = [Idle EXCEPT !.kind = "create_file", !.step = "slot", !.dir = dir, !.entry = e]
    <2>1. dir \in DirectoryHeads /\ \A l \in LiveEntries : Within(l, dir) => EntryAt(l).name # NameOf(path)
      BY <1>3, NameFree
    <2>2. e.name = NameOf(path) /\ e.kind = "file"
      BY DEF fat32_build_entry
    <2>3. Idle \in Call
      BY IdleType
    <2>4. PICK m : m = [Idle EXCEPT !.kind = "create_file", !.step = "slot", !.dir = dir, !.entry = e]
      OBVIOUS
    <2> HIDE DEF dir, e
    <2>5. m.kind = "create_file" /\ m.step = "slot" /\ m.dir = dir /\ m.entry = e
      BY <2>3, <2>4 DEF Call
    <2>6. LayoutOf(m)
      BY <2>1, <2>2, <2>5 DEF LayoutOf, DirectoryRight, LastRight, SlotRight, CreateRight,
         NewDirectoryRight, WriteRight, RenameRight, RemoveRight, Enters
    <2> QED BY <1>1, <1>3, <2>4, <2>6, BeginPlaced
  <1> QED BY <1>1, <1>2, <1>3, RefusePlaced

LEMMA CreateDirectoryPlaced ==
  ASSUME Placed, NEW path \in Paths, fat32_create_directory(path)
  PROVE  Volume(op)' /\ LayoutOf(op)'
  <1> DEFINE dir == ParentOf(path)
             e == fat32_build_entry("dir", NameOf(path), Free, 0)
  <1>1. op.step = "idle" /\ UNCHANGED <<fat, slots>> /\ ~damaged'
    BY DEF fat32_create_directory, Ready, Placed, Before
  <1>2. \/ Refuse
        \/ /\ dir \in Clusters /\ Lookup(path) = {}
           /\ op' = [Idle EXCEPT !.kind = "create_directory", !.step = "mark", !.dir = dir, !.entry = e]
    BY <1>1 DEF fat32_create_directory, Sees, Strike, Begin
  <1>3. CASE dir \in Clusters /\ Lookup(path) = {}
             /\ op' = [Idle EXCEPT !.kind = "create_directory", !.step = "mark", !.dir = dir, !.entry = e]
    <2>1. dir \in DirectoryHeads /\ \A l \in LiveEntries : Within(l, dir) => EntryAt(l).name # NameOf(path)
      BY <1>3, NameFree
    <2>2. e.name = NameOf(path) /\ e.kind = "dir"
      BY DEF fat32_build_entry
    <2>3. Idle \in Call /\ Idle.first = Free /\ Idle.last = Free
      BY IdleType DEF Idle
    <2>4. PICK m : m = [Idle EXCEPT !.kind = "create_directory", !.step = "mark", !.dir = dir, !.entry = e]
      OBVIOUS
    <2> HIDE DEF dir, e
    <2>5. /\ m.kind = "create_directory" /\ m.step = "mark" /\ m.dir = dir /\ m.entry = e
          /\ m.first = Free /\ m.last = Free
      BY <2>3, <2>4 DEF Call
    <2>6. LayoutOf(m)
      BY <2>1, <2>2, <2>5 DEF LayoutOf, DirectoryRight, LastRight, SlotRight, CreateRight,
         NewDirectoryRight, WriteRight, RenameRight, RemoveRight, Enters
    <2> QED BY <1>1, <1>3, <2>4, <2>6, BeginPlaced
  <1> QED BY <1>1, <1>2, <1>3, RefusePlaced

LEMMA RemovePlaced ==
  ASSUME Placed, NEW path \in Paths, fat32_remove(path)
  PROVE  Volume(op)' /\ LayoutOf(op)'
  <1>1. op.step = "idle" /\ UNCHANGED <<fat, slots>>
    BY DEF fat32_remove, Ready
  <1>2. \/ Refuse
        \/ \E loc \in Lookup(path) :
             /\ EntryAt(loc).kind = "dir" => fat32_directory_empty(FirstOf(loc))
             /\ op' = [Idle EXCEPT !.kind = "remove", !.at = loc,
                         !.first = FirstOf(loc), !.cur = FirstOf(loc),
                         !.step = IF FirstOf(loc) = Free THEN "unlink" ELSE "free"]
    BY DEF fat32_remove, Begin, FirstOf
  <1>3. ASSUME NEW loc \in Lookup(path), NEW first, NEW step, step \in {"free", "unlink"},
               first = FirstOf(loc), EntryAt(loc).kind = "dir" => fat32_directory_empty(first),
               op' = [Idle EXCEPT !.kind = "remove", !.at = loc, !.first = first, !.cur = first,
                        !.step = step]
        PROVE  Volume(op)' /\ LayoutOf(op)'
    <2>1. loc \in LiveEntries /\ EntryAt(loc).kind \in Live
      BY LookupPlaced DEF LiveEntries
    <2>2. fat \in TableType /\ Acyclic(fat) /\ FilesPlain /\ EndsTidy
      BY PlacedFacts, TableFacts DEF Placed, Volume
    <2>3. ASSUME EntryAt(loc).kind = "dir" PROVE \A c \in ChainSet(first) : Barren(c)
      <3>1. first \in DirectoryHeads /\ fat32_directory_empty(first)
        BY <1>3, <2>1, <2>3 DEF DirectoryHeads, LiveOf
      <3>2. \A c \in ChainSet(first) : EndsOnce(c)
        BY <2>2, <3>1 DEF EndsTidy
      <3> QED BY <2>2, <3>1, <3>2, EmptyBarren
    <2>4. ASSUME EntryAt(loc).kind = "file" PROVE \A c \in ChainSet(first) : Barren(c)
      <3>1. \A c \in ChainSet(first) : Plain(c)
        BY <1>3, <2>1, <2>2, <2>4 DEF FilesPlain, LiveOf
      <3> QED BY <3>1 DEF Plain, Barren, Live
    <2>5. \A c \in ChainSet(first) : Barren(c)
      BY <2>1, <2>3, <2>4 DEF Live
    <2>6. Idle \in Call
      BY IdleType
    <2>7. PICK m : m = [Idle EXCEPT !.kind = "remove", !.at = loc, !.first = first, !.cur = first,
                          !.step = step]
      OBVIOUS
    <2>8. m.kind = "remove" /\ m.step = step /\ m.at = loc /\ m.first = first
      BY <2>6, <2>7 DEF Call
    <2>9. LayoutOf(m)
      BY <1>3, <2>1, <2>5, <2>8 DEF LayoutOf, DirectoryRight, LastRight, SlotRight, CreateRight,
         NewDirectoryRight, WriteRight, RenameRight, RemoveRight, Enters
    <2> QED BY <1>1, <1>3, <2>7, <2>9, BeginPlaced
  <1> QED BY <1>1, <1>2, <1>3, RefusePlaced

LEMMA RenamePlaced ==
  ASSUME Placed, NEW path \in Paths, NEW new_path \in Paths, fat32_rename(path, new_path)
  PROVE  Volume(op)' /\ LayoutOf(op)'
  <1>1. op.step = "idle" /\ UNCHANGED <<fat, slots>> /\ ~damaged'
    BY DEF fat32_rename, Ready, Placed, Before
  <1>2. \/ Refuse
        \/ \E loc \in Lookup(path) :
             /\ ParentOf(new_path) \in Clusters /\ Lookup(new_path) = {}
             /\ op' = RenameCall(loc, ParentOf(path), ParentOf(new_path), NameOf(new_path))
    BY <1>1 DEF fat32_rename, Sees, Strike, Begin
  <1>3. ASSUME NEW loc \in Lookup(path), NEW from, from = ParentOf(path),
               NEW to, to = ParentOf(new_path), NEW name, name = NameOf(new_path),
               to \in Clusters, Lookup(new_path) = {},
               op' = RenameCall(loc, from, to, name)
        PROVE  Volume(op)' /\ LayoutOf(op)'
    <2>1. loc \in LiveEntries /\ loc \in Location /\ Within(loc, from)
      BY <1>3, LookupPlaced
    <2>2. to \in DirectoryHeads /\ \A l \in LiveEntries : Within(l, to) => EntryAt(l).name # name
      BY <1>3, NameFree
    <2>3. Idle \in Call
      BY IdleType
    <2>4. PICK m : m = RenameCall(loc, from, to, name)
      OBVIOUS
    <2>5. EntryAt(loc) \in Entry
      BY <2>1, PlacedFacts, FirstType
    <2> DEFINE e == [EntryAt(loc) EXCEPT !.name = name]
               first == EntryAt(loc).first
               step == IF from = to THEN "entry" ELSE "slot"
    <2>6. e.name = name /\ e = [EntryAt(loc) EXCEPT !.name = e.name]
      BY <2>5 DEF Entry
    <2>7. m = [Idle EXCEPT !.kind = "rename", !.dir = to, !.at = loc, !.slot = loc,
                 !.entry = e, !.first = first, !.step = step]
      BY <2>4 DEF RenameCall
    <2>8. step \in {"entry", "slot"} /\ (step = "entry" => from = to)
      OBVIOUS
    <2> HIDE DEF e, first, step
    <2>9. /\ m.kind = "rename" /\ m.step = step /\ m.at = loc /\ m.slot = loc /\ m.dir = to
          /\ m.entry = e
      BY <2>3, <2>7 DEF Call
    <2>10. DirectoryRight(m) /\ RenameRight(m)
      BY <2>1, <2>2, <2>6, <2>8, <2>9 DEF DirectoryRight, RenameRight
    <2>11. SlotRight(m)
      BY <2>1, <2>8, <2>9 DEF SlotRight
    <2>12. LayoutOf(m)
      BY <2>8, <2>9, <2>10, <2>11 DEF LayoutOf, LastRight, CreateRight,
         NewDirectoryRight, WriteRight, RemoveRight, Enters
    <2> QED BY <1>1, <1>3, <2>4, <2>12, BeginPlaced
  <1> QED BY <1>1, <1>2, <1>3, RefusePlaced

LEMMA ResizeLast ==
  ASSUME NEW call \in Call, call.kind = "write", ChainEnds(call.first),
         NEW n, n = Resize(call), n.step \in Appending, n.first = call.first
  PROVE  \/ n.last = Free /\ n.first = Free /\ n.step = "mark"
         \/ fat[n.last] = EndOfChain /\ n.last \in ChainSet(n.first)
  <1> DEFINE required == RequiredClusters(call.entry.size)
             have     == fat32_chain_length(call.first)
             last     == IF call.first = Free THEN Free
                         ELSE CHOOSE l \in LastCluster(call.first) : TRUE
             need     == required - have
             o        == [call EXCEPT !.need = need, !.last = last]
  <1>1. \/ last = Free /\ call.first = Free
        \/ fat[last] = EndOfChain /\ last \in ChainSet(call.first)
    BY DEF ChainEnds, LastCluster
  <1>2. \/ n = DataOrUpdate(call)
        \/ n = [call EXCEPT !.first = Free, !.cur = call.first, !.step = "free"]
        \/ n = [call EXCEPT !.need = required, !.step = "cut"]
        \/ n = GrowOrWrite(o)
    BY DEF Resize
  <1> HIDE DEF required, last, need
  <1>3. CASE n = GrowOrWrite(o)
    <2>1. n.step \in {"mark", "data", "update"} /\ n.last = last
      BY <1>3 DEF GrowOrWrite, DataOrUpdate, Call
    <2> QED BY <1>1, <2>1
  <1>4. CASE n # GrowOrWrite(o)
    <2>1. n.step \in {"data", "update", "free", "cut"}
      BY <1>2, <1>4 DEF DataOrUpdate, Call
    <2> QED BY <2>1
  <1> QED BY <1>3, <1>4

LEMMA WritePlaced ==
  ASSUME Placed, NEW path \in Paths, NEW offset \in Offsets, NEW length \in Lengths,
         fat32_write(path, offset, length)
  PROVE  Volume(op)' /\ LayoutOf(op)'
  <1>1. op.step = "idle" /\ UNCHANGED <<fat, slots>> /\ ~damaged'
    BY DEF fat32_write, Ready, Placed, Before
  <1>2. ASSUME NEW loc \in Lookup(path), offset + length < Word, EntryAt(loc).kind = "file",
               ChainEnds(EntryAt(loc).first),
               Begin(Resize(WriteCall(loc, EntryAt(loc), offset, length))),
               LET size == NewSize(EntryAt(loc), offset, length)
               IN ~(size > 0 /\ RequiredClusters(size) = 0)
        PROVE  Volume(op)' /\ LayoutOf(op)'
    <2>1. /\ loc \in LiveEntries /\ loc \in Location /\ EntrySound(loc, op) /\ Disk /\ Before
          /\ EntryAt(loc) \in Entry /\ FirstOf(loc) \in Clusters \cup {Free}
      BY LookupPlaced, PlacedFacts, FirstType DEF Placed
    <2> DEFINE size == NewSize(EntryAt(loc), offset, length)
               call == WriteCall(loc, EntryAt(loc), offset, length)
    <2>2. /\ call \in Call /\ call.kind = "write" /\ call.at = loc /\ call.first = FirstOf(loc)
          /\ call.entry = [EntryAt(loc) EXCEPT !.size = size]
          /\ call.entry.size = size /\ call.step = "idle"
      <3>1. /\ TypeInv /\ loc \in Location /\ EntryAt(loc) \in Entry
            /\ offset \in Offsets /\ length \in Lengths /\ offset + length < Word
        BY <1>2, <2>1 DEF Before
      <3> QED BY ONLY <3>1, WriteCallFields DEF FirstOf
    <2>3. FirstOf(loc) # Free => EntryAt(loc).size > 0
      BY <1>2, <2>1 DEF EntrySound
    <2>4. size >= EntryAt(loc).size /\ EntryAt(loc).size \in Nat /\ size \in Nat
      BY <2>1, NewSizeGrows
    <2>5. PICK n \in Call : op' = n
      BY PlacedFacts
    <2>6. n = Resize(call) /\ ChainEnds(call.first)
      BY <1>2, <2>2, <2>5 DEF Begin, FirstOf
    <2>7. ~(size > 0 /\ RequiredClusters(size) = 0)
      BY <1>2
    <2> HIDE DEF size, call
    <2>8. call.entry.kind = "file" /\ call.entry.name = EntryAt(loc).name
      BY <1>2, <2>1, <2>2 DEF Entry
    <2>9. /\ n.kind = "write" /\ n.at = loc /\ n.first = FirstOf(loc) /\ n.entry = call.entry
          /\ n.step # "free"
      <3>1. CASE RequiredClusters(size) # 0
        BY <2>2, <2>6, <3>1, ResizeFields
      <3>2. CASE RequiredClusters(size) = 0
        <4>1. size = 0 /\ FirstOf(loc) = Free
          BY <2>1, <2>3, <2>4, <2>7, <3>2
        <4>2. n = DataOrUpdate(call)
          BY <2>2, <2>6, <3>2, <4>1 DEF Resize
        <4> QED BY <2>2, <4>2 DEF DataOrUpdate, Call
      <3> QED BY <3>1, <3>2
    <2>10. n.step \in {"cut", "mark", "data", "update"}
      BY <2>2, <2>6, <2>9 DEF Resize, GrowOrWrite, DataOrUpdate, Call
    <2>11. LastRight(n)
      <3>1. n.step \in Appending =>
              \/ n.last = Free /\ n.first = Free /\ n.step = "mark"
              \/ fat[n.last] = EndOfChain /\ n.last \in ChainSet(n.first)
        BY <2>2, <2>6, <2>9, ResizeLast
      <3> QED BY <2>9, <3>1 DEF LastRight
    <2>12. WriteRight(n)
      <3>1. loc \in LiveOf("file")
        BY <1>2, <2>1 DEF LiveOf
      <3>2. \A c \in ChainSet(FirstOf(loc)) : Plain(c)
        BY <3>1, PlacedFacts DEF Volume, FilesPlain
      <3> QED BY <2>8, <2>9, <3>1, <3>2 DEF WriteRight
    <2>13. LayoutOf(n)
      BY <2>9, <2>10, <2>11, <2>12 DEF LayoutOf, DirectoryRight, SlotRight, CreateRight,
         NewDirectoryRight, RenameRight, RemoveRight, Enters
    <2> QED BY <1>1, <2>5, <2>13, BeginPlaced
  <1>3. \/ Refuse
        \/ \E loc \in Lookup(path) :
             /\ offset + length < Word /\ EntryAt(loc).kind = "file"
             /\ ChainEnds(EntryAt(loc).first)
             /\ Begin(Resize(WriteCall(loc, EntryAt(loc), offset, length)))
             /\ LET size == NewSize(EntryAt(loc), offset, length)
                IN ~(size > 0 /\ RequiredClusters(size) = 0)
    BY <1>1 DEF fat32_write
  <1> QED BY <1>1, <1>2, <1>3, RefusePlaced

LEMMA RequestPlaced ==
  ASSUME Placed, Request
  PROVE  Volume(op)' /\ LayoutOf(op)'
  BY CreateFilePlaced, CreateDirectoryPlaced, WritePlaced, RenamePlaced, RemovePlaced DEF Request

LEMMA NextPlaced ==
  ASSUME Placed, [Next]_vars
  PROVE  Volume(op)' /\ LayoutOf(op)'
  <1>1. CASE Step
    BY <1>1, FindSlotPlaced, DiskFullPlaced, MarkPlaced, ZeroPlaced, LinkPlaced, DotsPlaced,
       WriteEntryPlaced, UnlinkPlaced, UndoPlaced, CutPlaced, FreePlaced, WriteDataPlaced,
       UpdatePlaced DEF Step
  <1>2. CASE UNCHANGED vars
    <2>1. PICK m : m = op /\ op' = m
      BY <1>2 DEF vars
    <2>2. UNCHANGED <<fat, slots>> /\ Volume(m) /\ LayoutOf(m)
      BY <1>2, <2>1 DEF vars, Placed, Volume, DotsRight, Moving, LayoutOf, DirectoryRight, LastRight,
         SlotRight, CreateRight, NewDirectoryRight, WriteRight, RenameRight, RemoveRight, Enters
    <2>3. Volume(m)' /\ LayoutOf(m)'
      BY <2>2, UnchangedFrame, LayoutUnchanged
    <2>4. Volume(op)'
      BY <2>1, <2>3 DEF Volume, DotsRight, Moving
    <2> QED BY <2>1, <2>3, <2>4 DEF LayoutOf, DirectoryRight, LastRight, SlotRight, CreateRight,
            NewDirectoryRight, WriteRight, RenameRight, RemoveRight, Enters
  <1> QED BY <1>1, <1>2, RequestPlaced, WriteLostPlaced, PowerLossPlaced DEF Next

-----------------------------------------------------------------------------
(* The whole.                                                              *)

LEMMA InitPlaced == ASSUME Init PROVE Volume(op) /\ LayoutOf(op)
  <1>1. \A l \in Location : EntryAt(l) = Mark("end")
    BY DEF Init, EntryAt, Location
  <1>2. LiveEntries = {}
    BY <1>1 DEF LiveEntries, Live, Mark, fat32_build_entry
  <1>3. \A kind : LiveOf(kind) = {}
    BY <1>2 DEF LiveOf
  <1>4. \A c \in Clusters, s \in Slot : KindIn(c, s) = "end"
    BY DEF Init, KindIn, Mark, fat32_build_entry
  <1>5. EndsTidy
    <2>1. \A c \in Clusters : EndsOnce(c)
      BY <1>4, SlotNumbers DEF EndsOnce
    <2> QED BY <2>1 DEF EndsTidy, ChainSet
  <1>6. Volume(op)
    BY <1>2, <1>3, <1>5 DEF Volume, EntriesListed, FilesPlain, NamesApart, DotsRight
  <1>7. op.kind = "none" /\ op.step = "idle"
    BY DEF Init, Idle
  <1> QED BY <1>6, <1>7 DEF LayoutOf, DirectoryRight, LastRight, SlotRight, CreateRight,
          NewDirectoryRight, WriteRight, RenameRight, RemoveRight, Enters

(* At every moment of every call, with any disk faults outside the windows *)
(* of Fat32: every entry is in the chain of one directory and before its   *)
(* end mark, no two entries there have the same name, a directory begins   *)
(* with its dots, no directory entry and no mark is in the chain of a file *)
(* and the clusters and slots the operation in progress holds are what it  *)
(* read them to be.  The operations need all of it of each other: a lookup *)
(* sees only what lies before the end mark, so the name it misses is free  *)
(* only when nothing lies behind.                                          *)
THEOREM Fat32Arranged == Spec => []Arranged
  <1> DEFINE Inv == TypeInv /\ Arranged
  <1>1. Init => Inv
    <2> SUFFICES ASSUME Init PROVE Inv
      OBVIOUS
    <2>1. TypeInv /\ Ownership
      BY InitType, InitSound DEF Ownership, TypeInv
    <2>2. \A c \in Clusters : fat[c] \notin Clusters
      BY DEF Init, Clusters, EndOfChain, Free
    <2>3. op.step = "idle"
      BY DEF Init, Idle
    <2>4. ChainsFinite
      BY <2>2, <2>3 DEF ChainsFinite, NoCycle, AppendSound
    <2> QED BY <2>1, <2>4, InitPlaced DEF Arranged, Layout
  <1>2. Inv /\ [Next]_vars => Inv'
    <2> SUFFICES ASSUME Inv, [Next]_vars PROVE Inv'
      OBVIOUS
    <2>1. TypeInv'
      BY NextType
    <2>2. ~damaged' => ~damaged
      BY DamageStays DEF TypeInv, TypeOK
    <2>3. ~damaged' => Before
      BY <2>1, <2>2 DEF Before, Arranged, Ownership
    <2>4. ~damaged' => Sound(op)' /\ NoCycle' /\ AppendSound(op)'
      BY <2>2, <2>3, NextSound, NextChains DEF Arranged, ChainsFinite
    <2>5. ~damaged' => Placed
      BY <2>2, <2>3, <2>4 DEF Placed, Arranged, ChainsFinite, Layout
    <2>6. ~damaged' => Volume(op)' /\ LayoutOf(op)'
      BY <2>5, NextPlaced
    <2> QED BY <2>1, <2>4, <2>6 DEF Arranged, Ownership, TypeInv, ChainsFinite, Layout
  <1>3. Inv => Arranged
    OBVIOUS
  <1> QED BY <1>1, <1>2, <1>3, PTL DEF Spec

(* The directories below the root, level by level.                         *)
Children(above) ==
  {FirstOf(l) : l \in {m \in UNION {EntriesOf(d) : d \in above} : EntryAt(m).kind = "dir"}}

Levels(f, n) == f = [k \in 0 .. n |-> IF k = 0 THEN {Root} ELSE f[k - 1] \cup Children(f[k - 1])]

LEMMA LevelsIs ==
  ASSUME NEW n \in Nat, NEW f
  PROVE  Levels(f, n) <=> /\ f = [k \in 0 .. n |-> f[k]]
                          /\ f[0] = {Root}
                          /\ \A k \in 1 .. n : f[k] = f[k - 1] \cup Children(f[k - 1])
  <1>1. 0 \in 0 .. n /\ \A k \in 0 .. n : k # 0 <=> k \in 1 .. n
    OBVIOUS
  <1> QED BY ONLY <1>1 DEF Levels

LEMMA LevelsExist ==
  ASSUME NEW n \in Nat
  PROVE  \E f : Levels(f, n)
  <1> DEFINE Bad == {m \in Nat : ~\E f : Levels(f, m)}
  <1>1. ASSUME Bad # {}
        PROVE  FALSE
    <2>1. PICK m \in Bad : \A k \in Bad : m <= k
      <3>1. Bad \in SUBSET Nat
        OBVIOUS
      <3> HIDE DEF Bad
      <3> QED BY <1>1, <3>1, LeastNatural
    <2>2. m \in Nat /\ ~\E f : Levels(f, m)
      OBVIOUS
    <2>3. CASE m = 0
      <3> DEFINE f == [k \in 0 .. 0 |-> {Root}]
      <3>1. f = [k \in 0 .. 0 |-> f[k]] /\ f[0] = {Root}
        OBVIOUS
      <3> HIDE DEF f
      <3>2. Levels(f, 0)
        <4>1. 0 \in Nat /\ \A k \in 1 .. 0 : f[k] = f[k - 1] \cup Children(f[k - 1])
          OBVIOUS
        <4> QED BY ONLY <3>1, <4>1, LevelsIs
      <3> QED BY <2>2, <2>3, <3>2
    <2>4. CASE m # 0
      <3>1. m - 1 \in Nat /\ ~(m <= m - 1)
        BY <2>2, <2>4
      <3>2. PICK f : Levels(f, m - 1)
        BY <2>1, <3>1
      <3>3. f[0] = {Root} /\ \A k \in 1 .. m - 1 : f[k] = f[k - 1] \cup Children(f[k - 1])
        BY ONLY <3>1, <3>2, LevelsIs
      <3> DEFINE last == f[m - 1] \cup Children(f[m - 1])
                 g == [k \in 0 .. m |-> IF k = m THEN last ELSE f[k]]
      <3> HIDE DEF last
      <3>4. g = [k \in 0 .. m |-> g[k]]
        OBVIOUS
      <3>5. g[0] = {Root} /\ \A k \in 0 .. m - 1 : g[k] = f[k]
        BY <2>2, <2>4, <3>3
      <3>6. g[m] = last
        BY <2>2
      <3> HIDE DEF g
      <3>7. ASSUME NEW k \in 1 .. m
            PROVE  g[k] = g[k - 1] \cup Children(g[k - 1])
        <4>1. k - 1 \in 0 .. m - 1
          BY <2>2
        <4>2. CASE k = m
          BY <3>5, <3>6, <4>1, <4>2 DEF last
        <4>3. CASE k # m
          <5>1. k \in 1 .. m - 1 /\ k \in 0 .. m - 1
            BY <2>2, <4>3
          <5> QED BY <3>3, <3>5, <4>1, <5>1
        <4> QED BY <4>2, <4>3
      <3>8. Levels(g, m)
        BY <2>2, <3>4, <3>5, <3>7, LevelsIs
      <3> QED BY <2>2, <3>8
    <2> QED BY <2>3, <2>4
  <1> QED BY <1>1

LEMMA EntriesAre ==
  ASSUME NEW d, NEW l \in EntriesOf(d)
  PROVE  l \in LiveEntries /\ Within(l, d)
  <1>1. PICK p \in Positions(d) : l = LocationOf(d, p) /\ KindAt(d, p) \in Live
    BY DEF EntriesOf, Scanned
  <1> QED BY <1>1, PositionIn DEF LiveEntries

(* Every directory the root leads to is one that an entry names.           *)
LEMMA LevelsNamed ==
  ASSUME NEW f, Levels(f, N)
  PROVE  \A k \in 0 .. N : f[k] \subseteq DirectoryHeads
  <1>1. N \in Nat
    OBVIOUS
  <1>2. f[0] = {Root} /\ \A k \in 1 .. N : f[k] = f[k - 1] \cup Children(f[k - 1])
    BY ONLY Levels(f, N), <1>1, LevelsIs
  <1> DEFINE Bad == {k \in 0 .. N : ~(f[k] \subseteq DirectoryHeads)}
  <1>3. ASSUME Bad # {} PROVE FALSE
    <2>1. PICK k \in Bad : \A j \in Bad : k <= j
      <3>1. Bad \in SUBSET Nat
        OBVIOUS
      <3> HIDE DEF Bad
      <3> QED BY <1>3, <3>1, LeastNatural
    <2>2. k # 0
      BY <1>2 DEF DirectoryHeads
    <2>3. k \in 1 .. N /\ k - 1 \in 0 .. N /\ ~(k <= k - 1)
      BY <2>2
    <2>4. ~(f[k] \subseteq DirectoryHeads) /\ f[k - 1] \subseteq DirectoryHeads
      BY <2>1, <2>3
    <2>5. Children(f[k - 1]) \subseteq DirectoryHeads
      <3> SUFFICES ASSUME NEW d, NEW l \in EntriesOf(d), EntryAt(l).kind = "dir"
                   PROVE  FirstOf(l) \in DirectoryHeads
        BY DEF Children
      <3> QED BY EntriesAre DEF DirectoryHeads, LiveOf
    <2> QED BY <1>2, <2>3, <2>4, <2>5
  <1> QED BY <1>3

LEMMA DirectoriesNamed == Directories \subseteq DirectoryHeads
  <1> DEFINE f == CHOOSE g : Levels(g, N)
  <1>1. Levels(f, N)
    BY LevelsExist
  <1>2. Directories = f[N]
    BY Zenon DEF Directories, Levels, Children
  <1> HIDE DEF f
  <1>3. N \in 0 .. N
    OBVIOUS
  <1> QED BY <1>1, <1>2, <1>3, LevelsNamed

(* Between operations a directory holds a name once, whatever the calls,   *)
(* and whatever disk faults struck outside the windows: so a path leads to *)
(* one file, and to the same one for every operation.                      *)
THEOREM Fat32NamesUnique == Spec => []NamesUnique
  <1>1. Arranged => NamesUnique
    <2> SUFFICES ASSUME Arranged, Quiet, NEW d \in Directories, NEW l \in EntriesOf(d),
                        NEW m \in EntriesOf(d), l # m
                 PROVE  EntryAt(l).name # EntryAt(m).name
      BY DEF NamesUnique
    <2>1. d \in DirectoryHeads /\ l \in LiveEntries /\ m \in LiveEntries
          /\ Within(l, d) /\ Within(m, d)
      BY DirectoriesNamed, EntriesAre
    <2>2. NamesApart
      BY DEF Arranged, Layout, Quiet, Volume
    <2> QED BY <2>1, <2>2 DEF NamesApart
  <1> QED BY <1>1, Fat32Arranged, PTL

-----------------------------------------------------------------------------
(* What an operation leaves alone.                                         *)

(* What a step does to the files that are not its own, and to the last     *)
(* entries of the chains.                                                  *)
FileKept(l) ==
  /\ EntryAt(l)' = EntryAt(l)
  /\ \A c \in ChainSet(FirstOf(l)) : fat'[c] = fat[c] /\ slots'[c] = slots[c]
Others(o) == {l \in LiveOf("file") : ~CalledFor(o, l)}
OthersKept == \A l \in Others(op) : FileKept(l)
ChainsNamed ==
  op.kind # "remove" => \A l \in LiveEntries : FirstOf(l) # Free =>
                          \E m \in LiveEntries' : FirstOf(m)' = FirstOf(l)

EntriesStay == LiveEntries' = LiveEntries /\ \A l \in LiveEntries : EntryAt(l)' = EntryAt(l)

LEMMA NamesSame ==
  ASSUME EntriesStay
  PROVE  ChainsNamed
  BY DEF ChainsNamed, FirstOf, EntriesStay

(* The file of another shares no cluster with a directory or with the file *)
(* being written.                                                          *)
LEMMA OtherApart ==
  ASSUME Placed, NEW l \in Others(op)
  PROVE  /\ l \in LiveEntries /\ l \in Location /\ ChainSet(FirstOf(l)) \subseteq Clusters
         /\ \A d \in DirectoryHeads : ChainSet(d) \cap ChainSet(FirstOf(l)) = {}
         /\ \E d \in DirectoryHeads : Within(l, d)
         /\ op.kind = "write" => ChainSet(op.first) \cap ChainSet(FirstOf(l)) = {}
         /\ FirstOf(l) # Free => ~Pointed(FirstOf(l)) /\ fat[FirstOf(l)] # Free
  <1>1. /\ l \in LiveOf("file") /\ l \in LiveEntries /\ l \in Location
        /\ op.kind \in {"write", "remove"} => l # op.at
    BY DEF Others, CalledFor, LiveOf, LiveEntries
  <1>2. FirstOf(l) # Free => ~Pointed(FirstOf(l)) /\ fat[FirstOf(l)] # Free
    BY <1>1, PlacedFacts DEF EntrySound
  <1>3. FirstOf(l) = Free => ChainSet(FirstOf(l)) = {}
    BY PlacedFacts, Chains, FreeOutside DEF Placed
  <1>4. ASSUME op.kind = "write"
        PROVE  ChainSet(op.first) \cap ChainSet(FirstOf(l)) = {}
    <2>1. Holds(op)
      BY <1>4, PlacedFacts DEF CallSound
    <2>2. CASE op.first = Free
      <3>1. ChainSet(op.first) = {}
        BY <2>2, PlacedFacts, Chains, FreeOutside DEF Placed
      <3> QED BY <3>1
    <2>3. CASE Loose(op.first)
      <3>1. op.first # FirstOf(l) /\ ~Pointed(op.first)
        BY <1>1, <2>3 DEF Loose, Named
      <3> QED BY <1>2, <1>3, <3>1, PlacedFacts, Chains DEF Placed
    <2>4. CASE op.at \in LiveEntries /\ FirstOf(op.at) = op.first /\ op.first # Free
      <3>1. EntrySound(op.at, op) /\ ~Twins(op, op.at, l)
        BY <1>4, <2>4, PlacedFacts DEF Twins
      <3>2. op.first # FirstOf(l) /\ ~Pointed(op.first)
        BY <1>1, <1>4, <2>4, <3>1 DEF EntrySound
      <3> QED BY <1>2, <1>3, <3>2, PlacedFacts, Chains DEF Placed
    <2> QED BY <2>1, <2>2, <2>3, <2>4 DEF Holds
  <1>5. \E d \in DirectoryHeads : Within(l, d)
    BY <1>1, PlacedFacts DEF Volume, EntriesListed
  <1>6. /\ ChainSet(FirstOf(l)) \subseteq Clusters
        /\ \A d \in DirectoryHeads : ChainSet(d) \cap ChainSet(FirstOf(l)) = {}
    BY <1>1, PlacedFacts, Chains DEF Placed, Separate
  <1> QED BY <1>1, <1>2, <1>4, <1>5, <1>6

LEMMA UnchangedKeeps ==
  ASSUME UNCHANGED <<fat, slots>>
  PROVE  OthersKept /\ EntriesStay
  <1>1. LiveEntries' = LiveEntries /\ \A l : EntryAt(l)' = EntryAt(l)
    BY SlotsSame
  <1> QED BY <1>1 DEF OthersKept, FileKept, EntriesStay

(* The table changes at one cluster, which is of no other file.            *)
LEMMA TableKeeps ==
  ASSUME Placed, UNCHANGED slots, NEW c, \A b \in Clusters \ {c} : fat'[b] = fat[b],
         \A l \in Others(op) : c \notin ChainSet(FirstOf(l))
  PROVE  OthersKept /\ EntriesStay
  <1>1. LiveEntries' = LiveEntries /\ \A l : EntryAt(l)' = EntryAt(l)
    BY SlotsSame
  <1>2. \A l \in Others(op) : ChainSet(FirstOf(l)) \subseteq Clusters
    BY OtherApart
  <1> QED BY <1>1, <1>2 DEF OthersKept, FileKept, EntriesStay

(* The slots of one cluster change, which is of no other file and whose    *)
(* entries, if it has any, stay.                                           *)
LEMMA RowKeeps ==
  ASSUME Placed, UNCHANGED fat, NEW c, \A b \in Clusters \ {c} : slots'[b] = slots[b],
         \A l \in Others(op) : c \notin ChainSet(FirstOf(l)),
         EntriesStay
  PROVE  OthersKept
  <1>1. \A l \in Others(op) : ChainSet(FirstOf(l)) \subseteq Clusters /\ l \in LiveEntries
    BY OtherApart
  <1> QED BY <1>1 DEF OthersKept, FileKept, EntriesStay

(* One slot of a directory changes, which is not the entry of another.     *)
LEMMA PutKeeps ==
  ASSUME Placed, UNCHANGED fat, NEW loc \in Location, NEW e, PutEntry(loc, e),
         loc \notin Others(op), NEW d \in DirectoryHeads, Within(loc, d)
  PROVE  OthersKept
  <1> SUFFICES ASSUME NEW l \in Others(op) PROVE FileKept(l)
    BY DEF OthersKept
  <1>1. l \in Location /\ l # loc
    BY OtherApart
  <1>2. EntryAt(l)' = EntryAt(l)
    BY <1>1, PlacedFacts, SlotPut
  <1>3. loc.cluster \notin ChainSet(FirstOf(l)) /\ ChainSet(FirstOf(l)) \subseteq Clusters
    BY OtherApart DEF Within
  <1>4. \A c \in Clusters : c # loc.cluster => slots'[c] = slots[c]
    BY PlacedFacts DEF PutEntry, Disk
  <1> QED BY <1>2, <1>3, <1>4 DEF FileKept

LEMMA MarkKeeps == ASSUME Placed, MarkCluster PROVE OthersKept /\ EntriesStay
  <1>1. PICK c \in Clusters : fat[c] = Free /\ fat' = [fat EXCEPT ![c] = EndOfChain] /\ UNCHANGED slots
    BY DEF MarkCluster, Lowest, FreeClusters
  <1>2. \A b \in Clusters \ {c} : fat'[b] = fat[b]
    BY <1>1, PlacedFacts DEF Disk
  <1>3. ASSUME NEW l \in Others(op), c \in ChainSet(FirstOf(l)) PROVE FALSE
    <2>1. FirstOf(l) # Free
      BY <1>3, PlacedFacts, Chains, FreeOutside DEF Placed
    <2>2. fat[FirstOf(l)] # Free /\ Disjoint(fat)
      BY <2>1, OtherApart, PlacedFacts, TableFacts DEF Placed
    <2> QED BY <1>1, <1>3, <2>2, ChainIs, ChainAllocated
  <1> QED BY <1>1, <1>2, <1>3, TableKeeps

LEMMA ZeroKeeps == ASSUME Placed, ZeroCluster PROVE OthersKept /\ EntriesStay
  <1>1. PICK c \in Clusters : c = op.new
    BY PlacedFacts DEF ZeroCluster, CallOK
  <1>2. Loose(c) /\ UNCHANGED fat /\ slots' = [slots EXCEPT ![c] = [s \in Slot |-> Mark("end")]]
    BY <1>1, PlacedFacts DEF ZeroCluster, CallSound
  <1>3. /\ \A s \in Slot : KindIn(c, s)' = "end"
        /\ \A b \in Clusters \ {c} : slots'[b] = slots[b]
    BY <1>2, PlacedFacts, RowMarked
  <1>4. /\ \A d \in DirectoryHeads : c \notin ChainSet(d)
        /\ \A l \in LiveEntries : c \notin ChainSet(FirstOf(l))
        /\ Barren(c) /\ Barren(c)' /\ Plain(c)'
    BY <1>2, <1>3, LooseOutside DEF Plain, Barren, Live
  <1>5. EntriesStay
    <2>1. PICK n : n = op
      OBVIOUS
    <2>2. Volume(n) /\ Disk /\ Disk' /\ Separate
      BY <2>1, PlacedFacts
    <2> QED BY ONLY <1>2, <1>3, <1>4, <2>2, VolumeRow DEF EntriesStay
  <1>6. \A l \in Others(op) : c \notin ChainSet(FirstOf(l))
    BY <1>4, OtherApart
  <1> QED BY ONLY Placed, <1>2, <1>3, <1>5, <1>6, RowKeeps

LEMMA LinkKeeps == ASSUME Placed, LinkCluster PROVE OthersKept /\ EntriesStay
  <1>1. /\ op.step = "link" /\ UNCHANGED slots /\ fat' = [fat EXCEPT ![op.last] = op.new]
        /\ op.kind \in {"create_file", "create_directory", "write", "rename"} /\ LastRight(op)
    BY PlacedFacts DEF LinkCluster, StepOK, Call
  <1>2. \A b \in Clusters \ {op.last} : fat'[b] = fat[b]
    BY <1>1, PlacedFacts DEF Disk
  <1>3. \/ op.kind = "write" /\ op.last \in ChainSet(op.first)
        \/ op.kind # "write" /\ op.last \in ChainSet(op.dir)
    BY <1>1 DEF LastRight
  <1>4. op.kind # "write" => op.dir \in DirectoryHeads
    BY <1>1, PlacedFacts DEF DirectoryRight, Enters
  <1>5. \A l \in Others(op) : op.last \notin ChainSet(FirstOf(l))
    BY <1>3, <1>4, OtherApart
  <1> QED BY <1>1, <1>2, <1>5, TableKeeps

LEMMA CutKeeps == ASSUME Placed, CutChain PROVE OthersKept /\ EntriesStay
  <1>1. op.step = "cut" /\ op.kind = "write"
    BY PlacedFacts DEF CutChain, StepOK, Call
  <1>2. CASE Fail
    BY <1>2, UnchangedKeeps DEF Fail
  <1>3. CASE ~Fail
    <2>1. PICK c \in Clusters : /\ c = ClusterAt(op.first, op.need - 1) /\ UNCHANGED slots
                                /\ fat' = [fat EXCEPT ![c] = EndOfChain]
      BY <1>3 DEF CutChain
    <2>2. c \in ChainSet(op.first)
      BY <2>1, FreeOutside DEF ClusterAt, ChainSet
    <2>3. \A b \in Clusters \ {c} : fat'[b] = fat[b]
      BY <2>1, PlacedFacts DEF Disk
    <2>4. \A l \in Others(op) : c \notin ChainSet(FirstOf(l))
      BY <1>1, <2>2, OtherApart
    <2> QED BY <2>1, <2>3, <2>4, TableKeeps
  <1> QED BY <1>2, <1>3

LEMMA FreeKeeps == ASSUME Placed, FreeCluster PROVE OthersKept /\ EntriesStay
  <1>1. PICK c : c = op.cur
    OBVIOUS
  <1>2. /\ fat' = [fat EXCEPT ![c] = Free] /\ UNCHANGED slots /\ c \in Clusters /\ ~Pointed(c)
        /\ \A l \in LiveEntries : FirstOf(l) = c => CalledFor(op, l)
    BY <1>1, PlacedFacts DEF FreeCluster, CallSound, CalledFor
  <1>3. \A b \in Clusters \ {c} : fat'[b] = fat[b]
    BY <1>2, PlacedFacts DEF Disk
  <1>4. \A l \in Others(op) : c \notin ChainSet(FirstOf(l))
    BY <1>2, OtherApart, PlacedFacts, Chains DEF Placed, Others
  <1> QED BY <1>2, <1>3, <1>4, TableKeeps

LEMMA WriteDataKeeps == ASSUME Placed, WriteData PROVE OthersKept /\ EntriesStay
  <1>1. op.step = "data" /\ op.kind = "write"
    BY PlacedFacts DEF WriteData, StepOK, Call
  <1>2. CASE Fail
    BY <1>2, UnchangedKeeps DEF Fail
  <1>3. CASE ~Fail
    <2>1. PICK n \in Call : n = op
      BY PlacedFacts
    <2>2. PICK c \in Clusters :
            /\ c = ClusterAt(n.first, n.pos) /\ UNCHANGED fat
            /\ slots' = [slots EXCEPT ![c] = [s \in Slot |-> Mark("data")]]
      BY <1>3, <2>1 DEF WriteData
    <2>3. c \in ChainSet(n.first)
      BY <2>2, FreeOutside DEF ClusterAt, ChainSet
    <2>4. /\ \A s \in Slot : KindIn(c, s)' = "data"
          /\ \A b \in Clusters \ {c} : slots'[b] = slots[b]
      <3>1. Disk /\ "data" \in Kinds
        BY PlacedFacts
      <3> QED BY ONLY <2>2, <3>1, RowMarked
    <2>5. Plain(c)
      BY <1>1, <2>1, <2>3, PlacedFacts DEF WriteRight
    <2>6. /\ Barren(c) /\ Barren(c)' /\ Plain(c)'
          /\ \A d \in DirectoryHeads : c \notin ChainSet(d)
      BY <1>1, <2>1, <2>3, <2>4, <2>5, WriteApart DEF Plain, Barren, Live
    <2>7. EntriesStay
      <3>1. Volume(n) /\ Disk /\ Disk' /\ Separate
        BY <2>1, PlacedFacts
      <3> QED BY ONLY <2>2, <2>4, <2>6, <3>1, VolumeRow DEF EntriesStay
    <2>8. \A l \in Others(op) : c \notin ChainSet(FirstOf(l))
      BY <1>1, <2>1, <2>3, OtherApart
    <2> QED BY ONLY Placed, <2>2, <2>4, <2>7, <2>8, RowKeeps
  <1> QED BY <1>2, <1>3

LEMMA DotsKeep == ASSUME Placed, WriteDots PROVE OthersKept /\ EntriesStay
  <1>1. PICK c : c = op.first
    OBVIOUS
  <1> DEFINE dot == fat32_build_entry("dot", NoName, c, 0)
             dotdot == fat32_build_entry("dotdot", NoName, op.dir, 0)
  <1>2. /\ op.step = "dots" /\ UNCHANGED fat /\ slots' = [slots EXCEPT ![c][0] = dot, ![c][1] = dotdot]
        /\ op.kind \in {"create_directory", "rename"}
    BY <1>1, PlacedFacts DEF WriteDots, StepOK, Call
  <1>3. /\ c \in Clusters /\ KindIn(c, 0) \notin Live /\ KindIn(c, 1) \notin Live
        /\ \A l \in Others(op) : c \notin ChainSet(FirstOf(l))
    <2>1. CASE op.kind = "create_directory"
      <3>1. Loose(c) /\ c \in Clusters
        BY <1>1, <1>2, <2>1, PlacedFacts DEF CallSound, CreateRight, Loose
      <3> QED BY <3>1, SlotNumbers, LooseOutside, OtherApart DEF Barren
    <2>2. CASE op.kind = "rename"
      <3>1. /\ op.at \in LiveEntries /\ op.entry.kind = "dir" /\ op.slot # op.at
            /\ op.entry = [EntryAt(op.at) EXCEPT !.name = op.entry.name] /\ op.entry.first = c
        BY <1>1, <1>2, <2>2, PlacedFacts DEF RenameRight, CallSound
      <3>2. EntryAt(op.at) \in Entry
        BY <3>1, PlacedFacts, FirstType DEF LiveEntries
      <3>3. EntryAt(op.at).kind = "dir" /\ FirstOf(op.at) = c
        BY <3>1, <3>2 DEF Entry, FirstOf
      <3>4. op.at \in LiveOf("dir") /\ c \in DirectoryHeads
        BY <3>1, <3>3 DEF LiveOf, DirectoryHeads
      <3>5. PICK d \in DirectoryHeads : Within(op.at, d)
        BY <3>1, PlacedFacts DEF Volume, EntriesListed
      <3>6. Dot(c) /\ DotDot(c, d)
        BY <1>2, <3>1, <3>3, <3>4, <3>5, PlacedFacts DEF Volume, DotsRight, Moving
      <3>7. c \in Clusters /\ c \in ChainSet(c)
        BY <3>4, PlacedFacts DEF Separate
      <3>8. KindIn(c, 0) = "dot" /\ KindIn(c, 1) = "dotdot"
        BY <3>6 DEF Dot, DotDot, KindIn, fat32_build_entry
      <3> QED BY <3>4, <3>7, <3>8, OtherApart DEF Live
    <2> QED BY <1>2, <2>1, <2>2
  <1>4. /\ \A b \in Clusters \ {c} : slots'[b] = slots[b]
        /\ \A s \in Slot : slots'[c][s] = IF s = 0 THEN dot ELSE IF s = 1 THEN dotdot ELSE slots[c][s]
    <2> HIDE DEF dot, dotdot
    <2> QED BY <1>2, <1>3, PlacedFacts, SlotNumbers DEF Disk
  <1>5. dot.kind \notin Live /\ dotdot.kind \notin Live
    BY DEF fat32_build_entry, Live
  <1> HIDE DEF dot, dotdot
  <1>6. ASSUME NEW l \in Location
        PROVE  \/ EntryAt(l)' = EntryAt(l)
               \/ EntryAt(l)'.kind \notin Live /\ EntryAt(l).kind \notin Live
    <2>1. l.cluster \in Clusters /\ l.slot \in Slot
      BY DEF Location
    <2>2. CASE l.cluster # c
      BY <1>4, <2>1, <2>2 DEF EntryAt
    <2>3. CASE l.cluster = c /\ l.slot \notin {0, 1}
      BY <1>4, <2>1, <2>3 DEF EntryAt
    <2>4. CASE l.cluster = c /\ l.slot = 0
      BY <1>3, <1>4, <1>5, <2>1, <2>4 DEF EntryAt, KindIn
    <2>5. CASE l.cluster = c /\ l.slot = 1
      BY <1>3, <1>4, <1>5, <2>1, <2>5 DEF EntryAt, KindIn
    <2> QED BY <2>2, <2>3, <2>4, <2>5
  <1>7. EntriesStay
    BY <1>6 DEF LiveEntries, EntriesStay
  <1> QED BY ONLY Placed, <1>2, <1>3, <1>4, <1>7, RowKeeps

(* The entry is written: over no live one, or over the one it replaces.    *)
LEMMA WriteEntryKeeps == ASSUME Placed, WriteEntry PROVE OthersKept /\ ChainsNamed
  <1>1. /\ op.step = "entry" /\ UNCHANGED fat /\ PutEntry(op.slot, op.entry) /\ op.slot \in Location
        /\ op.kind \in {"create_file", "create_directory", "rename"} /\ SlotRight(op)
    BY PlacedFacts DEF WriteEntry, StepOK, Call
  <1>2. op.dir \in DirectoryHeads /\ Within(op.slot, op.dir)
    BY <1>1, PlacedFacts DEF DirectoryRight, Enters, SlotRight
  <1>3. OthersKept
    <2>1. op.slot \notin Others(op)
      BY <1>1 DEF Others, CalledFor, LiveOf, LiveEntries, SlotRight, Live
    <2> QED BY <1>1, <1>2, <2>1, PutKeeps
  <1>4. ASSUME NEW l \in LiveEntries
        PROVE  l \in LiveEntries' /\ FirstOf(l)' = FirstOf(l)
    <2>1. l \in Location
      BY DEF LiveEntries
    <2>2. CASE l # op.slot
      BY <1>1, <2>1, <2>2, PlacedFacts, SlotPut
    <2>3. CASE l = op.slot
      <3>1. EntryAt(l).kind \in Live
        BY DEF LiveEntries
      <3>2. op.kind = "rename" /\ op.slot = op.at
        BY <1>1, <2>3, <3>1 DEF SlotRight, Live
      <3>3. op.entry = [EntryAt(l) EXCEPT !.name = op.entry.name] /\ EntryAt(l) \in Entry
        BY <2>1, <2>3, <3>2, PlacedFacts, FirstType DEF RenameRight
      <3>4. op.entry.kind = EntryAt(l).kind /\ op.entry.first = EntryAt(l).first
        BY <3>3 DEF Entry
      <3>5. op.slot \in LiveEntries' <=> op.entry.kind \in Live
        BY <1>1, PlacedFacts, SlotPut
      <3>6. FirstOf(l)' = op.entry.first
        BY <1>1, <2>1, <2>3, PlacedFacts, SlotPut
      <3> QED BY <2>3, <3>1, <3>4, <3>5, <3>6 DEF FirstOf
    <2> QED BY <2>2, <2>3
  <1> QED BY <1>3, <1>4 DEF ChainsNamed

(* A rename in two entries: both lead to the same chain.                   *)
LEMMA RenameTwins ==
  ASSUME Placed, op.kind = "rename", op.step \in {"dots", "unlink", "undo"}
  PROVE  /\ op.at \in LiveEntries /\ op.slot \in LiveEntries /\ op.at # op.slot
         /\ FirstOf(op.at) = FirstOf(op.slot)
  <1>1. /\ op.at \in LiveEntries /\ op.slot \in LiveEntries /\ op.at # op.slot
        /\ op.entry = [EntryAt(op.at) EXCEPT !.name = op.entry.name] /\ EntryAt(op.slot) = op.entry
    BY PlacedFacts DEF RenameRight
  <1>2. EntryAt(op.at) \in Entry
    BY <1>1, PlacedFacts, FirstType DEF LiveEntries
  <1>3. op.entry.first = EntryAt(op.at).first
    BY <1>1, <1>2 DEF Entry
  <1> QED BY <1>1, <1>3 DEF FirstOf

LEMMA UnlinkKeeps == ASSUME Placed, UnlinkEntry PROVE OthersKept /\ ChainsNamed
  <1>1. /\ op.step = "unlink" /\ UNCHANGED fat /\ PutEntry(op.at, Mark("deleted"))
        /\ op.kind \in {"rename", "remove"}
    BY PlacedFacts DEF UnlinkEntry, StepOK, Call
  <1>2. op.at \in LiveEntries /\ op.at \in Location
    BY <1>1, PlacedFacts DEF RenameRight, RemoveRight, LiveEntries
  <1>3. PICK d \in DirectoryHeads : Within(op.at, d)
    BY <1>2, PlacedFacts DEF Volume, EntriesListed
  <1>4. OthersKept
    <2>1. op.at \notin Others(op)
      BY <1>1 DEF Others, CalledFor
    <2> QED BY <1>1, <1>2, <1>3, <2>1, PutKeeps
  <1>5. ASSUME op.kind = "rename", NEW l \in LiveEntries
        PROVE  \E m \in LiveEntries' : FirstOf(m)' = FirstOf(l)
    <2>1. \A m \in LiveEntries : m # op.at => m \in LiveEntries' /\ FirstOf(m)' = FirstOf(m)
      BY <1>1, <1>2, PlacedFacts, SlotPut
    <2> QED BY <1>1, <1>5, <2>1, RenameTwins
  <1> QED BY <1>1, <1>4, <1>5 DEF ChainsNamed

LEMMA UndoKeeps == ASSUME Placed, UndoEntry PROVE OthersKept /\ ChainsNamed
  <1>1. /\ op.step = "undo" /\ UNCHANGED fat /\ PutEntry(op.slot, Mark("deleted"))
        /\ op.kind = "rename"
    BY PlacedFacts DEF UndoEntry, StepOK, Call
  <1>2. op.slot \in LiveEntries /\ op.slot \in Location
    BY <1>1, RenameTwins DEF LiveEntries
  <1>3. PICK d \in DirectoryHeads : Within(op.slot, d)
    BY <1>2, PlacedFacts DEF Volume, EntriesListed
  <1>4. OthersKept
    <2>1. op.entry.kind = "dir" /\ EntryAt(op.slot) = op.entry
      BY <1>1, PlacedFacts DEF RenameRight
    <2>2. op.slot \notin Others(op)
      BY <2>1 DEF Others, LiveOf
    <2> QED BY <1>1, <1>2, <1>3, <2>2, PutKeeps
  <1>5. \A m \in LiveEntries : m # op.slot => m \in LiveEntries' /\ FirstOf(m)' = FirstOf(m)
    BY <1>1, <1>2, PlacedFacts, SlotPut
  <1> QED BY <1>1, <1>4, <1>5, RenameTwins DEF ChainsNamed

LEMMA UpdateKeeps == ASSUME Placed, UpdateEntry PROVE OthersKept /\ ChainsNamed
  <1>1. PICK e : e = [op.entry EXCEPT !.first = op.first]
    OBVIOUS
  <1>2. /\ op.step = "update" /\ UNCHANGED fat /\ PutEntry(op.at, e) /\ op.kind = "write"
    BY <1>1, PlacedFacts DEF UpdateEntry, StepOK, Call
  <1>3. /\ op.at \in LiveEntries /\ op.at \in Location /\ FirstOf(op.at) \in {Free, op.first}
        /\ op.entry.kind = "file"
    BY <1>2, PlacedFacts DEF WriteRight, LiveOf, LiveEntries
  <1>4. e.kind = "file" /\ e.first = op.first
    BY <1>1, <1>3, PlacedFacts DEF Call, Entry
  <1>5. PICK d \in DirectoryHeads : Within(op.at, d)
    BY <1>3, PlacedFacts DEF Volume, EntriesListed
  <1>6. OthersKept
    <2>1. op.at \notin Others(op)
      BY <1>2 DEF Others, CalledFor
    <2> QED BY <1>2, <1>3, <1>5, <2>1, PutKeeps
  <1>7. PICK a : a = op.at
    OBVIOUS
  <1>8. /\ \A m \in LiveEntries : m # op.at => m \in LiveEntries' /\ FirstOf(m)' = FirstOf(m)
        /\ a \in LiveEntries' /\ FirstOf(a)' = op.first
    BY <1>2, <1>3, <1>4, <1>7, PlacedFacts, SlotPut DEF Live
  <1> QED BY <1>3, <1>6, <1>7, <1>8 DEF ChainsNamed

LEMMA NextKeeps == ASSUME Placed, [Next]_vars PROVE OthersKept /\ ChainsNamed
  <1>1. Request \/ WriteLost \/ PowerLoss \/ UNCHANGED vars \/ FindSlot \/ DiskFull
          => UNCHANGED <<fat, slots>>
    BY DEF Request, fat32_create_file, fat32_create_directory, fat32_write, fat32_rename,
       fat32_remove, WriteLost, PowerLoss, vars, FindSlot, DiskFull, Fail
  <1> QED BY <1>1, UnchangedKeeps, NamesSame, MarkKeeps, ZeroKeeps, LinkKeeps, DotsKeep, WriteEntryKeeps,
         UnlinkKeeps, UndoKeeps, CutKeeps, FreeKeeps, WriteDataKeeps, UpdateKeeps DEF Next, Step

LEMMA ArrangedPlaced ==
  ASSUME TypeOK, TypeOK', Arranged, Arranged', [Next]_vars, ~damaged'
  PROVE  Placed
  <1>1. TypeInv /\ TypeInv'
    BY DEF TypeInv, Arranged, Ownership
  <1>2. ~damaged
    BY <1>1, DamageStays DEF TypeInv, TypeOK
  <1> QED BY <1>1, <1>2 DEF Placed, Before, Arranged, Ownership, ChainsFinite, Layout

(* No step of an operation, and no fault outside the windows, touches      *)
(* another file: neither its entry nor its clusters nor their links.       *)
THEOREM Fat32OthersUntouched == Spec => OthersUntouched
  <1>1. TypeOK /\ TypeOK' /\ Arranged /\ Arranged' /\ [Next]_vars =>
          [\A l \in LiveEntries :
             ~damaged' /\ EntryAt(l).kind = "file" /\ ~CalledFor(op, l) =>
               /\ EntryAt(l)' = EntryAt(l)
               /\ \A c \in ChainSet(FirstOf(l)) : fat'[c] = fat[c] /\ slots'[c] = slots[c]]_vars
    <2> SUFFICES ASSUME TypeOK, TypeOK', Arranged, Arranged', [Next]_vars, ~damaged',
                        NEW l \in LiveEntries, EntryAt(l).kind = "file", ~CalledFor(op, l)
                 PROVE  FileKept(l)
      BY DEF FileKept
    <2> QED BY ArrangedPlaced, NextKeeps DEF OthersKept, Others, LiveOf
  <1> QED BY <1>1, Fat32TypeOK, Fat32Arranged, PTL DEF Spec, OthersUntouched

(* No step but one of a removal takes away the last entry of a chain, so a *)
(* rename never has a moment in which a power failure would lose the file. *)
THEOREM Fat32OnlyRemovalDrops == Spec => OnlyRemovalDrops
  <1>1. TypeOK /\ TypeOK' /\ Arranged /\ Arranged' /\ [Next]_vars =>
          [\A l \in LiveEntries :
             ~damaged' /\ FirstOf(l) # Free /\ op.kind # "remove" =>
               \E m \in LiveEntries' : FirstOf(m)' = FirstOf(l)]_vars
    BY ArrangedPlaced, NextKeeps DEF ChainsNamed
  <1> QED BY <1>1, Fat32TypeOK, Fat32Arranged, PTL DEF Spec, OnlyRemovalDrops

-----------------------------------------------------------------------------
(* The tree of directories.                                                *)

(* What a step does to the entries of the directories that stay.           *)
LEMMA UpwardStep ==
  ASSUME NEW o, NEW n, Upward(o), DirectoryHeads' \subseteq DirectoryHeads,
         \A h \in DirectoryHeads', d \in DirectoryHeads :
           Leads(h, d, o) => d \in DirectoryHeads' /\ Leads(h, d, n)'
  PROVE  Upward(n)'
  <1> SUFFICES ASSUME NEW S \in SUBSET (DirectoryHeads' \ {Root}), S # {}
               PROVE  \E h \in S, d \in DirectoryHeads' \ S : Leads(h, d, n)'
    BY DEF Upward
  <1>1. PICK h \in S, d \in DirectoryHeads \ S : Leads(h, d, o)
    BY DEF Upward
  <1> QED BY <1>1

LEMMA TableStep ==
  ASSUME Placed, [Next]_vars, ~LinkCluster
  PROVE  \A c \in Clusters : fat'[c] = fat[c] \/ fat'[c] \notin Clusters
  <1>1. Disk
    BY PlacedFacts
  <1>2. CASE UNCHANGED fat
    BY <1>2
  <1>3. CASE MarkCluster
    BY <1>1, <1>3, FreeOutside DEF MarkCluster, Disk
  <1>4. CASE CutChain
    BY <1>1, <1>4, FreeOutside DEF CutChain, Disk, Fail
  <1>5. CASE FreeCluster
    BY <1>1, <1>5, FreeOutside DEF FreeCluster, Disk
  <1>6. \/ UNCHANGED fat \/ MarkCluster \/ CutChain \/ FreeCluster
    BY DEF Next, Step, vars, Request, fat32_create_file, fat32_create_directory, fat32_write, fat32_rename,
       fat32_remove, WriteLost, PowerLoss, FindSlot, DiskFull, Fail, ZeroCluster, WriteDots, WriteEntry,
       UnlinkEntry, UndoEntry, WriteData, UpdateEntry
  <1> QED BY <1>2, <1>3, <1>4, <1>5, <1>6

LEMMA LinkWithin ==
  ASSUME Placed, LinkCluster
  PROVE  \A l \in LiveEntries : \A d : Within(l, d) => Within(l, d)'
  <1>1. PICK n \in Call : n = op
    BY PlacedFacts
  <1> DEFINE new == n.new  last == n.last
  <1>2. /\ n.step = "link" /\ fat' = [fat EXCEPT ![last] = new]
        /\ Disk /\ TableSound /\ NoCycle /\ NoCycle'
    BY <1>1, PlacedFacts DEF LinkCluster, Placed
  <1>3. new \in Clusters /\ fat[new] = EndOfChain /\ new # last
    BY <1>1, <1>2, PlacedFacts DEF Placed, AppendSound, CallOK
  <1>4. fat[last] = EndOfChain /\ last \in Clusters
    BY <1>1, <1>2, PlacedFacts DEF LastRight, ChainSet
  <1>5. \A f : ChainSet(f)' = ChainSet(f) \cup (IF last \in ChainSet(f) THEN {new} ELSE {})
    BY ONLY <1>2, <1>3, <1>4, LinkedChains
  <1>6. \A l, d : Within(l, d)' <=> l.cluster \in ChainSet(d)'
    BY ChainNext
  <1> QED BY <1>5, <1>6 DEF Within

(* An entry stays in the directory it is in.                               *)
LEMMA WithinKept ==
  ASSUME Placed, [Next]_vars, DirectoryHeads' \subseteq DirectoryHeads,
         NEW l \in LiveEntries, l \in LiveEntries', NEW d \in DirectoryHeads, Within(l, d)
  PROVE  d \in DirectoryHeads' /\ Within(l, d)'
  <1>1. PICK e \in DirectoryHeads' : Within(l, e)'
    BY NextPlaced DEF Volume, EntriesListed
  <1>2. Separate /\ Disk /\ TableSound /\ NoCycle
    BY PlacedFacts DEF Placed
  <1>3. CASE LinkCluster
    <2>1. UNCHANGED slots
      BY <1>3 DEF LinkCluster
    <2> QED BY <1>3, <2>1, LinkWithin, SlotsSame
  <1>4. CASE ~LinkCluster
    <2>1. Acyclic(fat) /\ \A c \in Clusters : fat'[c] = fat[c] \/ fat'[c] \notin Clusters
      BY <1>2, <1>4, TableStep, TableFacts
    <2>2. l.cluster \in ChainOf(fat', e)
      BY <1>1, ChainNext
    <2>3. l.cluster \in ChainOf(fat, e)
      BY <2>1, <2>2, ChainLess
    <2>4. Within(l, e) /\ e \in DirectoryHeads
      BY <1>1, <2>3, ChainIs DEF Within
    <2>5. e = d
      BY <1>2, <2>4 DEF Separate, Within
    <2> QED BY <1>1, <2>5
  <1> QED BY <1>3, <1>4

(* What the entries are called, and where their directory is, changes only *)
(* for the entry of the operation.                                         *)
LEMMA StayHeads ==
  ASSUME EntriesStay
  PROVE  /\ DirectoryHeads' = DirectoryHeads
         /\ \A kind : LiveOf(kind)' = LiveOf(kind)
         /\ \A l \in LiveEntries : l \in LiveEntries' /\ FirstOf(l)' = FirstOf(l)
  <1>1. \A l \in LiveEntries : l \in LiveEntries' /\ EntryAt(l)' = EntryAt(l)
    BY DEF EntriesStay
  <1>2. \A kind : LiveOf(kind)' = LiveOf(kind)
    BY <1>1 DEF LiveOf, EntriesStay
  <1>3. \A l \in LiveEntries : FirstOf(l)' = FirstOf(l)
    BY <1>1 DEF FirstOf
  <1>4. DirectoryHeads' = DirectoryHeads
    BY <1>2, <1>3 DEF DirectoryHeads, LiveOf
  <1> QED BY <1>1, <1>2, <1>3, <1>4

(* The operation goes on with what it was doing, or with nothing that      *)
(* counts for the tree.                                                    *)
Carries ==
  /\ \A l \in LiveOf("dir") : Moving(op, l)' => Moving(op, l)
  /\ Moves(op)' => Moves(op) /\ op'.dir = op.dir /\ op'.first = op.first

LEMMA RecoverCarries ==
  ASSUME Before, Recover \/ Complete \/ op' = Idle
  PROVE  Carries
  <1>1. PICK n \in Call : n = op
    BY BeforeDisk
  <1>2. CASE op' = Idle
    <2>1. op'.kind = "none"
      BY <1>2 DEF Idle
    <2> QED BY <2>1 DEF Carries, Moving, Moves
  <1>3. CASE n.kind = "create_directory" /\ op' = [n EXCEPT !.step = "free", !.cur = n.first]
    <2>1. op'.kind = "create_directory"
      BY <1>3
    <2> QED BY <2>1 DEF Carries, Moving, Moves
  <1>4. CASE n.kind = "rename" /\ n.step = "dots" /\ op' = [n EXCEPT !.step = "undo"]
    <2>1. op'.kind = "rename" /\ op'.step = "undo" /\ op'.slot = n.slot
      BY <1>4 DEF Call
    <2> QED BY <1>1, <1>4, <2>1 DEF Carries, Moving, Moves
  <1> QED BY <1>1, <1>2, <1>3, <1>4, WriteFailsSafe DEF Recover, Finish, Complete

LEMMA OthersCarry ==
  ASSUME Before, op'.kind # "rename"
  PROVE  Carries
  BY DEF Carries, Moving, Moves

(* A rename that looks for a slot, or makes one.                           *)
LEMMA SearchCarries ==
  ASSUME Before, op.kind = "rename", op.step \in {"slot"} \cup Appending,
         op'.kind = "rename", op'.step \in {"entry"} \cup Appending,
         op'.dir = op.dir, op'.first = op.first, op'.entry = op.entry
  PROVE  Carries
  BY DEF Carries, Moving, Moves

LEMMA StayCarries ==
  ASSUME Before, \/ FindSlot \/ DiskFull \/ MarkCluster \/ ZeroCluster \/ LinkCluster \/ CutChain
                 \/ FreeCluster \/ WriteData \/ UpdateEntry \/ UnlinkEntry \/ UndoEntry
                 \/ WriteLost \/ PowerLoss
  PROVE  Carries
  <1>1. PICK n \in Call : n = op
    BY BeforeDisk
  <1>2. CASE DiskFull \/ UnlinkEntry \/ UndoEntry \/ UpdateEntry \/ WriteLost \/ PowerLoss
    <2>1. Recover \/ Complete \/ op' = Idle
      BY <1>2, WriteFailsSafe
         DEF DiskFull, Fail, UnlinkEntry, UndoEntry, UpdateEntry, WriteLost, PowerLoss, Finish
    <2> QED BY <2>1, RecoverCarries
  <1>3. CASE Recover
    BY <1>3, RecoverCarries
  <1>4. CASE op' = Idle
    BY <1>4, RecoverCarries
  <1>5. CASE FindSlot
    <2>1. n.step = "slot" /\ n.kind \in {"create_file", "create_directory", "rename"}
      BY <1>1, <1>5, BeforeDisk DEF FindSlot, StepOK, Call
    <2>2. \/ Recover
          \/ \E loc : op' = [n EXCEPT !.slot = loc, !.step = "entry"]
          \/ \E last : op' = [n EXCEPT !.last = last, !.step = "mark"]
      BY <1>1, <1>5 DEF FindSlot, Fail
    <2>3. CASE \/ \E loc : op' = [n EXCEPT !.slot = loc, !.step = "entry"]
               \/ \E last : op' = [n EXCEPT !.last = last, !.step = "mark"]
      <3>1. /\ op'.kind = n.kind /\ op'.step \in {"entry"} \cup Appending
            /\ op'.dir = n.dir /\ op'.first = n.first /\ op'.entry = n.entry
        BY <2>3 DEF Call
      <3> QED BY <1>1, <2>1, <3>1, SearchCarries, OthersCarry
    <2> QED BY <1>3, <2>2, <2>3
  <1>6. CASE MarkCluster
    <2>1. n.step = "mark"
      BY <1>1, <1>6 DEF MarkCluster
    <2>2. Recover \/ \E c : op' = [n EXCEPT !.new = c, !.step = "zero"]
      BY <1>1, <1>6, ProceedSafe DEF MarkCluster
    <2>3. CASE \E c : op' = [n EXCEPT !.new = c, !.step = "zero"]
      <3>1. /\ op'.kind = n.kind /\ op'.step \in {"entry"} \cup Appending
            /\ op'.dir = n.dir /\ op'.first = n.first /\ op'.entry = n.entry
        BY <2>3 DEF Call
      <3> QED BY <1>1, <2>1, <3>1, SearchCarries, OthersCarry
    <2> QED BY <1>3, <2>2, <2>3
  <1>7. CASE ZeroCluster
    <2>1. n.step = "zero" /\ (Recover \/ op' = Allocated)
      BY <1>1, <1>7, ProceedSafe DEF ZeroCluster
    <2>2. CASE op' = Allocated /\ n.kind \notin {"write", "create_directory"}
      <3>1. op' = [n EXCEPT !.step = "link"]
        BY <1>1, <2>2 DEF Allocated
      <3>2. /\ op'.kind = n.kind /\ op'.step \in {"entry"} \cup Appending
            /\ op'.dir = n.dir /\ op'.first = n.first /\ op'.entry = n.entry
        BY <3>1 DEF Call
      <3> QED BY <1>1, <2>1, <3>2, SearchCarries, OthersCarry
    <2>3. CASE op' = Allocated /\ n.kind \in {"write", "create_directory"}
      <3>1. op'.kind = n.kind
        BY <1>1, <2>3 DEF Allocated, GrowOrWrite, DataOrUpdate, Call
      <3> QED BY <2>3, <3>1, OthersCarry
    <2> QED BY <1>3, <2>1, <2>2, <2>3
  <1>8. CASE LinkCluster
    <2>1. /\ n.step = "link"
          /\ \/ Recover
             \/ n.kind = "write" /\ op' = GrowOrWrite([n EXCEPT !.last = n.new, !.need = n.need - 1])
             \/ /\ n.kind # "write"
                /\ op' = [n EXCEPT !.slot = [cluster |-> n.new, slot |-> 0], !.step = "entry"]
      BY <1>1, <1>8, ProceedSafe DEF LinkCluster
    <2>2. CASE n.kind = "write" /\ op' = GrowOrWrite([n EXCEPT !.last = n.new, !.need = n.need - 1])
      <3>1. op'.kind = n.kind
        BY <1>1, <2>2 DEF GrowOrWrite, DataOrUpdate, Call
      <3> QED BY <2>2, <3>1, OthersCarry
    <2>3. CASE op' = [n EXCEPT !.slot = [cluster |-> n.new, slot |-> 0], !.step = "entry"]
      <3>1. /\ op'.kind = n.kind /\ op'.step \in {"entry"} \cup Appending
            /\ op'.dir = n.dir /\ op'.first = n.first /\ op'.entry = n.entry
        BY <2>3 DEF Call
      <3> QED BY <1>1, <2>1, <3>1, SearchCarries, OthersCarry
    <2> QED BY <1>3, <2>1, <2>2, <2>3
  <1>9. CASE CutChain \/ FreeCluster \/ WriteData
    <2>1. n.step \in {"cut", "free", "data"} /\ n.kind # "rename"
      BY <1>1, <1>9, BeforeDisk DEF CutChain, FreeCluster, WriteData, StepOK, Call
    <2>2. \/ Recover \/ op' = Idle
          \/ \E cur, step : op' = [n EXCEPT !.cur = cur, !.step = step]
          \/ \E cur : op' = [n EXCEPT !.cur = cur]
          \/ \E step : op' = [n EXCEPT !.step = step]
          \/ op' = DataOrUpdate(n) \/ op' = DataOrUpdate([n EXCEPT !.pos = n.pos + 1])
      BY <1>1, <1>9, ProceedSafe, WriteFailsSafe DEF CutChain, FreeCluster, WriteData, Fail, Finish
    <2>3. CASE \/ \E cur, step : op' = [n EXCEPT !.cur = cur, !.step = step]
               \/ \E cur : op' = [n EXCEPT !.cur = cur]
               \/ \E step : op' = [n EXCEPT !.step = step]
               \/ op' = DataOrUpdate(n) \/ op' = DataOrUpdate([n EXCEPT !.pos = n.pos + 1])
      <3>1. op'.kind = n.kind
        BY <2>3 DEF DataOrUpdate, Call
      <3> QED BY <2>1, <3>1, OthersCarry
    <2> QED BY <1>3, <1>4, <2>2, <2>3
  <1> QED BY <1>2, <1>5, <1>6, <1>7, <1>8, <1>9

(* No directory gets or loses an entry.                                    *)
NamesStay == /\ DirectoryHeads' = DirectoryHeads /\ LiveOf("dir")' = LiveOf("dir")
             /\ \A l \in LiveOf("dir") : FirstOf(l)' = FirstOf(l)

LEMMA StayRooted ==
  ASSUME Placed, [Next]_vars, Upward(op), MoveRight(op), NamesStay, Carries
  PROVE  Upward(op)' /\ MoveRight(op)'
  <1>1. PICK o : o = op
    OBVIOUS
  <1>2. PICK n : n = op'
    OBVIOUS
  <1>3. /\ DirectoryHeads' = DirectoryHeads /\ LiveOf("dir")' = LiveOf("dir")
        /\ \A l \in LiveOf("dir") : FirstOf(l)' = FirstOf(l)
    BY DEF NamesStay
  <1>4. \A l \in LiveOf("dir") : l \in LiveEntries /\ l \in LiveEntries'
    BY <1>3 DEF LiveOf
  <1>5. \A l \in LiveOf("dir"), d \in DirectoryHeads : Within(l, d) => Within(l, d)'
    BY <1>3, <1>4, WithinKept
  <1>6. \A l \in LiveOf("dir") : Moving(n, l) => Moving(o, l)
    BY <1>1, <1>2 DEF Carries, Moving
  <1>7. Upward(o)
    BY <1>1
  <1>8. Upward(n)'
    <2>1. ASSUME NEW h \in DirectoryHeads', NEW d \in DirectoryHeads, Leads(h, d, o)
          PROVE  d \in DirectoryHeads' /\ Leads(h, d, n)'
      <3>1. PICK l \in LiveOf("dir") : FirstOf(l) = h /\ ~Moving(o, l) /\ Within(l, d)
        BY <2>1 DEF Leads
      <3>2. l \in LiveOf("dir")' /\ FirstOf(l)' = h /\ ~Moving(n, l) /\ Within(l, d)'
        BY <1>3, <1>5, <1>6, <3>1
      <3>3. Leads(h, d, n)'
        BY <3>2 DEF Leads, Moving
      <3> QED BY <1>3, <3>3
    <2> QED BY <1>3, <1>7, <2>1, UpwardStep
  <1>9. Upward(op)'
    BY <1>2, <1>8 DEF Upward, Leads, Moving
  <1>10. ASSUME Moves(op)'
         PROVE  MoveRight(op)'
    <2>1. Moves(op) /\ op'.dir = op.dir /\ op'.first = op.first
      BY <1>10 DEF Carries
    <2>2. PICK U \in SUBSET DirectoryHeads : op.dir \in U /\ op.first \notin U /\ Lineage(U)
      BY <2>1 DEF MoveRight
    <2>3. Lineage(U)'
      <3> SUFFICES ASSUME NEW l \in LiveOf("dir")', FirstOf(l)' \in U
                   PROVE  \E d \in U : Within(l, d)'
        BY DEF Lineage
      <3>1. l \in LiveOf("dir") /\ FirstOf(l) \in U
        BY <1>3
      <3>2. PICK d \in U : Within(l, d)
        BY <2>2, <3>1 DEF Lineage
      <3> QED BY <1>5, <2>2, <3>1, <3>2
    <2> QED BY <1>3, <2>1, <2>2, <2>3 DEF MoveRight
  <1> QED BY <1>9, <1>10 DEF MoveRight

LEMMA UpdateNames == ASSUME Placed, UpdateEntry PROVE NamesStay
  <1>1. PICK e : e = [op.entry EXCEPT !.first = op.first]
    OBVIOUS
  <1>2. /\ op.step = "update" /\ PutEntry(op.at, e) /\ op.kind = "write"
    BY <1>1, PlacedFacts DEF UpdateEntry, StepOK, Call
  <1>3. /\ op.at \in LiveOf("file") /\ op.at \in LiveEntries /\ op.at \in Location
        /\ op.entry.kind = "file"
    BY <1>2, PlacedFacts DEF WriteRight, LiveOf, LiveEntries
  <1>4. e.kind = "file"
    BY <1>1, <1>3, PlacedFacts DEF Call, Entry
  <1>5. PICK a : a = op.at
    OBVIOUS
  <1>6. /\ \A l \in Location : l # a => EntryAt(l)' = EntryAt(l) /\ FirstOf(l)' = FirstOf(l)
        /\ EntryAt(a)'.kind = "file" /\ EntryAt(a).kind = "file" /\ a \in Location
    BY <1>2, <1>3, <1>4, <1>5, PlacedFacts, SlotPut DEF LiveOf
  <1>7. \A l \in Location : (EntryAt(l)'.kind = "dir") <=> (EntryAt(l).kind = "dir")
    BY <1>6
  <1>8. LiveOf("dir")' = LiveOf("dir") /\ \A l \in LiveOf("dir") : FirstOf(l)' = FirstOf(l)
    BY <1>6, <1>7 DEF LiveOf, LiveEntries, Live
  <1> QED BY <1>8 DEF NamesStay, DirectoryHeads

(* An entry goes.                                                          *)
LEMMA DropRooted ==
  ASSUME Placed, [Next]_vars, Upward(op), UnlinkEntry \/ UndoEntry
  PROVE  Upward(op)' /\ MoveRight(op)'
  <1>1. Carries /\ op' \in Call
    BY StayCarries, PlacedFacts DEF Placed
  <1>2. MoveRight(op)'
    <2>1. ~Moves(op)
      BY DEF Moves, UnlinkEntry, UndoEntry
    <2> QED BY <1>1, <2>1 DEF Carries, MoveRight
  <1>3. PICK o : o = op
    OBVIOUS
  <1>4. PICK n : n = op'
    OBVIOUS
  <1>5. PICK a \in LiveEntries :
          /\ PutEntry(a, Mark("deleted"))
          /\ (o.kind = "rename" /\ Moving(o, a)) \/ o.kind = "remove"
    <2>1. CASE UnlinkEntry
      <3>1. op.kind \in {"rename", "remove"} /\ op.step = "unlink" /\ PutEntry(op.at, Mark("deleted"))
        BY <2>1, PlacedFacts DEF UnlinkEntry, StepOK, Call
      <3>2. op.at \in LiveEntries
        BY <3>1, PlacedFacts DEF RenameRight, RemoveRight
      <3> QED BY <1>3, <3>1, <3>2 DEF Moving
    <2>2. CASE UndoEntry
      <3>1. op.kind = "rename" /\ op.step = "undo" /\ PutEntry(op.slot, Mark("deleted"))
        BY <2>2, PlacedFacts DEF UndoEntry, StepOK, Call
      <3> QED BY <1>3, <3>1, RenameTwins DEF Moving
    <2> QED BY <2>1, <2>2
  <1>6. a \in Location /\ Mark("deleted").kind \notin Live
    BY DEF LiveEntries, Mark, fat32_build_entry, Live
  <1>7. /\ \A l \in Location : l # a => EntryAt(l)' = EntryAt(l) /\ FirstOf(l)' = FirstOf(l)
        /\ a \notin LiveEntries' /\ \A l \in LiveEntries' : l \in LiveEntries /\ l # a
        /\ \A l \in LiveEntries : l \in Location /\ (l # a => l \in LiveEntries')
    BY <1>5, <1>6, PlacedFacts, SlotPut
  <1>8. \A l \in LiveOf("dir") : l # a => l \in LiveOf("dir")' /\ FirstOf(l)' = FirstOf(l)
    BY <1>7 DEF LiveOf
  <1>9. \A l \in LiveOf("dir")' : l \in LiveOf("dir") /\ l # a /\ FirstOf(l)' = FirstOf(l)
    BY <1>7 DEF LiveOf
  <1>10. DirectoryHeads' \subseteq DirectoryHeads
    BY <1>9 DEF DirectoryHeads
  <1>11. Upward(o)
    BY <1>3
  <1>12. ASSUME NEW h \in DirectoryHeads', NEW d \in DirectoryHeads, Leads(h, d, o)
         PROVE  d \in DirectoryHeads' /\ Leads(h, d, n)'
    <2>1. PICK l \in LiveOf("dir") : FirstOf(l) = h /\ ~Moving(o, l) /\ Within(l, d)
      BY <1>12 DEF Leads
    <2>2. l # a
      <3> SUFFICES ASSUME l = a PROVE FALSE
        OBVIOUS
      <3>1. o.kind = "remove"
        BY <1>5, <2>1 DEF LiveOf
      <3>2. l \in LiveEntries /\ FirstOf(l) # Free /\ FirstOf(l) # Root
        BY PlacedFacts DEF LiveOf, Volume, DotsRight, EntrySound
      <3>3. PICK m \in LiveOf("dir")' : h = FirstOf(m)'
        BY <2>1, <3>2 DEF DirectoryHeads
      <3>4. m \in LiveEntries /\ m # l /\ FirstOf(m) = FirstOf(l)
        BY <1>9, <2>1, <3>3 DEF LiveOf
      <3>5. Twins(op, l, m)
        BY <3>2, <3>4, PlacedFacts DEF EntrySound
      <3> QED BY <1>3, <3>1, <3>5 DEF Twins
    <2>3. l \in LiveEntries /\ l \in LiveEntries'
      BY <1>7, <2>2 DEF LiveOf
    <2>4. d \in DirectoryHeads' /\ Within(l, d)'
      BY <1>10, <2>1, <2>3, WithinKept
    <2>5. ~Moving(n, l)
      <3>1. ~Moving(op, l)'
        BY <1>1, <1>3, <2>1 DEF Carries, Moving
      <3> QED BY <1>4, <3>1 DEF Moving
    <2>6. Leads(h, d, n)'
      BY <1>8, <2>1, <2>2, <2>4, <2>5 DEF Leads, Moving
    <2> QED BY <2>4, <2>6
  <1>13. Upward(n)'
    BY <1>10, <1>11, <1>12, UpwardStep
  <1>14. Upward(op)'
    BY <1>4, <1>13 DEF Upward, Leads, Moving
  <1> QED BY <1>2, <1>14

(* The dots of a directory that has moved name its new parent: the         *)
(* directory hangs from there, which is not below it.                      *)
LEMMA DotsRooted ==
  ASSUME Placed, [Next]_vars, Upward(op), MoveRight(op), WriteDots
  PROVE  Upward(op)' /\ MoveRight(op)'
  <1>1. /\ DirectoryHeads' = DirectoryHeads /\ LiveOf("dir")' = LiveOf("dir")
        /\ \A l \in LiveEntries : l \in LiveEntries' /\ FirstOf(l)' = FirstOf(l)
        /\ \A l \in LiveOf("dir") : l \in LiveEntries
    BY DotsKeep, StayHeads DEF LiveOf
  <1>2. NamesStay
    BY <1>1 DEF NamesStay
  <1>3. PICK o \in Call : o = op
    BY PlacedFacts
  <1>4. /\ o.kind \in {"create_directory", "rename"} /\ o.step = "dots"
        /\ Recover \/ op' = [o EXCEPT !.step = IF o.kind = "rename" THEN "unlink" ELSE "slot"]
    BY <1>3, PlacedFacts, ProceedSafe DEF WriteDots, StepOK, Call, Placed
  <1>5. CASE Recover
    <2>1. Carries
      BY <1>5, RecoverCarries DEF Placed
    <2> QED BY <1>2, <2>1, StayRooted
  <1>6. CASE o.kind = "create_directory" /\ op' = [o EXCEPT !.step = "slot"]
    <2>1. op'.kind = "create_directory"
      BY <1>6
    <2>2. Carries
      BY <2>1, OthersCarry DEF Placed
    <2> QED BY <1>2, <2>2, StayRooted
  <1>7. CASE o.kind = "rename" /\ op' = [o EXCEPT !.step = "unlink"]
    <2>1. op'.kind = "rename" /\ op'.step = "unlink" /\ op'.at = o.at
      BY <1>7 DEF Call
    <2>2. MoveRight(op)'
      BY <2>1 DEF MoveRight, Moves
    <2>3. PICK n : n = op'
      OBVIOUS
    <2>4. \A l : Moving(n, l) <=> l = o.at
      BY <2>1, <2>3 DEF Moving
    <2>5. /\ o.at \in LiveEntries /\ o.slot \in LiveEntries /\ o.slot # o.at
          /\ o.entry.kind = "dir" /\ EntryAt(o.slot) = o.entry /\ FirstOf(o.at) = FirstOf(o.slot)
          /\ o.dir \in DirectoryHeads /\ Within(o.slot, o.dir) /\ o.entry.first = o.first
      BY <1>3, <1>4, <1>7, PlacedFacts, RenameTwins DEF RenameRight, CallSound
    <2>6. o.slot \in LiveOf("dir") /\ FirstOf(o.slot) = o.first
      BY <2>5 DEF LiveOf, FirstOf
    <2>7. ASSUME NEW l \in LiveOf("dir"), l # o.at, NEW d \in DirectoryHeads, Within(l, d)
          PROVE  Leads(FirstOf(l), d, n)'
      <3>1. PICK h : h = FirstOf(l)
        OBVIOUS
      <3>2. l \in LiveOf("dir")' /\ FirstOf(l)' = h /\ Within(l, d)' /\ ~Moving(n, l)
        BY <1>1, <2>4, <2>7, <3>1, WithinKept
      <3>3. Leads(h, d, n)'
        BY <3>2 DEF Leads, Moving
      <3>4. FirstOf(l)' = h
        BY <3>2
      <3> QED BY <3>3, <3>4 DEF Leads
    <2>8. ASSUME NEW S \in SUBSET (DirectoryHeads \ {Root}), S # {}
          PROVE  \E h \in S, d \in DirectoryHeads \ S : Leads(h, d, n)'
      <3>1. ASSUME NEW l \in LiveOf("dir"), l # o.at, FirstOf(l) \in S,
                   NEW d \in DirectoryHeads \ S, Within(l, d)
            PROVE  \E h \in S, e \in DirectoryHeads \ S : Leads(h, e, n)'
        <4>1. PICK h \in S : h = FirstOf(l)
          BY <3>1
        <4>2. FirstOf(l)' = h
          BY <1>1, <3>1, <4>1
        <4>3. Leads(FirstOf(l), d, n)'
          BY <2>7, <3>1
        <4>4. Leads(h, d, n)'
          BY <4>2, <4>3
        <4> QED BY <4>1, <4>4
      <3>2. CASE o.first \notin S
        <4>1. PICK h \in S, d \in DirectoryHeads \ S : Leads(h, d, op)
          BY <2>8 DEF Upward
        <4>2. PICK l \in LiveOf("dir") : FirstOf(l) = h /\ Within(l, d)
          BY <4>1 DEF Leads
        <4> QED BY <2>5, <2>6, <3>1, <3>2, <4>2
      <3>3. CASE o.first \in S /\ o.dir \notin S
        BY <2>5, <2>6, <3>1, <3>3
      <3>4. CASE o.first \in S /\ o.dir \in S
        <4>1. Moves(op)
          BY <1>3, <1>4, <1>7, <2>5 DEF Moves
        <4>2. PICK U \in SUBSET DirectoryHeads : o.dir \in U /\ o.first \notin U /\ Lineage(U)
          BY <1>3, <4>1 DEF MoveRight
        <4>3. S \cap U \in SUBSET (DirectoryHeads \ {Root}) /\ S \cap U # {}
          BY <3>4, <4>2
        <4>4. PICK h \in S \cap U, d \in DirectoryHeads \ (S \cap U) : Leads(h, d, op)
          BY <4>3 DEF Upward
        <4>5. PICK l \in LiveOf("dir") : FirstOf(l) = h /\ Within(l, d)
          BY <4>4 DEF Leads
        <4>6. PICK e \in U : Within(l, e)
          BY <4>2, <4>4, <4>5 DEF Lineage
        <4>7. e = d
          BY <4>2, <4>4, <4>5, <4>6, PlacedFacts DEF Separate, Within
        <4>8. l # o.at
          BY <2>5, <2>6, <4>2, <4>4, <4>5
        <4> QED BY <3>1, <4>4, <4>5, <4>6, <4>7, <4>8
      <3> QED BY <3>2, <3>3, <3>4
    <2>9. Upward(n)'
      BY <1>1, <2>8 DEF Upward
    <2>10. Upward(op)'
      BY <2>3, <2>9 DEF Upward, Leads, Moving
    <2> QED BY <2>2, <2>10
  <1> QED BY <1>4, <1>5, <1>6, <1>7

(* An entry is written: for a new file, over the one it replaces, for a    *)
(* new directory, or as the second one of a directory that moves.          *)
LEMMA EntryEffect ==
  ASSUME Placed, WriteEntry, NEW o \in Call, o = op
  PROVE  /\ o.step = "entry" /\ o.kind \in {"create_file", "create_directory", "rename"}
         /\ o.slot \in Location /\ o.dir \in DirectoryHeads /\ Within(o.slot, o.dir)
         /\ \A l \in Location : l # o.slot => EntryAt(l)' = EntryAt(l) /\ FirstOf(l)' = FirstOf(l)
         /\ EntryAt(o.slot)' = o.entry
         /\ \A l \in LiveEntries' : l \in Location /\ (l = o.slot \/ l \in LiveEntries)
         /\ \A l \in LiveEntries : l \in Location /\ (l = o.slot \/ l \in LiveEntries')
         /\ o.slot \in LiveEntries' <=> o.entry.kind \in Live
         /\ ~(o.kind = "rename" /\ o.slot = o.at) => o.slot \notin LiveEntries
         /\ UNCHANGED fat
         /\ IF o.kind = "rename" /\ o.slot # o.at
            THEN op' = [o EXCEPT !.step = IF o.entry.kind = "dir" THEN "dots" ELSE "unlink"]
            ELSE Complete
         /\ o.kind = "create_directory" => op' = Idle
  <1>1. /\ o.step = "entry" /\ UNCHANGED fat /\ PutEntry(o.slot, o.entry) /\ o.slot \in Location
        /\ o.kind \in {"create_file", "create_directory", "rename"} /\ SlotRight(o)
    BY PlacedFacts DEF WriteEntry, StepOK, Call
  <1>2. o.dir \in DirectoryHeads /\ Within(o.slot, o.dir)
    BY <1>1, PlacedFacts DEF DirectoryRight, Enters, SlotRight
  <1>3. IF o.kind = "rename" /\ o.slot # o.at
        THEN op' = [o EXCEPT !.step = IF o.entry.kind = "dir" THEN "dots" ELSE "unlink"]
        ELSE Complete
    BY <1>1, ProceedSafe DEF WriteEntry, WriteWindow, Placed
  <1>4. /\ \A l \in Location : l # o.slot => EntryAt(l)' = EntryAt(l) /\ FirstOf(l)' = FirstOf(l)
        /\ EntryAt(o.slot)' = o.entry
        /\ \A l \in LiveEntries' : l \in Location /\ (l = o.slot \/ l \in LiveEntries)
        /\ \A l \in LiveEntries : l \in Location /\ (l = o.slot \/ l \in LiveEntries')
        /\ o.slot \in LiveEntries' <=> o.entry.kind \in Live
    BY <1>1, PlacedFacts, SlotPut
  <1>5. ~(o.kind = "rename" /\ o.slot = o.at) => o.slot \notin LiveEntries
    BY <1>1 DEF SlotRight, LiveEntries, Live
  <1>6. o.kind = "create_directory" => op' = Idle
    BY <1>1, <1>3, WriteFailsSafe DEF Complete, Finish, WriteWindow, Placed
  <1> QED BY <1>1, <1>2, <1>3, <1>4, <1>5, <1>6

LEMMA EntryNames ==
  ASSUME Placed, WriteEntry, NEW o \in Call, o = op, o.entry.kind = "file" \/ (o.kind = "rename" /\ o.slot = o.at)
  PROVE  NamesStay /\ Carries
  <1>1. NamesStay
    <2>1. CASE o.kind = "rename" /\ o.slot = o.at
      <3>1. o.at \in LiveEntries /\ o.entry = [EntryAt(o.at) EXCEPT !.name = o.entry.name]
        BY <2>1, PlacedFacts DEF RenameRight
      <3>2. EntryAt(o.at) \in Entry
        BY <3>1, PlacedFacts, FirstType DEF LiveEntries
      <3>3. o.entry.kind = EntryAt(o.at).kind /\ o.entry.first = EntryAt(o.at).first
        BY <3>1, <3>2 DEF Entry
      <3>4. EntryAt(o.at).kind \in Live
        BY <3>1 DEF LiveEntries
      <3>5. LiveEntries' = LiveEntries
        <4>1. o.slot \in LiveEntries /\ o.slot \in LiveEntries'
          BY <2>1, <3>1, <3>3, <3>4, EntryEffect
        <4>2. \A l \in LiveEntries' : l = o.slot \/ l \in LiveEntries
          BY EntryEffect
        <4>3. \A l \in LiveEntries : l = o.slot \/ l \in LiveEntries'
          BY EntryEffect
        <4> QED BY ONLY <4>1, <4>2, <4>3
      <3>6. \A l \in LiveEntries : EntryAt(l)'.kind = EntryAt(l).kind /\ EntryAt(l)'.first = EntryAt(l).first
        BY <2>1, <3>3, EntryEffect
      <3>7. LiveOf("dir")' = LiveOf("dir") /\ \A l \in LiveOf("dir") : FirstOf(l)' = FirstOf(l)
        BY <3>5, <3>6 DEF LiveOf, FirstOf
      <3> QED BY <3>7 DEF NamesStay, DirectoryHeads
    <2>2. CASE ~(o.kind = "rename" /\ o.slot = o.at)
      <3>1. o.slot \notin LiveEntries /\ o.entry.kind = "file"
        BY <2>2, EntryEffect
      <3>2. EntryAt(o.slot)'.kind = "file"
        BY <3>1, EntryEffect
      <3>3. o.slot \notin LiveOf("dir") /\ o.slot \notin LiveOf("dir")'
        BY <3>1, <3>2 DEF LiveOf
      <3>4. \A l \in Location : l # o.slot => EntryAt(l)' = EntryAt(l) /\ FirstOf(l)' = FirstOf(l)
        BY EntryEffect
      <3>5. LiveOf("dir")' = LiveOf("dir") /\ \A l \in LiveOf("dir") : FirstOf(l)' = FirstOf(l)
        BY <3>3, <3>4 DEF LiveOf, LiveEntries
      <3> QED BY <3>5 DEF NamesStay, DirectoryHeads
    <2> QED BY <2>1, <2>2
  <1>2. CASE Complete
    BY <1>1, <1>2, RecoverCarries DEF Placed
  <1>3. CASE o.kind = "rename" /\ o.slot # o.at /\ op' = [o EXCEPT !.step = "unlink"]
    <2>1. op'.kind = "rename" /\ op'.step = "unlink" /\ op'.at = o.at
      BY <1>3 DEF Call
    <2>2. o.at \notin LiveOf("dir")
      <3>1. o.at \in LiveEntries /\ o.entry = [EntryAt(o.at) EXCEPT !.name = o.entry.name]
        BY <1>3, PlacedFacts DEF RenameRight
      <3>2. EntryAt(o.at) \in Entry /\ o.entry.kind = "file"
        BY <1>3, <3>1, PlacedFacts, FirstType DEF LiveEntries
      <3> QED BY <3>1, <3>2 DEF LiveOf, Entry
    <2>3. Carries
      BY <2>1, <2>2 DEF Carries, Moving, Moves
    <2> QED BY <1>1, <2>3
  <1> QED BY <1>1, <1>2, <1>3, EntryEffect

(* The directory that moves has a second entry, for as long as its dots go *)
(* by the first.                                                           *)
LEMMA MovedRooted ==
  ASSUME Placed, [Next]_vars, Upward(op), MoveRight(op), WriteEntry,
         NEW o \in Call, o = op, o.kind = "rename", o.slot # o.at, o.entry.kind = "dir"
  PROVE  Upward(op)' /\ MoveRight(op)'
  <1>1. /\ o.slot \in Location /\ o.slot \notin LiveEntries /\ UNCHANGED fat
        /\ \A l \in Location : l # o.slot => EntryAt(l)' = EntryAt(l) /\ FirstOf(l)' = FirstOf(l)
        /\ EntryAt(o.slot)' = o.entry
    BY EntryEffect
  <1>2. op' = [o EXCEPT !.step = "dots"]
    BY EntryEffect
  <1>3. op'.kind = "rename" /\ op'.step = "dots" /\ op'.slot = o.slot /\ op'.dir = o.dir /\ op'.first = o.first
    BY <1>2 DEF Call
  <1>4. PICK n : n = op'
    OBVIOUS
  <1>5. \A l : Moving(n, l) <=> l = o.slot
    BY <1>3, <1>4 DEF Moving
  <1>6. /\ o.at \in LiveEntries /\ o.entry = [EntryAt(o.at) EXCEPT !.name = o.entry.name]
        /\ o.entry.first = o.first /\ EntryAt(o.at) \in Entry
    <2>1. o.at \in LiveEntries
      BY PlacedFacts DEF RenameRight
    <2> QED BY <2>1, PlacedFacts, FirstType DEF RenameRight, CallSound, LiveEntries
  <1>7. o.at \in LiveOf("dir") /\ FirstOf(o.at) = o.first
    BY <1>6 DEF LiveOf, FirstOf, Entry
  <1>8. FirstOf(o.slot)' = o.first
    <2>1. EntryAt(o.slot)'.first = o.first
      BY <1>1, <1>6
    <2>2. PICK a : a = o.slot
      OBVIOUS
    <2> QED BY <2>1, <2>2 DEF FirstOf
  <1>9. ASSUME NEW l \in LiveOf("dir")
        PROVE  l \in LiveOf("dir")' /\ FirstOf(l)' = FirstOf(l) /\ l # o.slot
    BY <1>1 DEF LiveOf, LiveEntries
  <1>10. ASSUME NEW l \in LiveOf("dir")', l # o.slot
         PROVE  l \in LiveOf("dir") /\ FirstOf(l)' = FirstOf(l)
    BY <1>1, <1>10 DEF LiveOf, LiveEntries
  <1>11. DirectoryHeads' = DirectoryHeads
    <2>1. ASSUME NEW h \in DirectoryHeads', h # Root PROVE h \in DirectoryHeads
      <3>1. PICK l \in LiveOf("dir")' : h = FirstOf(l)'
        BY <2>1 DEF DirectoryHeads
      <3> QED BY <1>7, <1>8, <1>10, <3>1 DEF DirectoryHeads
    <2>2. ASSUME NEW h \in DirectoryHeads, h # Root PROVE h \in DirectoryHeads'
      <3>1. PICK l \in LiveOf("dir") : h = FirstOf(l)
        BY <2>2 DEF DirectoryHeads
      <3> QED BY <1>9, <3>1 DEF DirectoryHeads
    <2>3. Root \in DirectoryHeads /\ Root \in DirectoryHeads'
      BY DEF DirectoryHeads
    <2>4. \A h : h \in DirectoryHeads' <=> h \in DirectoryHeads
      BY <2>1, <2>2, <2>3
    <2> QED BY <2>4
  <1>12. \A l, d : Within(l, d)' <=> Within(l, d)
    BY <1>1, ChainsKept
  <1>13. Upward(n)'
    <2>1. ASSUME NEW h \in DirectoryHeads', NEW d \in DirectoryHeads, Leads(h, d, o)
          PROVE  d \in DirectoryHeads' /\ Leads(h, d, n)'
      <3>1. PICK l \in LiveOf("dir") : FirstOf(l) = h /\ Within(l, d)
        BY <2>1 DEF Leads
      <3>2. l \in LiveOf("dir")' /\ FirstOf(l)' = h /\ ~Moving(n, l) /\ Within(l, d)'
        BY <1>5, <1>9, <1>12, <3>1
      <3>3. Leads(h, d, n)'
        BY <3>2 DEF Leads, Moving
      <3> QED BY <1>11, <3>3
    <2>2. Upward(o)
      OBVIOUS
    <2> QED BY <1>11, <2>1, <2>2, UpwardStep
  <1>14. Upward(op)'
    BY <1>4, <1>13 DEF Upward, Leads, Moving
  <1>15. MoveRight(op)'
    <2>1. Moves(op)
      BY EntryEffect DEF Moves
    <2>2. PICK U \in SUBSET DirectoryHeads : o.dir \in U /\ o.first \notin U /\ Lineage(U)
      BY <2>1 DEF MoveRight
    <2>3. Lineage(U)'
      <3> SUFFICES ASSUME NEW l \in LiveOf("dir")', FirstOf(l)' \in U
                   PROVE  \E d \in U : Within(l, d)'
        BY DEF Lineage
      <3>1. l # o.slot
        BY <1>8, <2>2
      <3>2. l \in LiveOf("dir") /\ FirstOf(l) \in U
        BY <1>10, <3>1
      <3> QED BY <1>12, <2>2, <3>2 DEF Lineage
    <2> QED BY <1>3, <1>11, <2>2, <2>3 DEF MoveRight
  <1> QED BY <1>14, <1>15

(* A new directory hangs from the one that was there before.               *)
LEMMA NewRooted ==
  ASSUME Placed, [Next]_vars, Upward(op), WriteEntry, NEW o \in Call, o = op, o.kind = "create_directory"
  PROVE  Upward(op)' /\ MoveRight(op)'
  <1>1. /\ o.slot \in Location /\ o.slot \notin LiveEntries /\ UNCHANGED fat
        /\ \A l \in Location : l # o.slot => EntryAt(l)' = EntryAt(l) /\ FirstOf(l)' = FirstOf(l)
        /\ EntryAt(o.slot)' = o.entry
        /\ o.dir \in DirectoryHeads /\ Within(o.slot, o.dir) /\ op' = Idle
        /\ o.slot \in LiveEntries' <=> o.entry.kind \in Live
    BY EntryEffect
  <1>2. op'.kind = "none"
    BY <1>1 DEF Idle
  <1>3. MoveRight(op)'
    BY <1>2 DEF MoveRight, Moves
  <1>4. PICK n : n = op'
    OBVIOUS
  <1>5. \A l : ~Moving(n, l)
    BY <1>2, <1>4 DEF Moving
  <1>6. /\ o.entry.kind = "dir" /\ o.entry.first = o.first /\ Loose(o.first)
    <2>1. o.step = "entry"
      BY EntryEffect
    <2> QED BY <2>1, PlacedFacts DEF CallSound, CreateRight
  <1>7. o.first \notin DirectoryHeads
    BY <1>6 DEF Loose, Named, DirectoryHeads, LiveOf
  <1>8. o.slot \in LiveOf("dir")' /\ FirstOf(o.slot)' = o.first
    <2>1. EntryAt(o.slot)'.first = o.first /\ EntryAt(o.slot)'.kind = "dir"
      BY <1>1, <1>6
    <2>2. PICK a : a = o.slot
      OBVIOUS
    <2> QED BY <1>1, <1>6, <2>1, <2>2 DEF FirstOf, LiveOf, Live
  <1>9. ASSUME NEW l \in LiveOf("dir")
        PROVE  l \in LiveOf("dir")' /\ FirstOf(l)' = FirstOf(l)
    BY <1>1 DEF LiveOf, LiveEntries
  <1>10. ASSUME NEW l \in LiveOf("dir")', l # o.slot
         PROVE  l \in LiveOf("dir") /\ FirstOf(l)' = FirstOf(l)
    BY <1>1, <1>10 DEF LiveOf, LiveEntries
  <1>11. DirectoryHeads' = DirectoryHeads \cup {o.first}
    <2>1. ASSUME NEW h \in DirectoryHeads', h # Root PROVE h \in DirectoryHeads \cup {o.first}
      <3>1. PICK l \in LiveOf("dir")' : h = FirstOf(l)'
        BY <2>1 DEF DirectoryHeads
      <3> QED BY <1>8, <1>10, <3>1 DEF DirectoryHeads
    <2>2. ASSUME NEW h \in DirectoryHeads, h # Root PROVE h \in DirectoryHeads'
      <3>1. PICK l \in LiveOf("dir") : h = FirstOf(l)
        BY <2>2 DEF DirectoryHeads
      <3> QED BY <1>9, <3>1 DEF DirectoryHeads
    <2>3. Root \in DirectoryHeads /\ Root \in DirectoryHeads' /\ o.first \in DirectoryHeads'
      BY <1>8 DEF DirectoryHeads
    <2> QED BY <2>1, <2>2, <2>3
  <1>12. \A l, d : Within(l, d)' <=> Within(l, d)
    BY <1>1, ChainsKept
  <1>13. ASSUME NEW S \in SUBSET (DirectoryHeads' \ {Root}), S # {}
         PROVE  \E h \in S, d \in DirectoryHeads' \ S : Leads(h, d, n)'
    <2>1. ASSUME NEW h, NEW d, Leads(h, d, op)
          PROVE  Leads(h, d, n)'
      <3>1. PICK l \in LiveOf("dir") : FirstOf(l) = h /\ Within(l, d)
        BY <2>1 DEF Leads
      <3>2. l \in LiveOf("dir")' /\ FirstOf(l)' = h /\ ~Moving(n, l) /\ Within(l, d)'
        BY <1>5, <1>9, <1>12, <3>1
      <3> QED BY <3>2 DEF Leads, Moving
    <2>2. CASE o.first \in S /\ o.dir \notin S
      <3>1. Within(o.slot, o.dir)' /\ ~Moving(n, o.slot)
        BY <1>1, <1>5, <1>12
      <3>2. PICK a, b, c : a = o.slot /\ b = o.first /\ c = o.dir
        OBVIOUS
      <3>3. Leads(b, c, n)'
        BY <1>8, <3>1, <3>2 DEF Leads, Moving
      <3> QED BY <1>1, <1>11, <2>2, <3>2, <3>3
    <2>3. CASE ~(o.first \in S /\ o.dir \notin S)
      <3>1. S \ {o.first} \in SUBSET (DirectoryHeads \ {Root}) /\ S \ {o.first} # {}
        <4>1. S \subseteq (DirectoryHeads \cup {o.first}) \ {Root}
          BY <1>11
        <4>2. CASE o.first \in S
          <5>1. o.dir \in S /\ o.dir # o.first
            BY <1>1, <1>7, <2>3, <4>2
          <5> QED BY <4>1, <5>1
        <4>3. CASE o.first \notin S
          BY <1>13, <4>1, <4>3
        <4> QED BY <4>2, <4>3
      <3>2. PICK h \in S \ {o.first}, d \in DirectoryHeads \ (S \ {o.first}) : Leads(h, d, op)
        BY <3>1 DEF Upward
      <3>3. d # o.first /\ Leads(h, d, n)'
        BY <1>7, <2>1, <3>2
      <3> QED BY <1>11, <3>2, <3>3
    <2> QED BY <2>2, <2>3
  <1>14. Upward(n)'
    BY <1>13 DEF Upward
  <1>15. Upward(op)'
    BY <1>4, <1>14 DEF Upward, Leads, Moving
  <1> QED BY <1>3, <1>15

LEMMA EntryRooted ==
  ASSUME Placed, [Next]_vars, Upward(op), MoveRight(op), WriteEntry
  PROVE  Upward(op)' /\ MoveRight(op)'
  <1>1. PICK o \in Call : o = op
    BY PlacedFacts
  <1>2. o.step = "entry" /\ o.kind \in {"create_file", "create_directory", "rename"}
    BY <1>1, EntryEffect
  <1>3. CASE o.entry.kind = "file" \/ (o.kind = "rename" /\ o.slot = o.at)
    BY <1>1, <1>3, EntryNames, StayRooted
  <1>4. CASE o.kind = "create_directory"
    BY <1>1, <1>4, NewRooted
  <1>5. CASE o.kind = "create_file"
    <2>1. o.entry.kind = "file"
      BY <1>1, <1>2, <1>5, PlacedFacts DEF CreateRight, Enters
    <2> QED BY <1>3, <2>1
  <1>6. CASE o.kind = "rename" /\ o.slot # o.at
    <2>1. o.entry.kind \in Live
      <3>1. o.at \in LiveEntries /\ o.entry = [EntryAt(o.at) EXCEPT !.name = o.entry.name]
        BY <1>1, <1>6, PlacedFacts DEF RenameRight
      <3>2. EntryAt(o.at) \in Entry /\ EntryAt(o.at).kind \in Live
        BY <3>1, PlacedFacts, FirstType DEF LiveEntries
      <3> QED BY <3>1, <3>2 DEF Entry
    <2> QED BY <1>1, <1>3, <1>6, <2>1, MovedRooted DEF Live
  <1> QED BY <1>2, <1>3, <1>4, <1>5, <1>6

(* Between calls the second dot entry of a directory names the one that    *)
(* lists it.                                                               *)
LEMMA ParentNamed ==
  ASSUME Placed, op.step = "idle", NEW l \in LiveOf("dir"), NEW d \in DirectoryHeads, Within(l, d)
  PROVE  /\ FirstOf(l) \in DirectoryHeads /\ FirstOf(l) # Root /\ d \in Clusters
         /\ fat32_directory_parent_cluster(FirstOf(l)) = d
  <1>1. op.kind = "none"
    BY PlacedFacts DEF StepOK, Call
  <1>2. FirstOf(l) # Free /\ DotDot(FirstOf(l), d)
    BY <1>1, PlacedFacts DEF Volume, DotsRight, Moving
  <1>3. FirstOf(l) # Root
    BY <1>2, PlacedFacts DEF EntrySound, LiveOf
  <1>4. slots[FirstOf(l)][1].kind = "dotdot" /\ slots[FirstOf(l)][1].first = d
    BY <1>2 DEF DotDot, fat32_build_entry
  <1>5. d \in Clusters /\ d # Free
    BY PlacedFacts, FreeOutside DEF Separate
  <1> QED BY <1>3, <1>4, <1>5 DEF fat32_directory_parent_cluster, DirectoryHeads

(* One step of fat32_directory_is_descendant.                              *)
Above(c, a) == IF c \in {a, Root, Free} THEN c ELSE fat32_directory_parent_cluster(c)

Climb(f, dir, a) == f = [k \in 0 .. N - 1 |-> IF k = 0 THEN dir ELSE Above(f[k - 1], a)]

LEMMA ClimbExists ==
  ASSUME Disk, NEW dir \in Clusters, NEW a
  PROVE  \E f : Climb(f, dir, a)
  <1> DEFINE t == [c \in Clusters |-> Above(c, a)]
             w == WalkOf(t, dir)
             f == [k \in 0 .. N - 1 |-> w[k]]
  <1>1. \A c \in Clusters : Above(c, a) \in Clusters \cup {Free}
    <2>1. \A c \in Clusters : slots[c][1].first \in Clusters \cup {Free}
      BY SlotNumbers DEF Disk, Entry
    <2> QED BY <2>1 DEF Above, fat32_directory_parent_cluster
  <1>2. \A c \in Clusters : t[c] = Above(c, a)
    OBVIOUS
  <1>3. w[0] = dir /\ \A k \in 1 .. N : w[k] = Successor(t, w[k - 1])
    BY WalkIs
  <1> HIDE DEF t, w
  <1>4. ASSUME NEW k \in 1 .. N
        PROVE  w[k] \in Clusters \cup {Free}
    BY <1>1, <1>2, <1>3 DEF Successor
  <1>5. ASSUME NEW k \in 1 .. N - 1
        PROVE  f[k] = Above(f[k - 1], a)
    <2>1. k \in 1 .. N /\ k \in 0 .. N - 1 /\ k - 1 \in 0 .. N - 1 /\ (k - 1 = 0 \/ k - 1 \in 1 .. N)
      OBVIOUS
    <2>2. f[k] = Successor(t, w[k - 1]) /\ f[k - 1] = w[k - 1]
      BY <1>3, <2>1
    <2>3. w[k - 1] \in Clusters \cup {Free}
      BY <1>3, <1>4, <2>1
    <2>4. CASE w[k - 1] \in Clusters
      BY <1>2, <2>2, <2>4 DEF Successor
    <2>5. CASE w[k - 1] = Free
      BY <2>2, <2>5, FreeOutside DEF Successor, Above
    <2> QED BY <2>3, <2>4, <2>5
  <1>6. f[0] = dir
    <2>1. 0 \in 0 .. N - 1
      BY DEF Clusters
    <2> QED BY <1>3, <2>1
  <1>7. f = [k \in 0 .. N - 1 |-> f[k]]
    OBVIOUS
  <1> HIDE DEF f
  <1>8. \A k \in 0 .. N - 1 : f[k] = IF k = 0 THEN dir ELSE Above(f[k - 1], a)
    BY <1>5, <1>6
  <1>9. Climb(f, dir, a)
    BY <1>7, <1>8 DEF Climb
  <1> QED BY <1>9

LEMMA ClimbIs ==
  ASSUME Disk, NEW dir \in Clusters, NEW a
  PROVE  \E f : /\ f[0] = dir
                /\ \A k \in 1 .. N - 1 : f[k] = Above(f[k - 1], a)
                /\ fat32_directory_is_descendant(dir, a) <=> f[N - 1] = a
  <1> DEFINE f == CHOOSE g : Climb(g, dir, a)
  <1>1. Climb(f, dir, a)
    BY ClimbExists
  <1>2. fat32_directory_is_descendant(dir, a) <=> f[N - 1] = a
    BY Zenon DEF fat32_directory_is_descendant, Climb, Above
  <1> HIDE DEF f
  <1>3. 0 \in 0 .. N - 1 /\ \A k \in 1 .. N - 1 : k \in 0 .. N - 1 /\ k # 0
    BY DEF Clusters
  <1>4. f[0] = dir /\ \A k \in 1 .. N - 1 : f[k] = Above(f[k - 1], a)
    BY ONLY <1>1, <1>3 DEF Climb
  <1> QED BY <1>2, <1>4

(* Where the search for an ancestor goes, it goes along the entries, and   *)
(* it comes to the root: the directories on the way are a lineage that     *)
(* does not have the one that was not found.                               *)
LEMMA DescendantApart ==
  ASSUME Placed, op.step = "idle", Upward(op), NEW dir \in DirectoryHeads, NEW a,
         ~fat32_directory_is_descendant(dir, a)
  PROVE  \E U \in SUBSET DirectoryHeads : dir \in U /\ a \notin U /\ Lineage(U)
  <1> DEFINE Stops(c) == c \in {a, Root} \/ c \notin DirectoryHeads
             t == [c \in Clusters |-> IF Stops(c) THEN Free ELSE fat32_directory_parent_cluster(c)]
             U == ChainOf(t, dir)
  <1>1. /\ Disk /\ DirectoryHeads \subseteq Clusters /\ EntriesListed
        /\ \A h \in DirectoryHeads : h # Root => \E l \in LiveOf("dir") : FirstOf(l) = h
    BY PlacedFacts DEF Separate, Volume, DirectoryHeads
  <1>2. \A c \in Clusters : t[c] = IF Stops(c) THEN Free ELSE fat32_directory_parent_cluster(c)
    OBVIOUS
  <1> HIDE DEF t
  <1>3. Acyclic(t)
    <2> SUFFICES ASSUME NEW S \in SUBSET Clusters, S # {}, \A c \in S : t[c] \in S PROVE FALSE
      BY DEF Acyclic
    <2>1. \A c \in S : ~Stops(c)
      BY <1>2, FreeOutside
    <2>2. S \in SUBSET (DirectoryHeads \ {Root})
      BY <2>1
    <2>3. PICK h \in S, d \in DirectoryHeads \ S : Leads(h, d, op)
      BY <2>2 DEF Upward
    <2>4. t[h] = d
      BY <1>2, <2>1, <2>3, ParentNamed DEF Leads
    <2> QED BY <2>3, <2>4
  <1>4. dir \in U /\ U \subseteq Clusters /\ Closed(U, t)
    BY <1>1, <1>3, ChainClosed
  <1>5. U \subseteq DirectoryHeads
    <2>1. Closed(DirectoryHeads, t)
      <3> SUFFICES ASSUME NEW h \in DirectoryHeads, t[h] \in Clusters PROVE t[h] \in DirectoryHeads
        BY DEF Closed
      <3>1. ~Stops(h) /\ t[h] = fat32_directory_parent_cluster(h) /\ h # Root
        BY <1>1, <1>2, FreeOutside
      <3>2. PICK l \in LiveOf("dir") : FirstOf(l) = h
        BY <1>1, <3>1
      <3>3. PICK d \in DirectoryHeads : Within(l, d)
        BY <1>1, <3>2 DEF EntriesListed, LiveOf
      <3> QED BY <3>1, <3>2, <3>3, ParentNamed
    <2> QED BY <1>1, <2>1, ChainLeast
  <1>6. a \notin U
    <2> SUFFICES ASSUME a \in U PROVE FALSE
      OBVIOUS
    <2> DEFINE w == WalkOf(t, dir)
    <2>1. w[0] = dir /\ \A k \in 1 .. N : w[k] = Successor(t, w[k - 1])
      BY WalkIs
    <2>2. PICK i \in 0 .. N : w[i] = a /\ a \in Clusters
      BY DEF ChainOf
    <2>3. i # N
      <3>1. PICK k \in 0 .. N : w[k] \notin Clusters
        BY <1>3, WalkLeaves
      <3> QED BY <2>2, <3>1, WalkStays
    <2>4. \A k \in 0 .. N : w[k] \in Clusters => \A j \in 0 .. k : w[j] \in Clusters
      BY WalkStays
    <2> HIDE DEF w
    <2>5. PICK f : /\ f[0] = dir
                   /\ \A k \in 1 .. N - 1 : f[k] = Above(f[k - 1], a)
                   /\ f[N - 1] # a
      BY <1>1, ClimbIs
    <2>6. \A k \in 0 .. N - 1 : w[k] \in Clusters => f[k] = w[k]
      <3> DEFINE Bad == {k \in 0 .. N - 1 : w[k] \in Clusters /\ f[k] # w[k]}
      <3>1. ASSUME Bad # {} PROVE FALSE
        <4>1. PICK k \in Bad : \A j \in Bad : k <= j
          <5>1. Bad \in SUBSET Nat
            OBVIOUS
          <5> HIDE DEF Bad
          <5> QED BY <3>1, <5>1, LeastNatural
        <4>2. k \in 1 .. N - 1 /\ k \in 1 .. N /\ k - 1 \in 0 .. N - 1 /\ k - 1 \in 0 .. k /\ ~(k <= k - 1)
          BY <2>1, <2>5, <4>1
        <4>3. w[k - 1] \in Clusters
          BY <2>4, <4>1, <4>2
        <4>4. f[k - 1] = w[k - 1]
          BY <4>1, <4>2, <4>3
        <4>5. w[k] = t[w[k - 1]] /\ w[k] # Free
          BY <2>1, <4>1, <4>2, <4>3, FreeOutside DEF Successor
        <4>6. ~Stops(w[k - 1]) /\ w[k] = fat32_directory_parent_cluster(w[k - 1])
          BY <1>2, <4>3, <4>5
        <4>7. f[k] = fat32_directory_parent_cluster(w[k - 1])
          BY <2>5, <4>2, <4>3, <4>4, <4>6, FreeOutside DEF Above
        <4> QED BY <4>1, <4>6, <4>7
      <3> QED BY <3>1
    <2>7. f[i] = a /\ i \in 0 .. N - 1
      BY <2>2, <2>3, <2>6
    <2> DEFINE Bad == {k \in i .. N - 1 : f[k] # a}
    <2>8. PICK k \in Bad : \A j \in Bad : k <= j
      <3>1. Bad \in SUBSET Nat /\ N - 1 \in Bad
        BY <2>5, <2>7
      <3> HIDE DEF Bad
      <3> QED BY <3>1, LeastNatural
    <2>9. k \in 1 .. N - 1 /\ k - 1 \in i .. N - 1 /\ ~(k <= k - 1) /\ f[k] # a
      BY <2>7, <2>8
    <2>10. f[k - 1] = a
      BY <2>8, <2>9
    <2>11. f[k] = a
      BY <2>5, <2>9, <2>10 DEF Above
    <2> QED BY <2>9, <2>11
  <1>7. Lineage(U)
    <2> SUFFICES ASSUME NEW l \in LiveOf("dir"), FirstOf(l) \in U
                 PROVE  \E d \in U : Within(l, d)
      BY DEF Lineage
    <2>1. PICK d \in DirectoryHeads : Within(l, d)
      BY <1>1 DEF EntriesListed, LiveOf
    <2>2. /\ FirstOf(l) \in DirectoryHeads /\ FirstOf(l) # Root /\ d \in Clusters
          /\ fat32_directory_parent_cluster(FirstOf(l)) = d
      BY <2>1, ParentNamed
    <2>3. FirstOf(l) \in Clusters /\ ~Stops(FirstOf(l))
      BY <1>1, <1>6, <2>2
    <2>4. t[FirstOf(l)] = d
      BY <1>2, <2>2, <2>3
    <2>5. d \in U
      BY <1>4, <2>2, <2>4 DEF Closed
    <2> QED BY <2>1, <2>5
  <1> QED BY <1>4, <1>5, <1>6, <1>7

(* A call changes nothing on the volume.                                   *)
LEMMA SameNames ==
  ASSUME EntriesStay
  PROVE  NamesStay
  BY StayHeads DEF NamesStay, LiveOf

(* The kind of a write stays while the call is prepared.                   *)
LEMMA ResizeKind ==
  ASSUME NEW call \in Call, call.kind = "write"
  PROVE  Resize(call).kind = "write"
  <1> DEFINE required == RequiredClusters(call.entry.size)
             have     == fat32_chain_length(call.first)
             last     == IF call.first = Free THEN Free
                         ELSE CHOOSE l \in LastCluster(call.first) : TRUE
             need     == required - have
  <1>1. \/ Resize(call) = DataOrUpdate(call)
        \/ Resize(call) = [call EXCEPT !.first = Free, !.cur = call.first, !.step = "free"]
        \/ Resize(call) = [call EXCEPT !.need = required, !.step = "cut"]
        \/ Resize(call) = GrowOrWrite([call EXCEPT !.need = need, !.last = last])
    BY DEF Resize
  <1> HIDE DEF required, need, last
  <1>2. ASSUME NEW n, \/ n = DataOrUpdate(call)
                      \/ n = [call EXCEPT !.first = Free, !.cur = call.first, !.step = "free"]
                      \/ n = [call EXCEPT !.need = required, !.step = "cut"]
                      \/ n = GrowOrWrite([call EXCEPT !.need = need, !.last = last])
        PROVE  n.kind = "write"
    BY <1>2 DEF GrowOrWrite, DataOrUpdate, Call
  <1> QED BY <1>1, <1>2

LEMMA WriteCallKind ==
  ASSUME TypeInv, NEW loc \in Location, NEW e \in Entry,
         NEW offset \in Offsets, NEW length \in Lengths, offset + length < Word
  PROVE  WriteCall(loc, e, offset, length).kind = "write"
  <1> DEFINE call == WriteCall(loc, e, offset, length)
  <1>1. /\ call.kind = "write" /\ call.at = loc /\ call.first = e.first
        /\ call.entry = [e EXCEPT !.size = NewSize(e, offset, length)]
    BY WriteCallFields
  <1> QED BY <1>1

LEMMA RequestCarries ==
  ASSUME Placed, Request
  PROVE  \/ Carries
         \/ \E path \in Paths, new_path \in Paths : fat32_rename(path, new_path) /\ op' # Idle
  <1>1. Before
    BY DEF Placed
  <1>2. Idle \in Call /\ Idle.kind = "none"
    BY IdleType DEF Idle
  <1>3. CASE op' = Idle
    BY <1>1, <1>3, RecoverCarries
  <1>4. ASSUME NEW path \in Paths, fat32_create_file(path) \/ fat32_create_directory(path) \/ fat32_remove(path),
               op' # Idle
        PROVE  Carries
    <2>1. op'.kind \in {"create_file", "create_directory", "remove"}
      BY <1>2, <1>4 DEF fat32_create_file, fat32_create_directory, fat32_remove, Refuse, Finish, Begin, Call
    <2> QED BY <1>1, <2>1, OthersCarry
  <1>5. ASSUME NEW path \in Paths, NEW offset \in Offsets, NEW length \in Lengths,
               fat32_write(path, offset, length), op' # Idle
        PROVE  Carries
    <2>1. PICK loc \in Lookup(path) : /\ offset + length < Word
                                      /\ op' = Resize(WriteCall(loc, EntryAt(loc), offset, length))
      BY <1>5 DEF fat32_write, Refuse, Finish, Begin
    <2>2. loc \in Location /\ EntryAt(loc) \in Entry /\ TypeInv
      BY <1>1, LookupPlaced, PlacedFacts, FirstType DEF Before
    <2>3. WriteCall(loc, EntryAt(loc), offset, length) \in Call
          /\ WriteCall(loc, EntryAt(loc), offset, length).kind = "write"
      <3>1. /\ TypeInv /\ loc \in Location /\ EntryAt(loc) \in Entry
            /\ offset \in Offsets /\ length \in Lengths /\ offset + length < Word
        BY <2>1, <2>2
      <3> QED BY ONLY <3>1, WriteCallType, WriteCallKind
    <2>4. op'.kind = "write"
      BY <2>1, <2>3, ResizeKind
    <2> QED BY <1>1, <2>4, OthersCarry
  <1> QED BY <1>3, <1>4, <1>5 DEF Request

(* The check of fat32_rename, when it begins.                              *)
LEMMA RequestRooted ==
  ASSUME Placed, [Next]_vars, Upward(op), MoveRight(op), Request
  PROVE  Upward(op)' /\ MoveRight(op)'
  <1>1. UNCHANGED <<fat, slots>>
    BY DEF Request, fat32_create_file, fat32_create_directory, fat32_write, fat32_rename, fat32_remove
  <1>2. EntriesStay /\ NamesStay
    BY <1>1, UnchangedKeeps, SameNames
  <1>3. CASE Carries
    BY <1>2, <1>3, StayRooted
  <1>4. ASSUME NEW path \in Paths, NEW new_path \in Paths, fat32_rename(path, new_path), op' # Idle
        PROVE  Upward(op)' /\ MoveRight(op)'
    <2>1. op.step = "idle"
      BY <1>4 DEF fat32_rename, Ready
    <2>2. PICK loc \in Lookup(path) :
             /\ ParentOf(new_path) \in Clusters
             /\ ~(/\ EntryAt(loc).kind = "dir" /\ ParentOf(new_path) # ParentOf(path)
                  /\ fat32_directory_is_descendant(ParentOf(new_path), EntryAt(loc).first))
             /\ op' = RenameCall(loc, ParentOf(path), ParentOf(new_path), NameOf(new_path))
      BY <1>4 DEF fat32_rename, Refuse, Finish, Begin
    <2>3. PICK to, name : to = ParentOf(new_path) /\ name = NameOf(new_path)
      OBVIOUS
    <2>4. loc \in LiveEntries /\ loc \in Location /\ EntryAt(loc) \in Entry
      BY LookupPlaced, PlacedFacts, FirstType
    <2>5. to \in DirectoryHeads
      BY <2>2, <2>3, ParentHead, FreeOutside
    <2> DEFINE e == [EntryAt(loc) EXCEPT !.name = name]
               first == EntryAt(loc).first
               step == IF ParentOf(path) = to THEN "entry" ELSE "slot"
    <2>6. op' = [Idle EXCEPT !.kind = "rename", !.dir = to, !.at = loc, !.slot = loc,
                   !.entry = e, !.first = first, !.step = step]
      BY <2>2, <2>3 DEF RenameCall
    <2>7. e.kind = EntryAt(loc).kind
      BY <2>4 DEF Entry
    <2>8. step \in {"entry", "slot"} /\ (step = "slot" <=> to # ParentOf(path))
      OBVIOUS
    <2> HIDE DEF e, step
    <2>9. /\ op'.kind = "rename" /\ op'.dir = to /\ op'.at = loc /\ op'.slot = loc
          /\ op'.entry = e /\ op'.first = first /\ op'.step = step
      BY <2>6, IdleType DEF Call
    <2>10. PICK o, n : o = op /\ n = op'
      OBVIOUS
    <2>11. \A l : ~Moving(n, l)
      BY <2>8, <2>9, <2>10 DEF Moving
    <2>12. \A l, d : Within(l, d)' <=> Within(l, d)
      BY <1>1, ChainsKept
    <2>13. /\ DirectoryHeads' = DirectoryHeads /\ LiveOf("dir")' = LiveOf("dir")
           /\ \A l \in LiveOf("dir") : FirstOf(l)' = FirstOf(l)
      BY <1>2 DEF NamesStay
    <2>14. Upward(n)'
      <3>1. ASSUME NEW h \in DirectoryHeads', NEW d \in DirectoryHeads, Leads(h, d, o)
            PROVE  d \in DirectoryHeads' /\ Leads(h, d, n)'
        <4>1. PICK l \in LiveOf("dir") : FirstOf(l) = h /\ Within(l, d)
          BY <3>1 DEF Leads
        <4>2. l \in LiveOf("dir")' /\ FirstOf(l)' = h /\ ~Moving(n, l) /\ Within(l, d)'
          BY <2>11, <2>12, <2>13, <4>1
        <4>3. Leads(h, d, n)'
          BY <4>2 DEF Leads, Moving
        <4> QED BY <2>13, <4>3
      <3>2. Upward(o)
        BY <2>10
      <3> QED BY <2>13, <3>1, <3>2, UpwardStep
    <2>15. Upward(op)'
      BY <2>10, <2>14 DEF Upward, Leads, Moving
    <2>16. MoveRight(op)'
      <3> SUFFICES ASSUME Moves(op)'
                   PROVE  \E U \in SUBSET DirectoryHeads' : op'.dir \in U /\ op'.first \notin U /\ Lineage(U)'
        BY DEF MoveRight
      <3>1. EntryAt(loc).kind = "dir" /\ to # ParentOf(path)
        BY <2>7, <2>8, <2>9 DEF Moves
      <3>2. ~fat32_directory_is_descendant(to, first)
        BY <2>2, <2>3, <3>1
      <3> HIDE DEF first
      <3>3. PICK U \in SUBSET DirectoryHeads : to \in U /\ first \notin U /\ Lineage(U)
        BY <2>1, <2>5, <3>2, DescendantApart
      <3>4. Lineage(U)'
        BY <2>12, <2>13, <3>3 DEF Lineage
      <3> QED BY <2>9, <2>13, <3>3, <3>4
    <2> QED BY <2>15, <2>16
  <1> QED BY <1>3, <1>4, RequestCarries

LEMMA NextRooted ==
  ASSUME Placed, [Next]_vars, Upward(op), MoveRight(op)
  PROVE  Upward(op)' /\ MoveRight(op)'
  <1>1. CASE FindSlot \/ DiskFull \/ WriteLost \/ PowerLoss
    <2>1. UNCHANGED <<fat, slots>>
      BY <1>1 DEF WriteLost, PowerLoss, FindSlot, DiskFull, Fail
    <2>2. NamesStay /\ Carries
      BY <1>1, <2>1, UnchangedKeeps, SameNames, StayCarries DEF Placed
    <2> QED BY <2>2, StayRooted
  <1>2. CASE MarkCluster \/ ZeroCluster \/ LinkCluster \/ CutChain \/ FreeCluster \/ WriteData
    <2>1. NamesStay /\ Carries
      BY <1>2, MarkKeeps, ZeroKeeps, LinkKeeps, CutKeeps, FreeKeeps, WriteDataKeeps, SameNames,
         StayCarries DEF Placed
    <2> QED BY <2>1, StayRooted
  <1>3. CASE UpdateEntry
    <2>1. NamesStay /\ Carries
      BY <1>3, UpdateNames, StayCarries DEF Placed
    <2> QED BY <2>1, StayRooted
  <1>4. CASE UNCHANGED vars
    <2>1. UNCHANGED <<fat, slots>> /\ op' = op
      BY <1>4 DEF vars
    <2>2. NamesStay
      BY <2>1, UnchangedKeeps, SameNames
    <2>3. Carries
      BY <2>1 DEF Carries, Moving, Moves
    <2> QED BY <2>2, <2>3, StayRooted
  <1> QED BY <1>1, <1>2, <1>3, <1>4, RequestRooted, DotsRooted, EntryRooted, DropRooted DEF Next, Step

LEMMA InitRooted == ASSUME Init PROVE Rooted
  <1>1. \A l \in Location : EntryAt(l) = Mark("end")
    BY DEF Init, EntryAt, Location
  <1>2. LiveOf("dir") = {}
    BY <1>1 DEF LiveOf, LiveEntries, Live, Mark, fat32_build_entry
  <1>3. DirectoryHeads = {Root}
    BY <1>2 DEF DirectoryHeads
  <1>4. op.kind = "none"
    BY DEF Init, Idle
  <1>5. Upward(op)
    BY <1>3 DEF Upward
  <1> QED BY <1>4, <1>5 DEF Rooted, MoveRight, Moves

-----------------------------------------------------------------------------
(* What an operation may not lose.                                         *)

(* The clusters that an entry, the root or the operation leads to; and     *)
(* those that it lead to before a step, or that the step allocates, lead   *)
(* somewhere after it, in operation n.                                     *)
Owned(c)   == c \in ChainSet(Root) \/ \E l \in LiveEntries : c \in ChainSet(FirstOf(l))
InHand(c, o) == c \in ChainSet(o.first) \/ c \in ChainSet(o.cur) \/ c = o.new
Led(c, o)  == Owned(c) \/ (o.step # "idle" /\ InHand(c, o))
LedOn(n)   == \A c \in Clusters : fat'[c] # Free /\ (fat[c] = Free \/ Led(c, op)) => Led(c, n)'
LedKept    == \A c \in Clusters : fat'[c] # Free /\ (fat[c] = Free \/ Led(c, op)) => Led(c, op)'

Calm == Placed /\ [Next]_vars /\ faults' = 0 /\ HeldRight(op)
Safe == HeldRight(op)' /\ (GivesUpOnEmptyFile \/ LedKept)

(* Without a fault a step goes on as it should.                            *)
LEMMA NoFault ==
  ASSUME Calm
  PROVE  /\ \A kind, window : ~Strike(kind, window)
         /\ \A reached : ~WriteFails(reached)
         /\ \A next : Proceed(next) => op' = next /\ UNCHANGED ret
         /\ Complete => op' = Idle
         /\ ~WriteLost /\ ~PowerLoss
  <1>1. faults \in Nat /\ faults' = 0
    BY DEF Calm, Placed, Before, TypeInv, TypeOK
  <1>2. \A kind, window : ~Strike(kind, window)
    BY <1>1 DEF Strike
  <1>3. \A reached : ~WriteFails(reached)
    BY <1>2 DEF WriteFails
  <1> QED BY <1>2, <1>3 DEF Proceed, Complete, Finish, WriteLost, PowerLoss

LEMMA IdleHeld == HeldRight(Idle) /\ HeldRight(Idle)'
  BY DEF HeldRight, Idle

LEMMA FatSame ==
  ASSUME UNCHANGED fat, NEW n, HeldRight(n)
  PROVE  HeldRight(n)'
  BY ChainsKept DEF HeldRight

LEMMA SafeAs ==
  ASSUME NEW n, op' = n, HeldRight(n)', LedOn(n)
  PROVE  Safe
  <1>1. HeldRight(op)'
    BY DEF HeldRight, ChainSet, Walk
  <1>2. ChainSet(op.first)' = ChainSet(n.first)' /\ ChainSet(op.cur)' = ChainSet(n.cur)'
    BY DEF ChainSet, Walk
  <1>3. \A c : Led(c, op)' <=> Led(c, n)'
    BY <1>2 DEF Led, InHand
  <1>4. LedKept
    BY <1>3 DEF LedKept, LedOn
  <1> QED BY <1>1, <1>4 DEF Safe

(* The chain of a cluster that has no successor.                           *)
LEMMA Alone ==
  ASSUME NEW f \in Clusters, fat[f] \notin Clusters
  PROVE  ChainSet(f) \subseteq {f}
  <1>1. Closed({f}, fat)
    BY DEF Closed
  <1> QED BY <1>1, ChainLeast, ChainIs

(* The clusters that entries lead to stay so, whatever the entries' names  *)
(* and whoever names the chain.                                            *)
LEMMA OwnedKept ==
  ASSUME Calm, op.kind # "remove", NEW c, Owned(c), \A f : c \in ChainSet(f) => c \in ChainSet(f)'
  PROVE  Owned(c)'
  <1>1. CASE c \in ChainSet(Root)
    BY <1>1 DEF Owned
  <1>2. CASE c \notin ChainSet(Root)
    <2>1. PICK l \in LiveEntries : c \in ChainSet(FirstOf(l))
      BY <1>2 DEF Owned
    <2>2. FirstOf(l) # Free
      BY <2>1, PlacedFacts, TableFacts, Chains, FreeOutside DEF Calm, Placed
    <2>3. PICK m \in LiveEntries' : FirstOf(m)' = FirstOf(l)
      BY <2>2, NextKeeps DEF Calm, ChainsNamed
    <2>4. PICK f : f = FirstOf(l)
      OBVIOUS
    <2>5. c \in ChainOf(fat', f) /\ FirstOf(m)' = f
      BY <2>1, <2>3, <2>4, ChainNext
    <2>6. c \in ChainSet(FirstOf(m))'
      BY <2>5, ChainNext
    <2> QED BY <2>3, <2>6 DEF Owned
  <1> QED BY <1>1, <1>2

LEMMA CalmFacts ==
  ASSUME Calm
  PROVE  /\ Placed /\ HeldRight(op) /\ Before /\ TypeInv /\ op \in Call /\ op' \in Call /\ StepOK(op)
         /\ CallSound(op) /\ Disk /\ Disk' /\ TableSound
         /\ NoCycle /\ NoCycle' /\ Acyclic(fat) /\ Acyclic(fat')
         /\ fat \in TableType /\ Disjoint(fat)
         /\ \A f : ChainSet(f) \subseteq Clusters
         /\ \A f : f \notin Clusters => ChainSet(f) = {}
         /\ \A f \in Clusters : f \in ChainSet(f)
         /\ Free \notin Clusters
  BY PlacedFacts, TableFacts, Chains, FreeOutside DEF Calm, Placed, Before, NoCycle, Acyclic

(* The cluster allocated last is in a chain that stays, when the operation *)
(* is past the link.                                                       *)
LEMMA NewOwned ==
  ASSUME Calm, op.new # Free, op.step \notin {"idle", "zero", "link"}
  PROVE  op.new \in ChainSet(op.first) \/ (Owned(op.new) /\ op.kind # "remove")
  <1>1. CASE op.new \in ChainSet(op.first)
    BY <1>1
  <1>2. CASE (op.kind = "rename" \/ op.step = "entry") /\ op.new \in ChainSet(op.dir)
    <2>1. op.kind \in {"create_file", "create_directory", "rename"}
      BY <1>2, CalmFacts DEF StepOK, Call
    <2>2. Enters(op) => op.dir \in DirectoryHeads
      BY CalmFacts, PlacedFacts DEF DirectoryRight
    <2>3. ASSUME ~Enters(op)
          PROVE  op.dir \in DirectoryHeads
      <3>1. op.kind = "rename" /\ op.step \in {"dots", "unlink", "undo"}
        BY <1>2, <2>1, <2>3, CalmFacts DEF StepOK, Enters
      <3>2. RenameRight(op)
        BY CalmFacts, PlacedFacts
      <3> QED BY <1>2, <3>1, <3>2 DEF RenameRight
    <2>4. op.dir \in DirectoryHeads
      BY <2>2, <2>3
    <2> QED BY <1>2, <2>1, <2>4 DEF Owned, DirectoryHeads, LiveOf
  <1> QED BY <1>1, <1>2, CalmFacts DEF HeldRight

(* An operation goes on with the clusters it has.                          *)
LEMMA GoesOn ==
  ASSUME Calm, UNCHANGED fat, op.kind # "remove", op.step \notin {"idle", "free"},
         NEW n, op' = n, n.step # "idle", HeldRight(n),
         op.first \in {Free, n.first}, n.cur = op.cur \/ op.cur = Free,
         n.new = op.new
  PROVE  Safe
  <1>1. \A f : ChainSet(f)' = ChainSet(f)
    BY ChainsKept
  <1>2. ASSUME NEW c \in Clusters, Owned(c)
        PROVE  Owned(c)'
    BY <1>1, <1>2, OwnedKept
  <1>3. ASSUME NEW c \in Clusters, InHand(c, op)
        PROVE  InHand(c, n)'
    BY <1>1, <1>3, CalmFacts DEF InHand
  <1>4. LedOn(n)
    BY <1>2, <1>3 DEF LedOn, Led
  <1> QED BY <1>4, FatSame, SafeAs

(* An operation ends when an entry leads to its chain.                     *)
LEMMA Ends ==
  ASSUME Calm, UNCHANGED fat, op' = Idle, op.kind # "remove", op.step \notin {"idle", "free", "zero", "link"},
         op.first = Free \/ \E l \in LiveEntries' : FirstOf(l)' = op.first
  PROVE  Safe
  <1>1. \A f : ChainSet(f)' = ChainSet(f)
    BY ChainsKept
  <1>2. ASSUME NEW c \in Clusters, Owned(c)
        PROVE  Owned(c)'
    BY <1>1, <1>2, OwnedKept
  <1>3. ASSUME NEW c \in ChainSet(op.first)
        PROVE  Owned(c)'
    <2>1. PICK l \in LiveEntries' : FirstOf(l)' = op.first
      BY <1>3, CalmFacts
    <2>2. PICK f : f = op.first
      OBVIOUS
    <2>3. c \in ChainOf(fat', f) /\ FirstOf(l)' = f
      BY <1>1, <1>3, <2>1, <2>2, ChainNext
    <2>4. c \in ChainSet(FirstOf(l))'
      BY <2>3, ChainNext
    <2> QED BY <2>1, <2>4 DEF Owned
  <1>4. ASSUME NEW c \in ChainSet(op.cur), fat'[c] # Free
        PROVE  FALSE
    <2>1. op.cur \in Clusters /\ fat[op.cur] = Free
      BY <1>4, CalmFacts DEF HeldRight, Call
    <2> QED BY <1>4, <2>1, Alone, CalmFacts
  <1>5. \A c \in Clusters : fat'[c] # Free /\ Led(c, op) => Owned(c)'
    BY <1>2, <1>3, <1>4, NewOwned, CalmFacts DEF Led, InHand
  <1>6. PICK n : n = Idle
    OBVIOUS
  <1>7. LedOn(n)
    BY <1>5 DEF LedOn, Led
  <1>8. HeldRight(n)'
    BY <1>6, IdleHeld, FatSame
  <1> QED BY <1>6, <1>7, <1>8, SafeAs

(* The error path, where nothing has failed: the disk is full, or a chain  *)
(* ends where it should not.                                               *)
LEMMA RecoverSafe ==
  ASSUME Calm, UNCHANGED <<fat, slots>>, op.step \in {"slot", "mark", "cut", "data"}, Recover
  PROVE  Safe
  <1>1. op.kind \in {"create_file", "create_directory", "write", "rename"}
    BY CalmFacts DEF StepOK, Call
  <1>2. CASE op' = [op EXCEPT !.step = "free", !.cur = op.first]
    <2>1. op.kind = "create_directory" /\ op.first # Free
      BY <1>2, CalmFacts DEF Recover, Finish, Idle, Call
    <2>2. fat[op.first] = EndOfChain /\ op.cur = Free
      BY <2>1, CalmFacts, PlacedFacts DEF NewDirectoryRight, HeldRight, StepOK
    <2>3. PICK n \in Call : n = op'
      BY CalmFacts
    <2>4. n.step = "free" /\ n.cur = op.first /\ n.first = op.first /\ n.new = op.new /\ n.kind = op.kind
      BY <1>2, <2>3, CalmFacts DEF Call
    <2>5. HeldRight(n)
      BY <2>1, <2>2, <2>4, CalmFacts DEF HeldRight
    <2> QED BY <1>1, <2>2, <2>3, <2>4, <2>5, GoesOn
  <1>3. CASE Finish("error")
    <2>1. op' = Idle /\ ret' = "error" /\ Idle.step = "idle"
      BY <1>3 DEF Finish, Idle
    <2>2. CASE op.first = Free
      BY <1>1, <2>1, <2>2, Ends
    <2>3. CASE op.first # Free /\ op.kind = "write" /\ FirstOf(op.at) = Free
      <3>1. GivesUpOnEmptyFile
        BY <2>1, <2>3 DEF GivesUpOnEmptyFile
      <3>2. HeldRight(op)'
        <4>1. PICK n : n = Idle
          OBVIOUS
        <4>2. HeldRight(n)'
          BY <4>1, IdleHeld, FatSame
        <4> QED BY <2>1, <4>1, <4>2 DEF HeldRight, ChainSet, Walk
      <3> QED BY <3>1, <3>2 DEF Safe
    <2>4. CASE op.first # Free /\ ~(op.kind = "write" /\ FirstOf(op.at) = Free)
      <3>1. op.kind \in {"write", "rename"}
        BY <1>1, <1>3, <2>1, <2>4, CalmFacts DEF CallSound, Recover, Finish, Idle, Call
      <3>2. op.at \in LiveEntries /\ FirstOf(op.at) = op.first
        BY <2>4, <3>1, CalmFacts, PlacedFacts, FirstType DEF WriteRight, RenameRight, CallSound, LiveOf, FirstOf, LiveEntries, Entry
      <3>3. PICK l \in LiveEntries : FirstOf(l) = op.first
        BY <3>2
      <3>4. l \in LiveEntries' /\ FirstOf(l)' = op.first
        BY <3>3, SlotsSame
      <3> QED BY <1>1, <2>1, <3>4, Ends
    <2> QED BY <2>2, <2>3, <2>4
  <1> QED BY <1>2, <1>3 DEF Recover

LEMMA CalmStep ==
  ASSUME Calm, op.step # "idle"
  PROVE  /\ op.step # "undo"
         /\ op.cur # Free /\ op.step # "free" => fat[op.cur] = Free
         /\ op.step \notin {"free", "data", "update", "unlink"} => op.cur = Free
  BY CalmFacts DEF HeldRight

LEMMA FindSlotSafe == ASSUME Calm, FindSlot PROVE Safe
  <1>1. /\ UNCHANGED <<fat, slots>> /\ op.step = "slot" /\ op.cur = Free
        /\ op.kind \in {"create_file", "create_directory", "rename"}
    BY CalmFacts, CalmStep DEF FindSlot, Fail, StepOK, Call
  <1>2. CASE Recover
    BY <1>1, <1>2, RecoverSafe
  <1>3. CASE ~Recover
    <2>1. PICK n \in Call : n = op'
      BY CalmFacts
    <2>2. \/ \E l : n = [op EXCEPT !.slot = l, !.step = "entry"]
          \/ \E last : n = [op EXCEPT !.last = last, !.step = "mark"]
      BY <1>3, <2>1 DEF FindSlot, Fail
    <2>3. /\ n.step \in {"entry", "mark"} /\ n.kind = op.kind /\ n.first = op.first /\ n.new = op.new
          /\ n.cur = op.cur /\ n.dir = op.dir
      <3>1. CASE \E l : n = [op EXCEPT !.slot = l, !.step = "entry"]
        <4>1. PICK l : n = [op EXCEPT !.slot = l, !.step = "entry"]
          BY <3>1
        <4> QED BY <4>1, CalmFacts DEF Call
      <3>2. CASE \E last : n = [op EXCEPT !.last = last, !.step = "mark"]
        <4>1. PICK last : n = [op EXCEPT !.last = last, !.step = "mark"]
          BY <3>2
        <4> QED BY <4>1, CalmFacts DEF Call
      <3> QED BY <2>2, <3>1, <3>2
    <2>4. HeldRight(n)
      BY <1>1, <2>3, CalmFacts DEF HeldRight
    <2> QED BY <1>1, <2>1, <2>3, <2>4, GoesOn
  <1> QED BY <1>2, <1>3

LEMMA DiskFullSafe == ASSUME Calm, DiskFull PROVE Safe
  BY RecoverSafe DEF DiskFull, Fail

LEMMA ZeroSafe == ASSUME Calm, ZeroCluster PROVE Safe
  <1>1. /\ UNCHANGED fat /\ op.step = "zero" /\ op.cur = Free /\ op.new \in Clusters
        /\ op.kind \in {"create_file", "create_directory", "write", "rename"}
    BY CalmFacts, CalmStep, PlacedFacts DEF ZeroCluster, StepOK, CallOK, Call
  <1>2. PICK n \in Call : n = op' /\ n = Allocated
    BY CalmFacts, NoFault DEF ZeroCluster
  <1>3. /\ n.kind = op.kind /\ n.new = op.new /\ n.cur = op.cur
        /\ n.step \in {"dots", "link", "mark", "data", "update"}
        /\ n.step = "link" \/ n.first = op.new
        /\ op.first \in {Free, n.first}
    BY <1>1, <1>2, CalmFacts DEF Allocated, GrowOrWrite, DataOrUpdate, Call
  <1>4. HeldRight(n)
    BY <1>1, <1>3, CalmFacts DEF HeldRight
  <1> QED BY <1>1, <1>2, <1>3, <1>4, GoesOn

LEMMA DotsSafe == ASSUME Calm, WriteDots PROVE Safe
  <1>1. /\ UNCHANGED fat /\ op.step = "dots" /\ op.cur = Free
        /\ op.kind \in {"create_directory", "rename"}
    BY CalmFacts, CalmStep DEF WriteDots, StepOK, Call
  <1>2. PICK n \in Call : n = op' /\ n = [op EXCEPT !.step = IF op.kind = "rename" THEN "unlink" ELSE "slot"]
    BY CalmFacts, NoFault DEF WriteDots
  <1>3. /\ n.kind = op.kind /\ n.new = op.new /\ n.cur = op.cur /\ n.first = op.first /\ n.dir = op.dir
        /\ n.step \in {"unlink", "slot"}
    BY <1>2, CalmFacts DEF Call
  <1>4. HeldRight(n)
    BY <1>1, <1>3, CalmFacts DEF HeldRight
  <1> QED BY <1>1, <1>2, <1>3, <1>4, GoesOn

LEMMA EntrySafe == ASSUME Calm, WriteEntry PROVE Safe
  <1>1. PICK o \in Call : o = op
    BY CalmFacts
  <1>2. /\ UNCHANGED fat /\ o.step = "entry" /\ o.cur = Free
        /\ o.kind \in {"create_file", "create_directory", "rename"}
        /\ o.slot \in Location /\ EntryAt(o.slot)' = o.entry
        /\ o.slot \in LiveEntries' <=> o.entry.kind \in Live
        /\ IF o.kind = "rename" /\ o.slot # o.at
           THEN op' = [o EXCEPT !.step = IF o.entry.kind = "dir" THEN "dots" ELSE "unlink"]
           ELSE Complete
    BY <1>1, CalmFacts, CalmStep, EntryEffect
  <1>3. CASE o.kind = "rename" /\ o.slot # o.at
    <2>1. PICK n \in Call : n = op'
      BY CalmFacts
    <2>2. /\ n.kind = o.kind /\ n.new = o.new /\ n.cur = o.cur /\ n.first = o.first /\ n.dir = o.dir
          /\ n.step \in {"dots", "unlink"}
      BY <1>2, <1>3, <2>1, CalmFacts DEF Call
    <2>3. HeldRight(n)
      BY <1>1, <1>2, <1>3, <2>2, CalmFacts DEF HeldRight
    <2> QED BY <1>1, <1>2, <2>1, <2>2, <2>3, GoesOn
  <1>4. CASE ~(o.kind = "rename" /\ o.slot # o.at)
    <2>1. op' = Idle
      BY <1>2, <1>4, NoFault
    <2>2. o.entry.kind \in Live
      BY <1>1, <1>2, CalmFacts, PlacedFacts, FirstType
         DEF CreateRight, Enters, RenameRight, Live, LiveEntries, Entry
    <2>3. o.first = Free \/ o.entry.first = o.first
      BY <1>1, <1>2, CalmFacts DEF CallSound
    <2>4. FirstOf(o.slot)' = o.entry.first
      BY <1>2 DEF FirstOf
    <2> QED BY <1>1, <1>2, <2>1, <2>2, <2>3, <2>4, Ends
  <1> QED BY <1>3, <1>4

LEMMA UpdateSafe == ASSUME Calm, UpdateEntry PROVE Safe
  <1>1. PICK o \in Call : o = op
    BY CalmFacts
  <1>2. /\ UNCHANGED fat /\ o.step = "update" /\ o.kind = "write" /\ op' = Idle
        /\ o.entry.kind = "file" /\ o.at \in Location
    BY <1>1, CalmFacts, NoFault, PlacedFacts DEF UpdateEntry, StepOK, Call, WriteRight
  <1>3. PICK e \in Entry : e = [o.entry EXCEPT !.first = o.first]
    BY DEF Call, Entry
  <1>4. e.kind \in Live /\ e.first = o.first
    BY <1>2, <1>3 DEF Entry, Call, Live
  <1>5. PutEntry(o.at, e) /\ Disk
    BY <1>1, <1>3, CalmFacts DEF UpdateEntry
  <1>6. o.at \in LiveEntries' /\ FirstOf(o.at)' = o.first
    BY ONLY <1>2, <1>4, <1>5, SlotPut
  <1> QED BY <1>1, <1>2, <1>6, Ends

LEMMA DataSafe == ASSUME Calm, WriteData PROVE Safe
  <1>1. UNCHANGED fat /\ op.step = "data" /\ op.kind = "write"
    BY CalmFacts DEF WriteData, Fail, StepOK, Call
  <1>2. CASE Fail
    BY <1>1, <1>2, RecoverSafe DEF Fail
  <1>3. CASE ~Fail
    <2>1. PICK n \in Call : n = op' /\ n = DataOrUpdate([op EXCEPT !.pos = @ + 1])
      BY <1>3, CalmFacts, NoFault DEF WriteData
    <2>2. /\ n.kind = op.kind /\ n.new = op.new /\ n.cur = op.cur /\ n.first = op.first /\ n.dir = op.dir
          /\ n.step \in {"data", "update"}
      BY <2>1, CalmFacts DEF Call, DataOrUpdate
    <2>3. HeldRight(n)
      BY <1>1, <2>2, CalmFacts DEF HeldRight
    <2> QED BY <1>1, <2>1, <2>2, <2>3, GoesOn
  <1> QED BY <1>2, <1>3

(* The steps that change the table.                                        *)
LEMMA OwnedSame ==
  ASSUME UNCHANGED slots, NEW c, Owned(c), NEW tail,
         \A f : c \in ChainSet(f) => c \in ChainSet(f)' \/ c \in ChainSet(tail)'
  PROVE  Owned(c)' \/ c \in ChainSet(tail)'
  <1>1. CASE c \in ChainSet(Root)
    BY <1>1 DEF Owned
  <1>2. CASE c \notin ChainSet(Root)
    <2>1. PICK l \in LiveEntries : c \in ChainSet(FirstOf(l))
      BY <1>2 DEF Owned
    <2>2. PICK f : f = FirstOf(l)
      OBVIOUS
    <2>3. l \in LiveEntries' /\ FirstOf(l)' = f
      BY <2>1, <2>2, SlotsSame
    <2>4. CASE c \in ChainSet(f)'
      <3>1. c \in ChainSet(FirstOf(l))'
        BY <2>3, <2>4, ChainNext
      <3> QED BY <2>3, <3>1 DEF Owned
    <2> QED BY <2>1, <2>2, <2>4
  <1> QED BY <1>1, <1>2

(* Where a chain is cut, it becomes two, and loses nothing.                *)
LEMMA ChainCut ==
  ASSUME NEW t, NEW u, Acyclic(t), Acyclic(u), NEW k \in Clusters,
         \A c \in Clusters \ {k} : u[c] = t[c], u[k] \notin Clusters, NEW f
  PROVE  ChainOf(t, f) \subseteq ChainOf(u, f) \cup ChainOf(u, t[k])
  <1>1. CASE f \notin Clusters
    BY <1>1, ChainNone
  <1>2. CASE f \in Clusters
    <2> DEFINE S == ChainOf(u, f) \cup ChainOf(u, t[k])
    <2>1. S \in SUBSET Clusters
      BY ChainWithin
    <2>2. f \in S /\ Closed(ChainOf(u, f), u)
      BY <1>2, ChainClosed
    <2>3. t[k] \in Clusters => t[k] \in S /\ Closed(ChainOf(u, t[k]), u)
      BY ChainClosed
    <2>4. t[k] \notin Clusters => ChainOf(u, t[k]) = {}
      BY ChainNone
    <2>5. Closed(S, t)
      <3> SUFFICES ASSUME NEW c \in S, t[c] \in Clusters PROVE t[c] \in S
        BY DEF Closed
      <3>1. CASE c = k
        BY <2>3, <3>1
      <3>2. CASE c # k
        <4>1. u[c] = t[c]
          BY <2>1, <3>2
        <4> QED BY <2>2, <2>3, <2>4, <4>1 DEF Closed
      <3> QED BY <3>1, <3>2
    <2> QED BY <2>1, <2>2, <2>5, ChainLeast
  <1> QED BY <1>1, <1>2

LEMMA TableCut ==
  ASSUME Calm, NEW k \in Clusters, NEW v, v \notin Clusters, fat' = [fat EXCEPT ![k] = v],
         NEW tail, tail = fat[k]
  PROVE  /\ \A c \in Clusters : fat'[c] = IF c = k THEN v ELSE fat[c]
         /\ \A f : \A c \in ChainSet(f) : c \in ChainSet(f)' \/ c \in ChainSet(tail)'
         /\ tail \notin Clusters => \A f : \A c \in ChainSet(f) : c \in ChainSet(f)'
  <1>1. \A c \in Clusters : fat'[c] = IF c = k THEN v ELSE fat[c]
    BY CalmFacts DEF Disk
  <1>2. \A f : ChainOf(fat, f) \subseteq ChainOf(fat', f) \cup ChainOf(fat', tail)
    BY <1>1, CalmFacts, ChainCut
  <1>3. \A f : ChainSet(f) = ChainOf(fat, f) /\ ChainSet(f)' = ChainOf(fat', f)
    BY ChainIs, ChainNext
  <1>4. tail \notin Clusters => ChainOf(fat', tail) = {}
    BY ChainNone
  <1> QED BY <1>1, <1>2, <1>3, <1>4

LEMMA MarkSafe == ASSUME Calm, MarkCluster PROVE Safe
  <1>1. PICK k \in Clusters : /\ fat[k] = Free /\ fat' = [fat EXCEPT ![k] = EndOfChain]
                              /\ Proceed([op EXCEPT !.new = k, !.step = "zero"])
    BY DEF MarkCluster, Lowest, FreeClusters
  <1>2. /\ op.step = "mark" /\ UNCHANGED slots /\ op.cur = Free
        /\ op.kind \in {"create_file", "create_directory", "write", "rename"}
    BY CalmFacts, CalmStep DEF MarkCluster, StepOK, Call
  <1>3. PICK n \in Call : n = op' /\ n = [op EXCEPT !.new = k, !.step = "zero"]
    BY <1>1, CalmFacts, NoFault
  <1>4. /\ n.kind = op.kind /\ n.new = k /\ n.cur = op.cur /\ n.first = op.first /\ n.step = "zero"
    BY <1>3, CalmFacts DEF Call
  <1>5. /\ \A c \in Clusters : fat'[c] = IF c = k THEN EndOfChain ELSE fat[c]
        /\ \A f : \A c \in ChainSet(f) : c \in ChainSet(f)'
    BY <1>1, FreeOutside, TableCut
  <1>6. HeldRight(n)'
    BY <1>2, <1>4 DEF HeldRight
  <1>7. ASSUME NEW c, Owned(c)
        PROVE  Owned(c)'
    BY <1>5, <1>7, <1>2, OwnedKept
  <1>8. ASSUME NEW c \in Clusters, fat[c] = Free \/ InHand(c, op), fat'[c] # Free
        PROVE  Led(c, n)'
    <2>1. CASE c = k
      BY <1>4, <2>1 DEF Led, InHand
    <2>2. CASE c # k /\ c = op.new
      <3>1. c \in ChainSet(op.first) \/ Owned(c)
        BY <1>2, <2>2, NewOwned, FreeOutside
      <3> QED BY <1>4, <1>5, <1>7, <3>1 DEF Led, InHand
    <2>3. CASE c # k /\ c # op.new
      BY <1>4, <1>5, <1>8, <2>3 DEF Led, InHand
    <2> QED BY <2>1, <2>2, <2>3
  <1>9. LedOn(n)
    BY <1>7, <1>8 DEF LedOn, Led
  <1> QED BY <1>3, <1>6, <1>9, SafeAs

LEMMA LinkSafe == ASSUME Calm, LinkCluster PROVE Safe
  <1>1. PICK o \in Call : o = op
    BY CalmFacts
  <1>2. /\ o.step = "link" /\ UNCHANGED slots /\ fat' = [fat EXCEPT ![o.last] = o.new] /\ o.cur = Free
        /\ o.kind \in {"create_file", "create_directory", "write", "rename"}
        /\ Disk /\ TableSound /\ NoCycle /\ NoCycle'
    BY <1>1, CalmFacts, CalmStep DEF LinkCluster, StepOK, Call
  <1>3. o.new \in Clusters /\ fat[o.new] = EndOfChain /\ o.new # o.last
    BY <1>1, <1>2, PlacedFacts DEF Calm, Placed, AppendSound, CallOK
  <1>4. /\ fat[o.last] = EndOfChain /\ o.last \in Clusters
        /\ IF o.kind = "write" THEN o.last \in ChainSet(o.first) ELSE o.last \in ChainSet(o.dir)
    BY <1>1, <1>2, CalmFacts, PlacedFacts DEF LastRight, ChainSet
  <1>5. /\ \A f : ChainSet(f)' = ChainSet(f) \cup (IF o.last \in ChainSet(f) THEN {o.new} ELSE {})
        /\ \A c \in Clusters : fat'[c] = IF c = o.last THEN o.new ELSE fat[c]
    BY ONLY <1>2, <1>3, <1>4, LinkedChains
  <1>6. PICK n \in Call : n = op' /\ n = IF o.kind = "write"
             THEN GrowOrWrite([o EXCEPT !.last = o.new, !.need = o.need - 1])
             ELSE [o EXCEPT !.slot = [cluster |-> o.new, slot |-> 0], !.step = "entry"]
    BY <1>1, CalmFacts, NoFault DEF LinkCluster
  <1>7. /\ n.kind = o.kind /\ n.new = o.new /\ n.cur = o.cur /\ n.first = o.first /\ n.dir = o.dir
        /\ IF o.kind = "write" THEN n.step \in {"mark", "data", "update"} ELSE n.step = "entry"
    BY <1>6 DEF GrowOrWrite, DataOrUpdate, Call
  <1>8. HeldRight(n)'
    <2>1. IF n.kind = "write" THEN n.new \in ChainSet(n.first)' ELSE n.new \in ChainSet(n.dir)'
      BY <1>4, <1>5, <1>7
    <2> QED BY <1>2, <1>7, <2>1 DEF HeldRight
  <1>9. ASSUME NEW c, Owned(c)
        PROVE  Owned(c)'
    BY <1>1, <1>2, <1>5, <1>9, OwnedKept
  <1>10. ASSUME NEW c \in Clusters, InHand(c, o)
         PROVE  InHand(c, n)'
    BY <1>5, <1>7, <1>10 DEF InHand
  <1>11. \A c \in Clusters : fat[c] = Free => fat'[c] = Free
    BY <1>4, <1>5, FreeOutside
  <1>12. LedOn(n)
    BY <1>1, <1>7, <1>9, <1>10, <1>11 DEF LedOn, Led
  <1> QED BY <1>6, <1>8, <1>12, SafeAs

LEMMA UndoSafe == ASSUME Calm, UndoEntry PROVE Safe
  BY CalmStep DEF UndoEntry

LEMMA UnlinkSafe == ASSUME Calm, UnlinkEntry PROVE Safe
  <1>1. PICK o \in Call : o = op
    BY CalmFacts
  <1>2. /\ UNCHANGED fat /\ o.step = "unlink" /\ o.kind \in {"rename", "remove"} /\ op' = Idle
        /\ o.at \in Location /\ Disk /\ PutEntry(o.at, Mark("deleted"))
    BY <1>1, CalmFacts, NoFault DEF UnlinkEntry, StepOK, Call
  <1>3. /\ \A l \in Location : l # o.at => FirstOf(l)' = FirstOf(l)
        /\ \A l \in LiveEntries : l \in Location /\ (l = o.at \/ l \in LiveEntries')
    BY <1>2, SlotPut
  <1>4. CASE o.kind = "rename"
    <2>1. o.slot \in LiveEntries /\ o.slot # o.at /\ EntryAt(o.slot) = o.entry
      BY <1>1, <1>2, <1>4, CalmFacts, PlacedFacts DEF RenameRight
    <2>2. FirstOf(o.slot) = o.first
      BY <1>1, <1>4, <2>1, CalmFacts DEF CallSound, FirstOf
    <2>3. o.slot \in LiveEntries' /\ FirstOf(o.slot)' = o.first
      BY <1>3, <2>1, <2>2
    <2> QED BY <1>1, <1>2, <1>4, <2>3, Ends
  <1>5. CASE o.kind = "remove"
    <2>1. \A f : ChainSet(f)' = ChainSet(f)
      BY <1>2, ChainsKept
    <2>2. o.first = Free \/ (o.first \in Clusters /\ fat[o.first] = Free)
      BY <1>1, <1>2, <1>5, CalmFacts DEF HeldRight, Call
    <2>3. \A c \in ChainSet(o.first) : fat[c] = Free
      BY <2>2, Alone, CalmFacts
    <2>4. \A c \in ChainSet(o.cur) : fat[c] = Free
      <3>1. o.cur = Free \/ (o.cur \in Clusters /\ fat[o.cur] = Free)
        BY <1>1, <1>2, CalmFacts DEF HeldRight, Call
      <3> QED BY <3>1, Alone, CalmFacts
    <2>5. o.new \in Clusters => o.new \in ChainSet(o.first)
      BY <1>1, <1>2, <1>5, CalmFacts DEF HeldRight
    <2>6. ASSUME NEW c \in Clusters, fat[c] # Free, Owned(c)
          PROVE  Owned(c)'
      <3>1. CASE c \in ChainSet(Root)
        BY <2>1, <3>1 DEF Owned
      <3>2. CASE c \notin ChainSet(Root)
        <4>1. PICK l \in LiveEntries : c \in ChainSet(FirstOf(l))
          BY <2>6, <3>2 DEF Owned
        <4>2. l # o.at
          BY <1>1, <1>5, <2>3, <2>6, <4>1, CalmFacts DEF CallSound
        <4>3. l \in LiveEntries' /\ FirstOf(l)' = FirstOf(l)
          BY <1>3, <4>1, <4>2
        <4>4. c \in ChainSet(FirstOf(l))'
          BY <1>2, <4>1, <4>3, ChainsKept
        <4> QED BY <4>3, <4>4 DEF Owned
      <3> QED BY <3>1, <3>2
    <2>7. \A c \in Clusters : fat'[c] # Free /\ Led(c, op) => Owned(c)'
      BY <1>1, <1>2, <2>3, <2>4, <2>5, <2>6 DEF Led, InHand
    <2>8. PICK n : n = Idle
      OBVIOUS
    <2>9. LedOn(n)
      BY <1>2, <2>7 DEF LedOn, Led
    <2>10. HeldRight(n)'
      BY <1>2, <2>8, IdleHeld, FatSame
    <2> QED BY <1>2, <2>8, <2>9, <2>10, SafeAs
  <1> QED BY <1>2, <1>4, <1>5

(* A chain that is cut or freed goes on in the cluster to be freed next.   *)
LEMMA CutSafe == ASSUME Calm, CutChain PROVE Safe
  <1>1. PICK o \in Call : o = op
    BY CalmFacts
  <1>2. o.step = "cut" /\ o.kind = "write" /\ o.cur = Free /\ o.new = Free /\ UNCHANGED slots
    BY <1>1, CalmFacts, CalmStep DEF CutChain, Fail, StepOK, Call, HeldRight
  <1>3. CASE Fail
    BY <1>1, <1>2, <1>3, RecoverSafe DEF Fail
  <1>4. CASE ~Fail
    <2>1. PICK k \in Clusters :
            /\ k = ClusterAt(o.first, o.need - 1)
            /\ fat' = [fat EXCEPT ![k] = EndOfChain]
            /\ \/ fat[k] \in Clusters /\ Proceed([op EXCEPT !.cur = fat[k], !.step = "free"])
               \/ fat[k] = EndOfChain /\ Proceed(DataOrUpdate(op))
               \/ fat[k] = Free
      BY <1>1, <1>4 DEF CutChain
    <2>2. k \in ChainSet(o.first)
      BY <2>1, FreeOutside DEF ClusterAt, ChainSet
    <2>3. fat[k] # Free
      <3>1. o.first \in Clusters
        BY <2>2, CalmFacts
      <3>2. fat[o.first] # Free
        BY <1>1, <1>2, <3>1, CalmFacts, PlacedFacts DEF CallSound, Holds, Loose, EntrySound
      <3> QED BY <2>2, <3>2, CalmFacts, ChainAllocated, ChainIs
    <2>4. PICK tail : tail = fat[k]
      OBVIOUS
    <2>5. /\ \A c \in Clusters : fat'[c] = IF c = k THEN EndOfChain ELSE fat[c]
          /\ \A f : \A c \in ChainSet(f) : c \in ChainSet(f)' \/ c \in ChainSet(tail)'
          /\ tail \notin Clusters => \A f : \A c \in ChainSet(f) : c \in ChainSet(f)'
      <3>1. Calm /\ tail = fat[k] /\ EndOfChain \notin Clusters
        BY <2>4, FreeOutside
      <3> QED BY ONLY <2>1, <3>1, TableCut
    <2>6. PICK n \in Call : /\ n = op'
                            /\ \/ tail \in Clusters /\ n = [o EXCEPT !.cur = tail, !.step = "free"]
                               \/ tail \notin Clusters /\ n = DataOrUpdate(o)
      <3>1. \A next : Proceed(next) => op' = next
        BY NoFault
      <3>2. \/ tail \in Clusters /\ op' = [o EXCEPT !.cur = tail, !.step = "free"]
            \/ tail \notin Clusters /\ op' = DataOrUpdate(o)
        BY ONLY <1>1, <2>1, <2>3, <2>4, <3>1, FreeOutside
      <3> QED BY <3>2, CalmFacts
    <2>7. /\ n.kind = "write" /\ n.new = Free /\ n.first = o.first
          /\ n.step \in {"free", "data", "update"}
          /\ IF tail \in Clusters THEN n.cur = tail /\ n.step = "free" ELSE n.cur = Free
      BY <1>2, <2>6 DEF DataOrUpdate, Call
    <2>8. HeldRight(n)'
      BY <2>7 DEF HeldRight
    <2>9. ASSUME NEW c, Owned(c)
          PROVE  Owned(c)' \/ (tail \in Clusters /\ c \in ChainSet(tail)')
      <3>1. CASE tail \in Clusters
        BY <1>2, <2>5, <2>9, <3>1, OwnedSame
      <3>2. CASE tail \notin Clusters
        BY <1>1, <1>2, <2>5, <2>9, <3>2, OwnedKept
      <3> QED BY <3>1, <3>2
    <2>10. ASSUME NEW c \in Clusters, InHand(c, o)
           PROVE  InHand(c, n)'
      <3>1. c \in ChainSet(o.first)
        BY <1>2, <2>10, CalmFacts DEF InHand
      <3> QED BY <2>5, <2>7, <3>1 DEF InHand
    <2>11. \A c \in Clusters : fat[c] = Free => fat'[c] = Free
      BY <2>3, <2>5
    <2>12. LedOn(n)
      BY <1>1, <2>7, <2>9, <2>10, <2>11 DEF LedOn, Led, InHand
    <2> QED BY <2>6, <2>8, <2>12, SafeAs
  <1> QED BY <1>3, <1>4

LEMMA FreeSafe == ASSUME Calm, FreeCluster PROVE Safe
  <1>1. PICK o \in Call : o = op
    BY CalmFacts
  <1>2. /\ o.step = "free" /\ o.kind \in {"create_directory", "write", "remove"} /\ UNCHANGED slots
        /\ fat' = [fat EXCEPT ![o.cur] = Free]
        /\ o.kind = "create_directory" => o.cur = o.first /\ fat[o.first] = EndOfChain
        /\ o.kind # "create_directory" => o.new = Free
        /\ o.new # Free => o.new \in ChainSet(o.first)
    BY <1>1, CalmFacts DEF FreeCluster, StepOK, Call, HeldRight
  <1>3. PICK k \in Clusters : k = o.cur /\ fat[k] # Free
    BY <1>1, <1>2, CalmFacts DEF CallSound
  <1>4. PICK next : next = fat[k]
    OBVIOUS
  <1>5. /\ \A c \in Clusters : fat'[c] = IF c = k THEN Free ELSE fat[c]
        /\ \A f : \A c \in ChainSet(f) : c \in ChainSet(f)' \/ c \in ChainSet(next)'
        /\ next \notin Clusters => \A f : \A c \in ChainSet(f) : c \in ChainSet(f)'
    <2>1. Calm /\ fat' = [fat EXCEPT ![k] = Free] /\ next = fat[k] /\ Free \notin Clusters
      BY <1>2, <1>3, <1>4, FreeOutside
    <2> QED BY ONLY <2>1, TableCut
  <1>6. ASSUME NEW c, Owned(c)
        PROVE  Owned(c)' \/ (next \in Clusters /\ c \in ChainSet(next)')
    <2>1. Owned(c)' \/ c \in ChainSet(next)'
      BY <1>2, <1>5, <1>6, OwnedSame
    <2>2. next \notin Clusters => ChainSet(next)' = {}
      BY ChainNone, ChainNext
    <2> QED BY <2>1, <2>2
  <1>7. \A c \in Clusters : fat[c] = Free => fat'[c] = Free
    BY <1>5
  <1>8. \/ next \in Clusters /\ op' = [o EXCEPT !.cur = next]
        \/ next = EndOfChain /\ o.kind = "remove" /\ op' = [o EXCEPT !.step = "unlink"]
        \/ next = EndOfChain /\ o.kind = "write" /\ op' = DataOrUpdate(o)
        \/ next = EndOfChain /\ o.kind = "create_directory" /\ op' = Idle
    <2>1. \A n : Proceed(n) => op' = n
      BY NoFault
    <2>2. ~WriteFails(TRUE)
      BY NoFault
    <2> QED BY ONLY <1>1, <1>3, <1>4, <2>1, <2>2, FreeCluster DEF FreeCluster, Finish
  <1>9. CASE op' = Idle
    <2>1. o.kind = "create_directory"
      <3>1. op'.kind \notin Operations
        BY <1>9 DEF Idle
      <3>2. o.kind = "write" => DataOrUpdate(o).kind = "write"
        BY DEF DataOrUpdate, Call
      <3>3. [o EXCEPT !.cur = next].kind = o.kind /\ [o EXCEPT !.step = "unlink"].kind = o.kind
        BY DEF Call
      <3> QED BY <1>2, <1>8, <3>1, <3>2, <3>3
    <2>2. next = EndOfChain /\ o.first = k
      BY <1>2, <1>3, <1>4, <2>1
    <2>3. ChainSet(k) \subseteq {k}
      <3>1. fat[k] \notin Clusters
        BY <1>4, <2>2, FreeOutside
      <3> QED BY ONLY <3>1, Alone, k \in Clusters
    <2>4. \A c \in Clusters : fat'[c] # Free => ~InHand(c, o)
      BY <1>2, <1>3, <1>5, <2>2, <2>3, CalmFacts DEF InHand
    <2>5. PICK n : n = Idle
      OBVIOUS
    <2>6. LedOn(n)
      BY <1>1, <1>6, <1>7, <2>2, <2>4, FreeOutside DEF LedOn, Led
    <2>7. HeldRight(n)'
      BY <2>5, IdleHeld DEF HeldRight
    <2> QED BY <1>9, <2>5, <2>6, <2>7, SafeAs
  <1>10. CASE op' # Idle
    <2>1. PICK n \in Call :
            /\ n = op'
            /\ \/ next \in Clusters /\ n = [o EXCEPT !.cur = next]
               \/ /\ next \notin Clusters
                  /\ \/ o.kind = "remove" /\ n = [o EXCEPT !.step = "unlink"]
                     \/ o.kind = "write" /\ n = DataOrUpdate(o)
      <3>1. op' \in Call
        BY CalmFacts
      <3> QED BY ONLY <1>10, <1>8, <3>1, FreeOutside
    <2>2. /\ n.kind = o.kind /\ n.new = o.new /\ n.first = o.first /\ o.kind # "create_directory"
          /\ IF next \in Clusters THEN n.cur = next /\ n.step = "free"
             ELSE n.cur = k /\ n.step \in {"data", "update", "unlink"}
      BY <1>2, <1>3, <1>4, <2>1, FreeOutside DEF DataOrUpdate, Call
    <2>3. n.kind = "remove" => n.first = Free \/ fat'[n.first] = Free
      <3>1. n.kind = "remove" => o.cur = o.first \/ o.first = Free \/ fat[o.first] = Free
        BY <1>1, <2>2, CalmFacts DEF HeldRight
      <3> QED BY <1>3, <1>5, <2>2, <3>1 DEF Call
    <2>4. HeldRight(n)'
      <3>1. n.new = Free /\ fat'[k] = Free
        BY <1>2, <1>5, <2>2
      <3> QED BY <1>2, <2>2, <2>3, <3>1 DEF HeldRight
    <2>5. ASSUME NEW c \in Clusters, InHand(c, o), fat'[c] # Free
          PROVE  InHand(c, n)'
      <3>1. c \in ChainSet(o.first) \/ c \in ChainSet(k)
        BY <1>2, <1>3, <2>2, <2>5, CalmFacts DEF InHand
      <3>2. CASE next \in Clusters
        <4>1. \A f : c \in ChainSet(f) => c \in ChainSet(f)' \/ c \in ChainSet(next)'
          BY <1>5
        <4>2. n.first = o.first /\ n.cur = next
          BY <2>2, <3>2
        <4>3. c \notin ChainSet(k)'
          <5>1. Closed({k}, fat')
            BY <1>5, FreeOutside DEF Closed
          <5>2. ChainOf(fat', k) \subseteq {k}
            BY ONLY <5>1, k \in Clusters, ChainLeast
          <5> QED BY <1>5, <2>5, <5>2, ChainNext
        <4>4. c \in ChainSet(o.first)' \/ c \in ChainSet(next)'
          BY ONLY <3>1, <4>1, <4>3
        <4> QED BY ONLY <4>2, <4>4 DEF InHand
      <3>3. CASE next \notin Clusters
        <4>1. \A f : c \in ChainSet(f) => c \in ChainSet(f)'
          BY <1>5, <3>3
        <4>2. n.first = o.first /\ n.cur = k
          BY <2>2, <3>3
        <4> QED BY ONLY <3>1, <4>1, <4>2 DEF InHand
      <3> QED BY <3>2, <3>3
    <2>6. n.step # "idle"
      BY <2>2
    <2>7. LedOn(n)
      BY <1>1, <1>6, <1>7, <2>2, <2>5, <2>6 DEF LedOn, Led, InHand
    <2> QED BY <2>1, <2>4, <2>7, SafeAs
  <1> QED BY <1>9, <1>10

-----------------------------------------------------------------------------
(* A call begins with no cluster in hand but those of the chain it is for. *)
Fresh(n) == /\ n.new = Free /\ n.step # "undo"
            /\ n.step = "free" => n.kind # "create_directory"
            /\ n.cur = Free \/ n.step = "free"
            /\ n.kind = "remove" => n.first = Free \/ (n.step = "free" /\ n.cur = n.first)

LEMMA BeginSafe ==
  ASSUME Calm, op.step = "idle", UNCHANGED <<fat, slots>>, NEW n, op' = n, Fresh(n)
  PROVE  Safe
  <1>1. HeldRight(n)
    BY DEF Fresh, HeldRight
  <1>2. op.kind # "remove"
    BY CalmFacts DEF StepOK
  <1>3. \A f : ChainSet(f)' = ChainSet(f)
    BY ChainsKept
  <1>4. ASSUME NEW c \in Clusters, Owned(c)
        PROVE  Owned(c)'
    BY <1>2, <1>3, <1>4, OwnedKept
  <1>5. LedOn(n)
    BY <1>4 DEF LedOn, Led
  <1> QED BY <1>1, <1>5, FatSame, SafeAs

LEMMA FreshIdle == Fresh(Idle)
  BY DEF Fresh, Idle

LEMMA FreshWrite ==
  ASSUME NEW call \in Call, call.kind = "write", call.new = Free, call.cur = Free
  PROVE  Fresh(Resize(call))
  <1> DEFINE required == RequiredClusters(call.entry.size)
             have     == fat32_chain_length(call.first)
             last     == IF call.first = Free THEN Free
                         ELSE CHOOSE l \in LastCluster(call.first) : TRUE
             need     == required - have
  <1>1. \/ Resize(call) = DataOrUpdate(call)
        \/ Resize(call) = [call EXCEPT !.first = Free, !.cur = call.first, !.step = "free"]
        \/ Resize(call) = [call EXCEPT !.need = required, !.step = "cut"]
        \/ Resize(call) = GrowOrWrite([call EXCEPT !.need = need, !.last = last])
    BY DEF Resize
  <1> HIDE DEF required, need, last
  <1>2. ASSUME NEW n, \/ n = DataOrUpdate(call)
                      \/ n = [call EXCEPT !.first = Free, !.cur = call.first, !.step = "free"]
                      \/ n = [call EXCEPT !.need = required, !.step = "cut"]
                      \/ n = GrowOrWrite([call EXCEPT !.need = need, !.last = last])
        PROVE  /\ n.kind = "write" /\ n.new = Free /\ n.step # "undo"
               /\ n.cur = Free \/ n.step = "free"
    <2>1. CASE n = DataOrUpdate(call)
      BY <2>1 DEF DataOrUpdate, Call
    <2>2. CASE n = [call EXCEPT !.first = Free, !.cur = call.first, !.step = "free"]
      BY <2>2 DEF Call
    <2>3. CASE n = [call EXCEPT !.need = required, !.step = "cut"]
      BY <2>3 DEF Call
    <2>4. CASE n = GrowOrWrite([call EXCEPT !.need = need, !.last = last])
      BY <2>4 DEF GrowOrWrite, DataOrUpdate, Call
    <2> QED BY <1>2, <2>1, <2>2, <2>3, <2>4
  <1>3. ASSUME NEW n, n.kind = "write", n.new = Free, n.step # "undo", n.cur = Free \/ n.step = "free"
        PROVE  Fresh(n)
    BY <1>3 DEF Fresh
  <1> QED BY <1>1, <1>2, <1>3

LEMMA FreshWriteCall ==
  ASSUME NEW loc, NEW e, NEW offset, NEW length
  PROVE  WriteCall(loc, e, offset, length).new = Free /\ WriteCall(loc, e, offset, length).cur = Free
  <1> DEFINE some == [Idle EXCEPT !.kind = "write", !.at = loc, !.first = e.first,
                        !.entry = [e EXCEPT !.size = NewSize(e, offset, length)]]
  <1>1. some.new = Free /\ some.cur = Free /\ some = [f \in DOMAIN some |-> some[f]]
        /\ DOMAIN some = DOMAIN Idle
    BY DEF Idle
  <1>2. \/ WriteCall(loc, e, offset, length) = [some EXCEPT !.lim = 1]
        \/ WriteCall(loc, e, offset, length) = [some EXCEPT !.lim = 0]
        \/ WriteCall(loc, e, offset, length) =
             [some EXCEPT !.pos = FirstWritten(e, offset), !.lim = AfterLastWritten(e, offset, length)]
    BY DEF WriteCall
  <1>3. DOMAIN some = DOMAIN Idle /\ "new" \in DOMAIN Idle /\ "cur" \in DOMAIN Idle
    BY <1>1 DEF Idle
  <1> HIDE DEF some
  <1> QED BY <1>1, <1>2, <1>3

LEMMA RequestSafe == ASSUME Calm, Request PROVE Safe
  <1>1. PICK path \in Paths :
          \/ fat32_create_file(path)
          \/ fat32_create_directory(path)
          \/ \E offset \in Offsets, length \in Lengths : fat32_write(path, offset, length)
          \/ \E new_path \in Paths : fat32_rename(path, new_path)
          \/ fat32_remove(path)
    BY DEF Request
  <1>2. op.step = "idle" /\ UNCHANGED <<fat, slots>>
    BY <1>1 DEF fat32_create_file, fat32_create_directory, fat32_write, fat32_rename, fat32_remove, Ready
  <1>3. Idle \in Call /\ Idle.new = Free /\ Idle.cur = Free
    BY IdleType DEF Idle
  <1>4. CASE op' = Idle
    BY <1>2, <1>4, FreshIdle, BeginSafe
  <1>5. ASSUME fat32_create_file(path) \/ fat32_create_directory(path) \/ fat32_remove(path),
               op' # Idle
        PROVE  Safe
    <2>1. PICK n : n = op'
      OBVIOUS
    <2>2. \/ /\ n.new = Free /\ n.cur = Free /\ n.step \in {"slot", "mark"}
             /\ n.kind \in {"create_file", "create_directory"}
          \/ /\ n.new = Free /\ n.cur = n.first /\ n.kind = "remove"
             /\ IF n.first = Free THEN n.step = "unlink" ELSE n.step = "free"
      <3>1. CASE fat32_create_file(path)
        <4>1. PICK dir, entry :
                n = [Idle EXCEPT !.kind = "create_file", !.step = "slot", !.dir = dir, !.entry = entry]
          BY <1>5, <2>1, <3>1 DEF fat32_create_file, Refuse, Finish, Begin
        <4> QED BY <1>3, <4>1 DEF Call
      <3>2. CASE fat32_create_directory(path)
        <4>1. PICK dir, entry :
                n = [Idle EXCEPT !.kind = "create_directory", !.step = "mark", !.dir = dir, !.entry = entry]
          BY <1>5, <2>1, <3>2 DEF fat32_create_directory, Refuse, Finish, Begin
        <4> QED BY <1>3, <4>1 DEF Call
      <3>3. CASE fat32_remove(path)
        <4>1. PICK loc \in Lookup(path) :
                n = [Idle EXCEPT !.kind = "remove", !.at = loc,
                       !.first = EntryAt(loc).first, !.cur = EntryAt(loc).first,
                       !.step = IF EntryAt(loc).first = Free THEN "unlink" ELSE "free"]
          BY <1>5, <2>1, <3>3 DEF fat32_remove, Refuse, Finish, Begin
        <4> QED BY <1>3, <4>1 DEF Call
      <3> QED BY <1>5, <3>1, <3>2, <3>3
    <2>3. Fresh(n)
      BY <2>2 DEF Fresh
    <2> QED BY <1>2, <2>1, <2>3, BeginSafe
  <1>6. ASSUME NEW new_path \in Paths, fat32_rename(path, new_path), op' # Idle
        PROVE  Safe
    <2>1. PICK n : n = op'
      OBVIOUS
    <2>2. PICK loc \in Lookup(path) : n = RenameCall(loc, ParentOf(path), ParentOf(new_path), NameOf(new_path))
      BY <1>6, <2>1 DEF fat32_rename, Refuse, Finish, Begin
    <2>3. n.new = Free /\ n.cur = Free /\ n.kind = "rename" /\ n.step \in {"entry", "slot"}
      BY <1>3, <2>2 DEF RenameCall, Call
    <2>4. Fresh(n)
      BY <2>3 DEF Fresh
    <2> QED BY <1>2, <2>1, <2>4, BeginSafe
  <1>7. ASSUME NEW offset \in Offsets, NEW length \in Lengths,
               fat32_write(path, offset, length), op' # Idle
        PROVE  Safe
    <2>1. PICK loc \in Lookup(path) : /\ offset + length < Word
                                      /\ op' = Resize(WriteCall(loc, EntryAt(loc), offset, length))
      BY <1>7 DEF fat32_write, Refuse, Finish, Begin
    <2>2. loc \in Location /\ EntryAt(loc) \in Entry /\ TypeInv
      BY CalmFacts, LookupPlaced, FirstType
    <2>3. WriteCall(loc, EntryAt(loc), offset, length) \in Call
          /\ WriteCall(loc, EntryAt(loc), offset, length).kind = "write"
      <3>1. /\ TypeInv /\ loc \in Location /\ EntryAt(loc) \in Entry
            /\ offset \in Offsets /\ length \in Lengths /\ offset + length < Word
        BY <2>1, <2>2
      <3> QED BY ONLY <3>1, WriteCallType, WriteCallKind
    <2>4. Fresh(Resize(WriteCall(loc, EntryAt(loc), offset, length)))
      BY <2>3, FreshWrite, FreshWriteCall
    <2> QED BY <1>2, <2>1, <2>4, BeginSafe
  <1> QED BY <1>1, <1>4, <1>5, <1>6, <1>7

LEMMA NextSafe == ASSUME Calm PROVE Safe
  <1>1. CASE UNCHANGED vars
    <2>1. PICK n : n = op /\ n = op' /\ UNCHANGED <<fat, slots>>
      BY <1>1 DEF vars
    <2>2. \A f : ChainSet(f)' = ChainSet(f)
      BY <2>1, ChainsKept
    <2>3. ASSUME NEW c \in Clusters, Owned(c)
          PROVE  Owned(c)'
      <3>1. Owned(c)' \/ c \in ChainSet(Root)'
        BY <2>1, <2>2, <2>3, OwnedSame
      <3> QED BY <3>1 DEF Owned
    <2>4. LedOn(n)
      BY <2>1, <2>2, <2>3 DEF LedOn, Led, InHand
    <2> QED BY <2>1, <2>4, FatSame, CalmFacts, SafeAs
  <1>2. CASE Next
    BY <1>2, NoFault, RequestSafe, FindSlotSafe, DiskFullSafe, MarkSafe, ZeroSafe, LinkSafe, DotsSafe,
       EntrySafe, UnlinkSafe, UndoSafe, CutSafe, FreeSafe, DataSafe, UpdateSafe DEF Next, Step
  <1> QED BY <1>1, <1>2 DEF Calm

(* The step that a run without faults takes from a state of a run without  *)
(* faults.                                                                 *)
LEMMA CalmStays ==
  ASSUME TypeOK, TypeOK', Arranged, Arranged', Kept, [Next]_vars, faults' = 0, ~damaged'
  PROVE  Calm
  <1>1. Placed
    BY ArrangedPlaced
  <1>2. faults = 0
    <2>1. faults \in Nat
      BY DEF TypeOK
    <2>2. faults' = faults \/ faults' = faults + 1
      BY DEF Next, Step, Request, fat32_create_file, fat32_create_directory, fat32_write, fat32_rename,
         fat32_remove, FindSlot, DiskFull, MarkCluster, ZeroCluster, LinkCluster, WriteDots, WriteEntry,
         UnlinkEntry, UndoEntry, CutChain, FreeCluster, WriteData, UpdateEntry, WriteLost, PowerLoss,
         Fail, Proceed, Complete, WriteFails, Strike, Sees, Begin, Refuse, Finish, vars
    <2> QED BY <2>1, <2>2
  <1>3. ~damaged
    BY <1>1 DEF Placed, Before
  <1> QED BY <1>1, <1>2, <1>3 DEF Calm, Kept

LEMMA KeptStep ==
  TypeOK /\ TypeOK' /\ Arranged /\ Arranged' /\ Kept /\ [Next]_vars => Kept'
  <1> SUFFICES ASSUME TypeOK, TypeOK', Arranged, Arranged', Kept, [Next]_vars, faults' = 0, ~damaged'
               PROVE  HeldRight(op)'
    BY DEF Kept
  <1> QED BY CalmStays, NextSafe DEF Safe

LEMMA InitKept == ASSUME Init PROVE Kept
  BY IdleHeld DEF Init, Kept

LEMMA OrphansAre ==
  /\ \A c \in Clusters : c \in Orphans <=> fat[c] # Free /\ ~Led(c, op)
  /\ \A c \in Clusters : c \in Orphans' <=> fat'[c] # Free /\ ~Led(c, op)'
  <1>1. \A c \in Clusters : c \in Orphans <=> fat[c] # Free /\ ~Led(c, op)
    BY DEF Orphans, Led, InHand, Owned, Held
  <1>2. \A c \in Clusters : c \in Held' <=> (op.step # "idle" /\ InHand(c, op))'
    BY DEF Held, InHand
  <1>3. \A c \in Clusters : Led(c, op)' <=> Owned(c)' \/ c \in Held'
    BY <1>2 DEF Led
  <1>4. \A c \in Clusters :
          c \in Orphans' <=> /\ fat'[c] # Free /\ c \notin Held' /\ c \notin ChainSet(Root)'
                            /\ \A l \in LiveEntries' : c \notin ChainSet(FirstOf(l))'
    BY DEF Orphans
  <1>5. \A c \in Clusters :
          Owned(c)' <=> c \in ChainSet(Root)' \/ \E l \in LiveEntries' : c \in ChainSet(FirstOf(l))'
    BY DEF Owned
  <1> QED BY <1>1, <1>3, <1>4, <1>5

LEMMA OrphansLed ==
  ASSUME LedKept
  PROVE  Orphans' \subseteq Orphans
  <1>1. Orphans' \subseteq Clusters
    BY DEF Orphans
  <1> QED BY <1>1, OrphansAre DEF LedKept
=============================================================================
