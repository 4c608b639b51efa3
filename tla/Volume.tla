------------------------------- MODULE Volume -------------------------------
(***************************************************************************)
(* Below the operations of module Fat32: fat32_write_fat_entry             *)
(* (kernel/fs/fat32/write.cpp), which reads, changes and writes a sector   *)
(* of each copy of the allocation table in turn, and the two functions     *)
(* that move a sector through the ports of the disk (fat32.cpp).           *)
(*                                                                         *)
(* The drive works by itself: it takes its time, it may fail, and it may   *)
(* answer after the driver has given up waiting for it (a wait is a        *)
(* million looks at the status).                                           *)
(***************************************************************************)
EXTENDS Fat32Mount

CONSTANTS Mbrs, Boots,    \* the partition tables and boot sectors considered
          LbaLimit,       \* 2^28: the sector numbers the ports can take
          Values,         \* what table entries can be
          NoCall,
          MaxCalls        \* bound on the number of calls

ASSUME DriveAssumption ==
  /\ Mbrs \subseteq Seq([fat32 : BOOLEAN, lba : Nat])
  /\ Boots \subseteq [fat32 : BOOLEAN, sectors_per_cluster : Nat, reserved : Nat, fat_count : Nat,
                     sectors_per_fat : Nat, total : Nat, root_cluster : Nat]
  /\ LbaLimit \in 1 .. Word
  /\ 0 \in Values /\ NoCall \notin [cluster : Nat, value : Values]
  /\ MaxCalls \in Nat

Disk == 0 .. LbaLimit - 1
Sector == [0 .. PerSector - 1 -> Values]
Zeros == [i \in 0 .. PerSector - 1 |-> 0]

VARIABLES volume,     \* where the volume is and its boot sector
          filesystem, \* what mounting made of it
          call,       \* the arguments of fat32_write_fat_entry
          fat_index,  \* the copy it is at
          sector,     \* its buffer
          at,         \* where it is in the functions below it
          ret, calls,
          disk,       \* the sectors
          drive,      \* what the drive is doing
          error,      \* the error bits of its status
          late        \* a transfer was given up while the drive was still at it

vars == <<volume, filesystem, call, fat_index, sector, at, ret, calls, disk, drive, error, late>>

NoCommand == [status |-> "idle", command |-> "none", lba |-> 0, data |-> Zeros]
-----------------------------------------------------------------------------
(* The drive.  Its status is "idle", "busy", or "request" (BSY clear and   *)
(* DRQ set).                                                               *)

(* It does what it was told, or reports an error.                          *)
DriveWorks ==
  /\ drive.status = "busy"
  /\ \/ /\ drive.command \in {"read", "write"}
        /\ drive' = [drive EXCEPT !.status = "request",
                       !.data = IF drive.command = "read" THEN disk[drive.lba] ELSE @]
        /\ UNCHANGED <<disk, error>>
     \/ /\ drive.command = "store"
        /\ disk' = [disk EXCEPT ![drive.lba] = drive.data]
        /\ drive' = NoCommand
        /\ error' \in {error, TRUE}
     \/ drive.command = "flush" /\ drive' = NoCommand /\ UNCHANGED <<disk, error>>
     \/ drive' = NoCommand /\ error' = TRUE /\ UNCHANGED disk
  /\ UNCHANGED <<volume, filesystem, call, fat_index, sector, at, ret, calls, late>>

(* A command for a drive that is not idle: what becomes of it is not       *)
(* defined; a busy one ignores it.                                         *)
Commanded(command, lba) ==
  \/ drive.status # "busy" /\ drive' = [NoCommand EXCEPT !.status = "busy", !.command = command, !.lba = lba]
  \/ drive.status # "idle" /\ UNCHANGED drive
-----------------------------------------------------------------------------
(* Mutant: only the error bits are looked at, not whether it is busy.      *)
NoErrorSeen == ~error

(* ata_wait_ready, ata_wait_data: how a wait ends.                         *)
WaitedReady == ~error /\ drive.status # "busy"
WaitedData  == ~error /\ drive.status = "request"

(* The sector of this turn of the loop.                                    *)
Here == FatLba(filesystem, fat_index, call.cluster)
Addressable == Here < LbaLimit

Return(result) == call' = NoCall /\ ret' = result /\ at' = "idle" /\ fat_index' = 0 /\ sector' = Zeros

(* A wait ends without success: an error, or too many looks at the status, *)
(* after which a transfer may still be under way.                          *)
GivesUp ==
  /\ \/ at \in {"readReady", "writeReady"} /\ (error \/ drive.status = "busy" \/ ~Addressable)
     \/ at \in {"readData", "writeData"} /\ (error \/ drive.status # "request")
     \/ at = "flushed" /\ (error \/ drive.status = "busy")
  /\ late' = (late \/ (at \in {"readData", "writeData"} /\ ~error)
                   \/ (at = "flushed" /\ drive.command = "store"))
  /\ Return(FALSE)
  /\ UNCHANGED <<volume, filesystem, calls, disk, drive, error>>

InTable(cluster) == FatSector(cluster) < filesystem.sectors_per_fat

(* fat32_write_fat_entry, before its loop.                                 *)
fat32_write_fat_entry(cluster, value) ==
  /\ at = "idle"
  /\ calls < MaxCalls /\ calls' = calls + 1
  /\ IF InTable(cluster)
     THEN /\ call' = [cluster |-> cluster, value |-> value] /\ at' = "readReady"
          /\ UNCHANGED <<fat_index, sector, ret>>
     ELSE ret' = FALSE /\ UNCHANGED <<call, at, fat_index, sector>>
  /\ UNCHANGED <<volume, filesystem, disk, drive, error, late>>

(* ata_read_sector                                                         *)
SendRead == /\ at = "readReady" /\ WaitedReady /\ Addressable
            /\ Commanded("read", Here)
            /\ at' = "readData"
            /\ UNCHANGED <<volume, filesystem, call, fat_index, sector, ret, calls, disk, error, late>>

(* Mutant: the first copy's sector, once changed, is written to each copy. *)
FirstSectorChanged == [IF fat_index = 0 THEN drive.data ELSE sector
                         EXCEPT ![call.cluster % PerSector] = call.value]

(* The entry in the sector that was read.                                  *)
Changed == [drive.data EXCEPT ![call.cluster % PerSector] = call.value]

TakeData == /\ at = "readData" /\ WaitedData
            /\ sector' = Changed
            /\ drive' = NoCommand
            /\ at' = "writeReady"
            /\ UNCHANGED <<volume, filesystem, call, fat_index, ret, calls, disk, error, late>>

(* ata_write_sector: the command, the data, and the command that flushes,  *)
(* which is sent without a look at the status.                             *)
SendWrite == /\ at = "writeReady" /\ WaitedReady /\ Addressable
             /\ Commanded("write", Here)
             /\ at' = "writeData"
             /\ UNCHANGED <<volume, filesystem, call, fat_index, sector, ret, calls, disk, error, late>>

GiveData == /\ at = "writeData" /\ WaitedData
            /\ drive' = [drive EXCEPT !.status = "busy", !.command = "store", !.data = sector]
            /\ at' = "flush"
            /\ UNCHANGED <<volume, filesystem, call, fat_index, sector, ret, calls, disk, error, late>>

SendFlush == /\ at = "flush"
             /\ Commanded("flush", 0)
             /\ at' = "flushed"
             /\ UNCHANGED <<volume, filesystem, call, fat_index, sector, ret, calls, disk, error, late>>

Written == /\ at = "flushed" /\ WaitedReady
           /\ IF fat_index + 1 < filesystem.fat_count
              THEN fat_index' = fat_index + 1 /\ at' = "readReady" /\ UNCHANGED <<call, ret, sector>>
              ELSE Return(TRUE)
           /\ UNCHANGED <<volume, filesystem, calls, disk, drive, error, late>>
-----------------------------------------------------------------------------
(* kernel_main mounts the volume, or halts, before anything else.          *)
Init == /\ \E mbr \in Mbrs, boot \in Boots :
             /\ filesystem = fat32_mount_primary_ata(mbr, boot)
             /\ volume = boot
        /\ call = NoCall /\ fat_index = 0 /\ sector = Zeros
        /\ at = IF filesystem.mounted THEN "idle" ELSE "halted"
        /\ ret = FALSE /\ calls = 0
        /\ disk = [lba \in Disk |-> Zeros]
        /\ drive = NoCommand /\ error = FALSE /\ late = FALSE

Driver == GivesUp \/ SendRead \/ TakeData \/ SendWrite \/ GiveData \/ SendFlush \/ Written
Request == filesystem.mounted /\ \E cluster \in ClustersOf(filesystem), value \in Values :
                                   fat32_write_fat_entry(cluster, value)
Next == Request \/ Driver \/ DriveWorks

Spec == Init /\ [][Next]_vars
-----------------------------------------------------------------------------
VolumeTypeOK ==
  /\ at \in {"halted", "idle", "readReady", "readData", "writeReady", "writeData", "flush", "flushed"}
  /\ at \in {"halted", "idle"} <=> call = NoCall
  /\ fat_index \in Nat /\ sector \in Sector /\ ret \in BOOLEAN /\ calls \in 0 .. MaxCalls
  /\ disk \in [Disk -> Sector] /\ error \in BOOLEAN /\ late \in BOOLEAN
  /\ drive \in [status : {"idle", "busy", "request"}, lba : Disk, data : Sector,
                command : {"none", "read", "write", "store", "flush"}]

(* Wherever mounting puts them, for every boot sector it accepts of a      *)
(* partition within 32 bits: the reserved sectors, each copy of the table  *)
(* and each cluster are apart from one another and inside the partition,   *)
(* each of them is there, and the root is a cluster.  That the table has   *)
(* an entry for every cluster is not among it: mounting does not compare   *)
(* the two numbers.                                                        *)
CopyOf(g, copy) == LET first == g.fat_start_lba + copy * g.sectors_per_fat
                   IN first .. first + g.sectors_per_fat - 1
LayoutSound ==
  LET g == filesystem
  IN /\ VolumeTypeOK
     /\ g.mounted /\ g.partition_lba + volume.total <= Word =>
          LET copies == {CopyOf(g, k) : k \in 0 .. g.fat_count - 1}
              parts  == {g.partition_lba .. g.fat_start_lba - 1} \cup copies
                          \cup {SectorsOf(g, c) : c \in ClustersOf(g)}
          IN /\ g.root_cluster \in ClustersOf(g)
             /\ UNION parts \subseteq g.partition_lba .. g.partition_lba + volume.total - 1
             /\ \A a, b \in parts : a # b => a \cap b = {}
             /\ Cardinality(parts) = 1 + g.fat_count + g.cluster_count

(* The first copy of the table, the only one that entries are read from.   *)
EntryIn(copy, cluster) ==
  LET lba == FatLba(filesystem, copy, cluster)
  IN IF lba < LbaLimit THEN disk[lba][cluster % PerSector] ELSE 0
Table == IF filesystem.mounted
         THEN [cluster \in {c \in ClustersOf(filesystem) : InTable(c)} |-> EntryIn(0, cluster)]
         ELSE <<>>

Store == INSTANCE TableStore WITH table <- Table

(* As long as no transfer was given up while the drive was still at it,    *)
(* the loop over the copies implements the table the rest of the driver    *)
(* relies on: one entry changes, in one step, before a call succeeds, and  *)
(* a call that fails changes that entry or none.                           *)
ImplementsTable == Store!Init /\ [][~late' => Store!Next]_<<Table, call, ret>>

(* The copies follow one another: an entry is changed in a copy only after *)
(* it was in the one before, and nothing else on the disk changes with it, *)
(* even where the copies differ since an earlier failure; a call succeeds  *)
(* only when all have it.                                                  *)
CopiesFollow ==
  [][~late' /\ call # NoCall =>
       LET cluster == call.cluster
           copies  == 0 .. filesystem.fat_count - 1
       IN /\ disk' # disk =>
               \E k \in copies :
                 /\ k > 0 => EntryIn(k - 1, cluster) = call.value
                 /\ FatLba(filesystem, k, cluster) \in CopyOf(filesystem, k)
                 /\ disk' = [disk EXCEPT ![FatLba(filesystem, k, cluster)]
                                          [cluster % PerSector] = call.value]
          /\ call' = NoCall /\ ret' => \A k \in copies : EntryIn(k, cluster) = call.value]_vars
=============================================================================
