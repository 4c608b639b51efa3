----------------------------- MODULE Fat32Read -----------------------------
(***************************************************************************)
(* The reading half of the FAT32 driver (kernel/fs/fat32/read.cpp), which  *)
(* has its own copy of the scan, of the resolution of paths and of the     *)
(* walk along a chain.  It changes nothing on the volume: its functions    *)
(* are operators over the variables of module Fat32, turn by turn of their *)
(* own loops.                                                              *)
(***************************************************************************)
EXTENDS Fat32

CONSTANT ReadPaths     \* the paths readers use: those of Paths, and the root

ASSUME ReaderAssumption == ReadPaths \subseteq Seq(Names)

(* Mutant: the scan ends with the first cluster of the directory.          *)
NextSlotInCluster(loc) ==
  IF EntryAt(loc).kind = "end" \/ loc.slot = Slots - 1 THEN {}
  ELSE {[loc EXCEPT !.slot = @ + 1]}

(* The slot a scan looks at after loc, as a set: none after the end mark,  *)
(* or after a cluster whose successor is not one.                          *)
NextSlot(loc) ==
  IF EntryAt(loc).kind = "end" THEN {}
  ELSE IF loc.slot < Slots - 1 THEN {[loc EXCEPT !.slot = @ + 1]}
  ELSE {[cluster |-> c, slot |-> 0] : c \in {fat[loc.cluster]} \cap Clusters}

(* A scan of a directory: the slot it looks at in each of its turns, of    *)
(* which there are as many as the volume has slots.                        *)
Turns == 0 .. N * Slots - 1
Scan(dir) ==
  LET seen[k \in Turns] ==
        IF k = 0 THEN {[cluster |-> c, slot |-> 0] : c \in {dir} \cap Clusters}
        ELSE UNION {NextSlot(loc) : loc \in seen[k - 1]}
  IN seen

Looked(dir) == UNION {Scan(dir)[k] : k \in Turns}
Listed(dir) == {loc \in Looked(dir) : EntryAt(loc).kind \in Live}

(* fat32_find_in_directory as read.cpp has it: the first entry of a name,  *)
(* as a set.                                                               *)
FindToRead(dir, name) ==
  LET scan == Scan(dir)
      hits == {k \in Turns : \E loc \in scan[k] : /\ EntryAt(loc).kind \in Live
                                                  /\ EntryAt(loc).name = name}
  IN {EntryAt(loc) : loc \in UNION {scan[k] : k \in Lowest(hits)}}

(* The loop over the segments of a path: the directory it has come to, or  *)
(* Free when a segment is not a directory with a cluster.                  *)
DirectoryAt(path) ==
  LET dir[k \in 0 .. Len(path)] ==
        IF k = 0 THEN Root
        ELSE LET found == FindToRead(dir[k - 1], path[k])
                 below == {e.first : e \in {f \in found : f.kind = "dir"}} \cap Clusters
             IN IF below = {} THEN Free ELSE CHOOSE c \in below : TRUE
  IN dir[Len(path)]

fat32_directory_exists(path) == DirectoryAt(path) \in Clusters

(* A path without its last name.                                           *)
Container(path) == SubSeq(path, 1, Len(path) - 1)

(* The file opened, as a set: none if there is none, if it is a directory, *)
(* or if it has a size and no cluster.                                     *)
fat32_open(path) ==
  IF path = <<>> THEN {}
  ELSE {[first_cluster |-> e.first, size |-> e.size] :
          e \in {f \in FindToRead(DirectoryAt(Container(path)), NameOf(path)) :
                   f.kind = "file" /\ (f.size # 0 => f.first \in Clusters)}}

(* fat32_read: how many bytes it delivers, -1 for an error, and the        *)
(* clusters it takes them from.  It follows the chain as far as the last   *)
(* byte asked for and needs a cluster at each step.                        *)
ReadError == -1
Remaining(file, offset, size) ==
  IF offset >= file.size THEN 0
  ELSE IF size < file.size - offset THEN size ELSE file.size - offset

ReadCluster(file, index) ==
  LET at[k \in 0 .. index] ==
        IF k = 0 THEN file.first_cluster
        ELSE IF at[k - 1] \in Clusters THEN fat[at[k - 1]] ELSE Free
  IN at[index]

LastRead(file, offset, size) == (offset + Remaining(file, offset, size) - 1) \div ClusterSize
ClustersRead(file, offset, size) ==
  {ReadCluster(file, k) : k \in offset \div ClusterSize .. LastRead(file, offset, size)}

fat32_read(file, offset, size) ==
  IF Remaining(file, offset, size) = 0 THEN 0
  ELSE IF \A k \in 0 .. LastRead(file, offset, size) : ReadCluster(file, k) \in Clusters
       THEN Remaining(file, offset, size) ELSE ReadError

(* fat32_list_directory: what it lists, nothing when the chain does not    *)
(* come to an end.                                                         *)
fat32_list_directory(path) ==
  LET dir   == DirectoryAt(path)
      ended == \E loc \in Looked(dir) : \/ EntryAt(loc).kind = "end"
                                        \/ loc.slot = Slots - 1 /\ fat[loc.cluster] = EndOfChain
  IN IF ended THEN {EntryAt(loc) : loc \in Listed(dir)} ELSE {}
-----------------------------------------------------------------------------
AtRest == op.step = "idle" /\ ~damaged

(* Between operations the reading half finds what the writing half does,   *)
(* although each has a scan of its own: a path opens exactly if it names a *)
(* file, is a directory exactly if the writing half could create entries   *)
(* in it, and a listing has every entry a lookup finds and no other.       *)
LookupsAgree ==
  AtRest => \A path \in ReadPaths \ {<<>>} :
    LET here == {EntryAt(loc) : loc \in Lookup(path)}
    IN /\ fat32_open(path) = {[first_cluster |-> e.first, size |-> e.size] :
                                e \in {f \in here : f.kind = "file"}}
       /\ fat32_directory_exists(path) = (\E e \in here : e.kind = "dir")
       /\ fat32_directory_exists(Container(path)) = (ParentOf(path) \in Clusters)
       /\ here = {e \in fat32_list_directory(Container(path)) : e.name = NameOf(path)}

(* Between operations a file that has a name can be read, from any offset, *)
(* to the last byte of its size, and what is read is zeros or the data of  *)
(* files: never the entries of a directory, also of one that was deleted.  *)
ReadsWhole ==
  AtRest => \A path \in ReadPaths \ {<<>>} : \A loc \in Lookup(path) :
    EntryAt(loc).kind = "file" =>
      \E file \in fat32_open(path) : \A offset \in {0, ClusterSize, file.size - 1} \cap Size :
        /\ fat32_read(file, offset, Word - 1) = Remaining(file, offset, Word - 1)
        /\ \A c \in ClustersRead(file, offset, Word - 1), s \in Slot :
             slots[c][s].kind \in {"data", "end"}
=============================================================================
