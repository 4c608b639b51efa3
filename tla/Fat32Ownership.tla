--------------------------- MODULE Fat32Ownership ---------------------------
(***************************************************************************)
(* Why no cluster ever has two owners: the invariant that every step of    *)
(* the driver keeps.  It follows no chain: it says of each cluster who     *)
(* points to it, and of the operation in progress which clusters it holds  *)
(* that nothing on the disk points to.                                     *)
(***************************************************************************)
EXTENDS Fat32Properties

Appending == {"mark", "zero", "link"}

(* The steps each operation takes.                                         *)
StepOK(o) ==
  /\ o.kind = "none" => o.step = "idle"
  /\ o.kind = "create_file" => o.step \in {"slot", "entry"} \cup Appending
  /\ o.kind = "create_directory" => o.step \in {"slot", "entry", "dots", "free"} \cup Appending
  /\ o.kind = "write" => o.step \in {"cut", "free", "data", "update"} \cup Appending
  /\ o.kind = "rename" => o.step \in {"slot", "entry", "dots", "unlink", "undo"} \cup Appending
  /\ o.kind = "remove" => o.step \in {"free", "unlink"}

(* A write that is about to append clusters has at least one to append,    *)
(* which keeps the count from passing zero; the cluster to append is one.  *)
CallOK(o) == /\ StepOK(o)
             /\ o.kind = "write" /\ o.step \in Appending => o.need > 0
             /\ o.step \in {"zero", "link"} => o.new \in Clusters
-----------------------------------------------------------------------------

Pointed(d) == \E c \in Clusters : fat[c] = d
Named(d)   == \E l \in LiveEntries : FirstOf(l) = d

(* An allocated cluster that nothing on the disk leads to.                 *)
Loose(d) == d \in Clusters /\ d # Root /\ fat[d] # Free /\ ~Pointed(d) /\ ~Named(d)

TableSound ==
  /\ \A c, d \in Clusters : c # d /\ fat[c] \in Clusters => fat[c] # fat[d]
  /\ \A c \in Clusters : fat[c] \in Clusters => fat[fat[c]] # Free /\ fat[c] # Root
  /\ fat[Root] # Free

(* A rename between its two entries names one chain twice.                 *)
Twins(o, l, m) == /\ o.kind = "rename" /\ o.step \in {"dots", "unlink", "undo"}
                  /\ \/ l = o.at /\ m = o.slot
                     \/ l = o.slot /\ m = o.at

(* A directory entry, while operation o is in progress.                    *)
EntrySound(l, o) ==
  FirstOf(l) # Free =>
    /\ ~Pointed(FirstOf(l)) /\ FirstOf(l) # Root
    /\ fat[FirstOf(l)] # Free \/ (o.kind = "remove" /\ l = o.at)
    /\ EntryAt(l).kind = "file" => EntryAt(l).size > 0
    /\ \A m \in LiveEntries : FirstOf(m) = FirstOf(l) => m = l \/ Twins(o, l, m)

(* The chain an operation works on: no chain, one nothing leads to yet, or *)
(* the one the entry it was called for leads to.                           *)
Holds(o) == \/ o.first = Free
            \/ Loose(o.first)
            \/ o.at \in LiveEntries /\ FirstOf(o.at) = o.first

CallSound(o) ==
  /\ o.step \in {"zero", "link"} => Loose(o.new) /\ o.new # o.first
  /\ o.step = "free" =>
       /\ o.cur \in Clusters /\ o.cur # Root /\ fat[o.cur] # Free /\ ~Pointed(o.cur)
       /\ \A l \in LiveEntries : FirstOf(l) = o.cur => o.kind = "remove" /\ l = o.at
       /\ o.kind = "write" => o.cur # o.first
  /\ o.kind = "create_file" => o.entry.first = Free /\ o.first = Free
  /\ o.kind = "create_directory" =>
       /\ o.entry.kind = "dir" /\ o.entry.first = o.first
       /\ o.first # Free /\ o.step # "free" => Loose(o.first)
  /\ o.kind = "write" =>
       /\ Holds(o)
       /\ o.entry.size = 0 => o.first = Free /\ o.step \in {"data", "update"}
  /\ o.kind = "rename" =>
       /\ o.entry.first = o.first
       /\ o.entry.kind = "file" /\ o.first # Free => o.entry.size > 0
       /\ o.step \in {"slot", "entry"} \cup Appending => Holds(o)
  /\ o.kind = "remove" /\ o.at \in LiveEntries => FirstOf(o.at) = o.first

Sound(o) == /\ TableSound
            /\ \A l \in LiveEntries : EntrySound(l, o)
            /\ CallSound(o)

Ownership == CallOK(op) /\ (~damaged => Sound(op))
-----------------------------------------------------------------------------
(* No chain runs into itself: every set of clusters has one whose          *)
(* successor is outside it.                                                *)
NoCycle == \A S \in SUBSET Clusters : S # {} => \E c \in S : fat[c] \notin S

(* The cluster to append is the end of a chain of its own, and not the     *)
(* cluster it is appended to.                                              *)
AppendSound(o) ==
  /\ o.step = "mark" /\ o.last # Free => fat[o.last] # Free
  /\ o.step \in {"zero", "link"} => fat[o.new] = EndOfChain /\ o.new # o.last

(* No chain runs into itself, at any moment of any call, so the search for *)
(* a free directory slot, which follows a chain without counting clusters, *)
(* ends: a cluster is appended to a chain only when it leads nowhere.      *)
ChainsFinite == ~damaged => NoCycle /\ AppendSound(op)
=============================================================================
