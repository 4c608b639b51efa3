------------------------------ MODULE FileTree ------------------------------
(***************************************************************************)
(* What the writing operations of the file system promise: a tree of named *)
(* files and directories and one call at a time.  A call that succeeds has *)
(* done to the tree exactly what it was asked, in one step; a call that    *)
(* fails has done nothing; only when the drive or the power failed its     *)
(* last write it may have done what it was asked, or nothing.              *)
(***************************************************************************)
EXTENDS Naturals, Sequences

CONSTANTS Tree,      \* every path of the tree, closed under prefix
          MaxSize,   \* the largest size of a file
          Calls      \* what callers ask: the operation, its path, and for a
                     \* rename the new path, for a write where it ends

Node(kind, size) == [kind |-> kind, size |-> size]
Absent == Node("absent", 0)
NoCall == [name |-> "none"]

VARIABLES tree,    \* what each path names
          call,    \* the call in progress
          result   \* how the last call ended: "ok", "error", or "broken" by
                   \* a failure of the drive or of the power

vars == <<tree, call, result>>

Container(p)   == SubSeq(p, 1, Len(p) - 1)
IsDirectory(p) == p = <<>> \/ tree[p].kind = "dir"

TypeOK == /\ tree \in [Tree -> [kind : {"absent", "file", "dir"}, size : 0 .. MaxSize]]
          /\ call \in Calls \cup {NoCall}
          /\ result \in {"ok", "error", "broken"}

Init == /\ tree = [p \in Tree |-> Absent]
        /\ call = NoCall
        /\ result = "ok"

(* What each operation does to the tree.                                   *)
Create(p, kind) ==
  /\ p \in Tree /\ tree[p] = Absent
  /\ IsDirectory(Container(p))
  /\ tree' = [tree EXCEPT ![p] = Node(kind, 0)]

(* A write extends a file to its last byte and never shortens it.          *)
Write(p, end) ==
  /\ p \in Tree /\ tree[p].kind = "file" /\ end <= MaxSize
  /\ tree' = [tree EXCEPT ![p] = Node("file", IF end > tree[p].size THEN end ELSE tree[p].size)]

(* A file or a whole directory moves to a name that is not taken, never    *)
(* into itself.                                                            *)
Below(p, r) == Len(p) <= Len(r) /\ SubSeq(r, 1, Len(p)) = p
Moved(p, q, r) == p \o SubSeq(r, Len(q) + 1, Len(r))
Rename(p, q) ==
  /\ p \in Tree /\ tree[p] # Absent
  /\ q \in Tree /\ tree[q] = Absent
  /\ IsDirectory(Container(q))
  /\ ~Below(p, q)
  /\ tree' = [r \in Tree |-> IF Below(q, r)
                             THEN IF Moved(p, q, r) \in Tree THEN tree[Moved(p, q, r)] ELSE Absent
                             ELSE IF Below(p, r) THEN Absent ELSE tree[r]]

Remove(p) ==
  /\ p \in Tree /\ tree[p] # Absent
  /\ \A r \in Tree : Below(p, r) /\ r # p => tree[r] = Absent
  /\ tree' = [tree EXCEPT ![p] = Absent]

Done == \/ call.name = "create_file" /\ Create(call.path, "file")
        \/ call.name = "create_directory" /\ Create(call.path, "dir")
        \/ call.name = "write" /\ Write(call.path, call.end)
        \/ call.name = "rename" /\ Rename(call.path, call.new_path)
        \/ call.name = "remove" /\ Remove(call.path)

(* A call begins, and returns.                                             *)
Ask(c) == call = NoCall /\ call' = c /\ UNCHANGED <<tree, result>>

Return(r) == call # NoCall /\ call' = NoCall /\ result' = r
Succeed == Return("ok") /\ Done
Fail    == Return("error") /\ UNCHANGED tree
Break   == Return("broken") /\ (Done \/ UNCHANGED tree)

Next == (\E c \in Calls : Ask(c)) \/ Succeed \/ Fail \/ Break

Spec == Init /\ [][Next]_vars
=============================================================================
