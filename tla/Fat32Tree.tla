----------------------------- MODULE Fat32Tree -----------------------------
(***************************************************************************)
(* The driver of module Fat32 implements the tree and the calls of module  *)
(* FileTree.  The tree is that of the names the volume stands for: while a *)
(* rename across directories has written the new entry and not yet deleted *)
(* the old one, the new one is left out.  Four variables remember what the *)
(* driver does not keep: the call a caller waits for, how the last one     *)
(* ended, whether a fault struck the last step, and the tree as it was     *)
(* before that step.                                                       *)
(***************************************************************************)
EXTENDS Fat32

VARIABLES called, outcome, struck, tree

TreePaths == UNION {[1 .. n -> Names] : n \in 1 .. N}

Hidden(path) == /\ op.kind = "rename" /\ op.step \in {"dots", "unlink", "undo"}
                /\ \E n \in 1 .. Len(path) : op.slot \in Lookup(SubSeq(path, 1, n))
Node(path) ==
  IF Lookup(path) = {} \/ Hidden(path) THEN [kind |-> "absent", size |-> 0]
  ELSE LET e == EntryAt(CHOOSE loc \in Lookup(path) : TRUE)
       IN [kind |-> e.kind, size |-> e.size]
View == [path \in TreePaths |-> Node(path)]

Calls ==
  [name : {"create_file", "create_directory", "remove"}, path : Paths]
    \cup [name : {"rename"}, path : Paths, new_path : Paths]
    \cup [name : {"write"}, path : Paths, end : {offset + length : offset \in Offsets, length \in Lengths}]

Abstract == INSTANCE FileTree WITH Tree <- TreePaths, MaxSize <- Word - 1,
                                   call <- called, result <- outcome

Perform(c) ==
  \/ c.name = "create_file" /\ fat32_create_file(c.path)
  \/ c.name = "create_directory" /\ fat32_create_directory(c.path)
  \/ /\ c.name = "write"
     /\ \E offset \in Offsets, length \in Lengths :
          offset + length = c.end /\ fat32_write(c.path, offset, length)
  \/ c.name = "rename" /\ fat32_rename(c.path, c.new_path)
  \/ c.name = "remove" /\ fat32_remove(c.path)

(* A caller asks, the driver works, and the caller takes the answer.       *)
Asked == /\ called = Abstract!NoCall
         /\ \E c \in Calls : Perform(c) /\ called' = c
         /\ struck' = (faults' # faults) /\ UNCHANGED outcome
Worked == /\ Step \/ WriteLost \/ PowerLoss
          /\ struck' = (faults' # faults) /\ UNCHANGED <<called, outcome>>
Answered == /\ called # Abstract!NoCall /\ op.step = "idle"
            /\ called' = Abstract!NoCall
            /\ outcome' = IF ret = "ok" THEN "ok" ELSE IF struck THEN "broken" ELSE "error"
            /\ UNCHANGED <<vars, struck>>

history == <<called, outcome, struck, tree>>
TreeInit == Init /\ called = Abstract!NoCall /\ outcome = "ok" /\ struck = FALSE /\ tree = View
TreeNext == tree' = View /\ (Asked \/ Worked \/ Answered) /\ ~damaged'
TreeSpec == TreeInit /\ [][TreeNext]_<<vars, history>>

(* On a volume that stays undamaged, the driver implements the tree and    *)
(* its calls: whatever it writes on the way, a call that returns success   *)
(* has changed the tree in one step and exactly as it was asked, a call    *)
(* that returns an error has not changed it; and when a fault struck the   *)
(* call's last write, and the caller is told of an error, or of nothing,   *)
(* all of it is done or nothing.                                           *)
ImplementsTree == Abstract!Spec
=============================================================================
