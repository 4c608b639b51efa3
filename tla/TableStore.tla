----------------------------- MODULE TableStore -----------------------------
(***************************************************************************)
(* What the rest of the FAT32 driver relies on when it writes an entry of  *)
(* the allocation table: the entry changes in one step or not at all, no   *)
(* other does, and a call that succeeds has changed it.  A call that fails *)
(* may have changed it as well.                                            *)
(***************************************************************************)
CONSTANTS Values, NoCall

VARIABLES table,   \* the entries
          call,    \* the cluster and the value of the call in progress
          ret      \* how the last call ended

Begin == /\ call = NoCall
         /\ \E cluster \in DOMAIN table, value \in Values :
              call' = [cluster |-> cluster, value |-> value]
         /\ UNCHANGED <<table, ret>>

Store == /\ call # NoCall
         /\ table' = [table EXCEPT ![call.cluster] = call.value]
         /\ UNCHANGED <<call, ret>>

Return == /\ call # NoCall
          /\ call' = NoCall
          /\ \/ ret' = FALSE
             \/ ret' = TRUE /\ table[call.cluster] = call.value
          /\ UNCHANGED table

(* A call for a cluster the table has no entry for.                       *)
Refuse == call = NoCall /\ ret' = FALSE /\ UNCHANGED <<table, call>>

Init == call = NoCall /\ ret = FALSE
Next == Begin \/ Refuse \/ Store \/ Return
=============================================================================
