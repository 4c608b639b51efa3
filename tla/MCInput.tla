------------------------------ MODULE MCInput ------------------------------
(***************************************************************************)
(* One letter, one other key and Enter, both shift keys; a buffer for two  *)
(* characters and a line of two.                                           *)
(***************************************************************************)
EXTENDS Input

CONSTANTS a, A, one, bang, A_key, One_key, Enter_key

MCNormal == [k \in Letter \cup Other |->
               CASE k = A_key -> a [] k = One_key -> one [] OTHER -> Enter]
MCShifted == [k \in Letter \cup Other |->
               CASE k = A_key -> A [] k = One_key -> bang [] OTHER -> Enter]

(* The button pressed at rest; a step to the left and down; eight steps to *)
(* the right.                                                              *)
Look(bit3, overflow, left) == [bit3 |-> bit3, overflow |-> overflow, left |-> left]
Rest == Look(FALSE, FALSE, FALSE)
Back == Look(TRUE, TRUE, TRUE)
MCMovements == {<<Look(TRUE, FALSE, TRUE), Rest, Rest>>,
                <<Look(TRUE, FALSE, FALSE), Back, Back>>,
                <<Look(TRUE, FALSE, FALSE), Look(TRUE, FALSE, FALSE), Rest>>}

MCMixes == {<<4, 0>>, <<1, 1>>, <<0, 3>>}
=============================================================================
