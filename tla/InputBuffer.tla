---------------------------- MODULE InputBuffer ----------------------------
(***************************************************************************)
(* The ring of kernel/input.cpp that carries characters from the keyboard  *)
(* interrupt to the read_input system call.  Both users run with           *)
(* interrupts disabled on the only processor (the handler through an       *)
(* interrupt gate, the system call through gate 0x80), so a call is one    *)
(* step.                                                                   *)
(***************************************************************************)
EXTENDS Naturals, Sequences

CONSTANTS Chars,    \* the characters the keyboard produces
          Nul,      \* the byte a zero-initialised cell holds
          Size      \* input_buffer_size (256)

ASSUME SizeAssumption == Size \in Nat /\ Size >= 2 /\ Nul \notin Chars

VARIABLES head,     \* where the next character goes
          tail,     \* the oldest character waiting
          data,     \* the cells
          ret,      \* what the last call returned
          out       \* the character variable of the caller of pop

vars == <<head, tail, data, ret, out>>

Index == 0 .. Size - 1

Succ(i) == (i + 1) % Size

TypeOK == /\ head \in Index
          /\ tail \in Index
          /\ data \in [Index -> Chars \cup {Nul}]
          /\ ret \in BOOLEAN
          /\ out \in Chars \cup {Nul}

input_buffer_init == /\ head = 0
                     /\ tail = 0
                     /\ data = [i \in Index |-> Nul]
                     /\ ret = FALSE
                     /\ out = Nul

(* Mutant: a full ring is not noticed.                                     *)
PushOver(c) == /\ data' = [data EXCEPT ![head] = c]
               /\ head' = Succ(head)
               /\ ret' = TRUE
               /\ UNCHANGED <<tail, out>>

(* input_buffer_push: one cell always stays free, so that a full ring can  *)
(* be told from an empty one.                                              *)
PushStores(c) == /\ Succ(head) # tail
                 /\ data' = [data EXCEPT ![head] = c]
                 /\ head' = Succ(head)
                 /\ ret' = TRUE
                 /\ UNCHANGED <<tail, out>>

PushRefused == /\ Succ(head) = tail
               /\ ret' = FALSE
               /\ UNCHANGED <<head, tail, data, out>>

input_buffer_push(c) == PushStores(c) \/ PushRefused

PopTakes == /\ head # tail
            /\ out' = data[tail]
            /\ tail' = Succ(tail)
            /\ ret' = TRUE
            /\ UNCHANGED <<head, data>>

PopEmpty == /\ head = tail
            /\ ret' = FALSE
            /\ UNCHANGED <<head, tail, data, out>>

input_buffer_pop == PopTakes \/ PopEmpty

Next == \/ \E c \in Chars : input_buffer_push(c)
        \/ input_buffer_pop

Spec == input_buffer_init /\ [][Next]_vars
-----------------------------------------------------------------------------
(* How many characters wait, and which: the abstract queue in the ring.    *)
Used == IF head >= tail THEN head - tail ELSE head + Size - tail
Cell(i) == IF tail + i - 1 < Size THEN tail + i - 1 ELSE tail + i - 1 - Size
Content == [i \in 1 .. Used |-> data[Cell(i)]]

Queue == INSTANCE InputQueue WITH queue <- Content, Capacity <- Size - 1

(* The ring implements the bounded queue: characters come out once each,   *)
(* in the order in which push accepted them, whatever the wrap-around of   *)
(* head and tail, and push refuses only when Size - 1 characters wait.     *)
ImplementsQueue == Queue!Spec

(* Every waiting cell holds a character that was pushed, never the zero of *)
(* an unwritten cell: what makes the refinement inductive.                 *)
WaitingCellsWritten == \A i \in 1 .. Used : data[Cell(i)] \in Chars
=============================================================================
