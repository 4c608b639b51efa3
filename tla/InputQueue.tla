----------------------------- MODULE InputQueue -----------------------------
(***************************************************************************)
(* What the keyboard input buffer promises to its two users (the keyboard  *)
(* interrupt handler and the read_input system call): a first-in first-out *)
(* queue of at most Capacity characters that refuses a character only when *)
(* it is full, and never alters a character it has accepted.               *)
(***************************************************************************)
EXTENDS Naturals, Sequences

CONSTANTS Chars,    \* the characters the keyboard produces
          Nul,      \* what the caller's variable holds before the first pop
          Capacity  \* how many characters can wait

VARIABLES queue,    \* the characters waiting, oldest first
          ret,      \* what the last call returned
          out       \* the character variable of the caller of pop

vars == <<queue, ret, out>>

TypeOK == /\ queue \in Seq(Chars)
          /\ Len(queue) \leq Capacity
          /\ ret \in BOOLEAN
          /\ out \in Chars \cup {Nul}

Init == /\ queue = <<>>
        /\ ret = FALSE
        /\ out = Nul

Accept(c) == /\ Len(queue) < Capacity
             /\ queue' = Append(queue, c)
             /\ ret' = TRUE
             /\ UNCHANGED out

Refuse == /\ Len(queue) = Capacity
          /\ ret' = FALSE
          /\ UNCHANGED <<queue, out>>

Take == /\ queue # <<>>
        /\ out' = Head(queue)
        /\ queue' = Tail(queue)
        /\ ret' = TRUE

FindEmpty == /\ queue = <<>>
             /\ ret' = FALSE
             /\ UNCHANGED <<queue, out>>

Next == \/ \E c \in Chars : Accept(c)
        \/ Refuse
        \/ Take
        \/ FindEmpty

Spec == Init /\ [][Next]_vars
=============================================================================
