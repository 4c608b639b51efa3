---------------------------- MODULE InputProofs ----------------------------
(***************************************************************************)
(* Proofs about the input ring, then about the two devices, their          *)
(* controller and what reads from it: for every keyboard, every size of    *)
(* the ring and every bound.                                               *)
(***************************************************************************)
EXTENDS Input, FiniteSetTheorems, SequenceTheorems, WellFoundedInduction, TLAPS

(* The remainder of kernel/input.cpp's next index is a wrap to zero.       *)
LEMMA SuccWraps ==
  ASSUME NEW i \in Index
  PROVE  /\ Succ(i) = IF i = Size - 1 THEN 0 ELSE i + 1
         /\ Succ(i) \in Index
  <1>1. CASE i = Size - 1
    BY <1>1, SizeAssumption DEF Succ, Index
  <1>2. CASE i # Size - 1
    BY <1>2, SizeAssumption DEF Succ, Index
  <1> QED BY <1>1, <1>2
-----------------------------------------------------------------------------
Inv == TypeOK /\ WaitingCellsWritten

(* Where the waiting cells are, for every pair of indices.                 *)
LEMMA UsedType ==
  ASSUME TypeOK
  PROVE  /\ Used \in 0 .. Size - 1
         /\ \A i \in 1 .. Used : Cell(i) \in Index
         /\ Used = 0 <=> head = tail
         /\ Used = Size - 1 <=> Succ(head) = tail
  <1>1. /\ head \in 0 .. Size - 1 /\ tail \in 0 .. Size - 1
        /\ Size \in Nat /\ Size >= 2
    BY SizeAssumption DEF TypeOK, Index
  <1>2. Succ(head) = IF head = Size - 1 THEN 0 ELSE head + 1
    BY <1>1, SuccWraps DEF Index
  <1> QED BY <1>1, <1>2 DEF Used, Cell, Index

LEMMA ContentIsSeq ==
  ASSUME Inv
  PROVE  Content \in Seq(Chars) /\ Len(Content) = Used
  <1>1. Used \in Nat /\ \A i \in 1 .. Used : data[Cell(i)] \in Chars
    BY UsedType DEF Inv, WaitingCellsWritten
  <1>2. Content \in [1 .. Used -> Chars]
    BY <1>1 DEF Content
  <1> QED BY <1>1, <1>2

(* A function on 1 .. n equals the sequence that has its values.           *)
LEMMA FunctionIsSeq ==
  ASSUME NEW S, NEW n \in Nat, NEW f \in [1 .. n -> S], NEW t \in Seq(S),
         Len(t) = n, \A i \in 1 .. n : t[i] = f[i]
  PROVE  f = t
  <1>1. f \in Seq(S) /\ Len(f) = n
    OBVIOUS
  <1> QED BY <1>1, SeqEqual

(* A push that stores extends the queue at its end.                        *)
LEMMA PushAppends ==
  ASSUME Inv, NEW c \in Chars, PushStores(c)
  PROVE  /\ TypeOK'
         /\ Used < Size - 1
         /\ Used' = Used + 1
         /\ Content' = Append(Content, c)
         /\ WaitingCellsWritten'
  <1>1. /\ head \in 0 .. Size - 1 /\ tail \in 0 .. Size - 1
        /\ Size \in Nat /\ Size >= 2
        /\ head' = IF head = Size - 1 THEN 0 ELSE head + 1
        /\ tail' = tail /\ head' # tail
    BY SizeAssumption, SuccWraps DEF Inv, TypeOK, Index, PushStores
  <1>2. TypeOK'
    BY <1>1, SuccWraps DEF Inv, TypeOK, PushStores, Index
  <1>3. Used \in Nat /\ Used < Size - 1 /\ Used' = Used + 1
    BY <1>1 DEF Used
  <1>4. \A i \in 1 .. Used : Cell(i)' = Cell(i) /\ Cell(i) # head /\ Cell(i) \in Index
    BY <1>1 DEF Cell, Used, Index
  <1>5. \A i \in 1 .. Used' : i = Used + 1 => Cell(i)' = head
    BY <1>1 DEF Cell, Used
  <1>6. \A i \in 1 .. Used' : data'[Cell(i)'] = IF i = Used + 1 THEN c ELSE data[Cell(i)]
    BY <1>1, <1>3, <1>4, <1>5 DEF PushStores, Inv, TypeOK, Index
  <1>7. WaitingCellsWritten'
    BY <1>3, <1>6 DEF Inv, WaitingCellsWritten
  <1>8. Content' = Append(Content, c)
    <2>1. /\ Content \in Seq(Chars)
          /\ Len(Content) = Used
          /\ \A i \in 1 .. Used : Content[i] = data[Cell(i)]
      BY ContentIsSeq, <1>3 DEF Content
    <2>2. Content' = [i \in 1 .. Used + 1 |-> IF i = Used + 1 THEN c ELSE data[Cell(i)]]
      BY <1>3, <1>6 DEF Content
    <2>3. /\ Append(Content, c) \in Seq(Chars)
          /\ Len(Append(Content, c)) = Used + 1
          /\ \A i \in 1 .. Used + 1 :
                Append(Content, c)[i] = IF i = Used + 1 THEN c ELSE data[Cell(i)]
      BY <1>3, <2>1
    <2>4. Content' \in [1 .. Used + 1 -> Chars]
      BY <1>3, <1>6, <1>7, <2>2 DEF WaitingCellsWritten
    <2>5. \A i \in 1 .. Used + 1 : Append(Content, c)[i] = Content'[i]
      BY <2>2, <2>3
    <2>6. Used + 1 \in Nat
      BY <1>3
    <2> QED BY <2>3, <2>4, <2>5, <2>6, FunctionIsSeq
  <1> QED BY <1>2, <1>3, <1>7, <1>8

(* A pop that finds a character takes the oldest one.                      *)
LEMMA PopTakesHead ==
  ASSUME Inv, PopTakes
  PROVE  /\ TypeOK'
         /\ Used > 0
         /\ out' = Head(Content)
         /\ Content' = Tail(Content)
         /\ WaitingCellsWritten'
  <1>1. /\ head \in 0 .. Size - 1 /\ tail \in 0 .. Size - 1
        /\ Size \in Nat /\ Size >= 2
        /\ tail' = IF tail = Size - 1 THEN 0 ELSE tail + 1
        /\ head' = head /\ head # tail /\ data' = data
    BY SizeAssumption, SuccWraps DEF Inv, TypeOK, Index, PopTakes
  <1>2. TypeOK'
    BY <1>1, SuccWraps DEF Inv, TypeOK, PopTakes, Index
  <1>3. Used \in Nat /\ Used > 0 /\ Used' = Used - 1
    BY <1>1 DEF Used
  <1>4. \A i \in 1 .. Used - 1 : Cell(i)' = Cell(i + 1)
    BY <1>1 DEF Cell, Used
  <1>5. Cell(1) = tail
    BY <1>1 DEF Cell
  <1>6. WaitingCellsWritten'
    BY <1>1, <1>3, <1>4 DEF Inv, WaitingCellsWritten
  <1>7. /\ Content \in Seq(Chars)
        /\ Len(Content) = Used
        /\ \A i \in 1 .. Used : Content[i] = data[Cell(i)]
    BY ContentIsSeq, <1>3 DEF Content
  <1>8. out' = Head(Content)
    BY <1>3, <1>5, <1>7 DEF PopTakes
  <1>9. Content' = Tail(Content)
    <2>1. Content' = [i \in 1 .. Used - 1 |-> data[Cell(i + 1)]]
      BY <1>1, <1>3, <1>4 DEF Content
    <2>2. /\ Tail(Content) \in Seq(Chars)
          /\ Len(Tail(Content)) = Used - 1
          /\ \A i \in 1 .. Used - 1 : Tail(Content)[i] = data[Cell(i + 1)]
      BY <1>3, <1>7
    <2>3. Content' \in [1 .. Used - 1 -> Chars]
      BY <1>3, <1>7, <2>1 DEF Inv, WaitingCellsWritten
    <2>4. \A i \in 1 .. Used - 1 : Tail(Content)[i] = Content'[i]
      BY <2>1, <2>2
    <2>5. Used - 1 \in Nat
      BY <1>3
    <2> QED BY <2>2, <2>3, <2>4, <2>5, FunctionIsSeq
  <1> QED BY <1>2, <1>3, <1>6, <1>8, <1>9
-----------------------------------------------------------------------------
(* The ring never holds an unwritten cell between tail and head, and its   *)
(* indices never leave the array.                                          *)
THEOREM InputBufferSafe == Spec => [](TypeOK /\ WaitingCellsWritten)
  <1>1. input_buffer_init => Inv
    <2> SUFFICES ASSUME input_buffer_init PROVE Inv
      OBVIOUS
    <2>1. TypeOK
      <3>1. data \in [Index -> Chars \cup {Nul}]
        BY DEF input_buffer_init
      <3>2. 0 \in Index
        BY SizeAssumption DEF Index
      <3> QED BY <3>1, <3>2 DEF input_buffer_init, TypeOK
    <2>2. Used = 0
      BY DEF input_buffer_init, Used
    <2> QED BY <2>1, <2>2 DEF Inv, WaitingCellsWritten
  <1>2. Inv /\ [Next]_vars => Inv'
    <2> SUFFICES ASSUME Inv, [Next]_vars PROVE Inv'
      OBVIOUS
    <2>1. ASSUME NEW c \in Chars, PushStores(c) PROVE Inv'
      BY <2>1, PushAppends DEF Inv
    <2>2. CASE PushRefused
      BY <2>2 DEF PushRefused, Inv, TypeOK, WaitingCellsWritten, Used, Cell
    <2>3. CASE PopTakes
      BY <2>3, PopTakesHead DEF Inv
    <2>4. CASE PopEmpty
      BY <2>4 DEF PopEmpty, Inv, TypeOK, WaitingCellsWritten, Used, Cell
    <2>5. CASE UNCHANGED vars
      BY <2>5 DEF vars, Inv, TypeOK, WaitingCellsWritten, Used, Cell
    <2> QED BY <2>1, <2>2, <2>3, <2>4, <2>5 DEF Next, input_buffer_push, input_buffer_pop
  <1> QED BY <1>1, <1>2, PTL DEF Spec, Inv

(* The ring implements the bounded first-in first-out queue: whatever the  *)
(* wrap-around, characters come out once each in the order of the pushes,  *)
(* and only a push onto Size - 1 waiting characters is refused.            *)
THEOREM InputBufferImplementsQueue == Spec => ImplementsQueue
  <1>1. input_buffer_init => Queue!Init
    BY SizeAssumption DEF input_buffer_init, Queue!Init, Content, Used
  <1>2. Inv /\ [Next]_vars => [Queue!Next]_(Queue!vars)
    <2> SUFFICES ASSUME Inv, [Next]_vars PROVE [Queue!Next]_(Queue!vars)
      OBVIOUS
    <2>0. /\ Content \in Seq(Chars) /\ Len(Content) = Used
          /\ Used \in 0 .. Size - 1
          /\ Used = 0 <=> head = tail
          /\ Used = Size - 1 <=> Succ(head) = tail
          /\ Size \in Nat
      BY ContentIsSeq, UsedType, SizeAssumption DEF Inv
    <2>1. ASSUME NEW c \in Chars, PushStores(c) PROVE Queue!Accept(c)
      BY <2>0, <2>1, PushAppends DEF Queue!Accept, PushStores
    <2>2. CASE PushRefused
      <3>1. Content' = Content
        BY <2>2 DEF PushRefused, Content, Used, Cell
      <3> QED BY <2>0, <2>2, <3>1 DEF PushRefused, Queue!Refuse, Queue!Next
    <2>3. CASE PopTakes
      <3>1. Content # <<>>
        BY <2>0, <2>3, PopTakesHead
      <3> QED BY <2>3, <3>1, PopTakesHead DEF PopTakes, Queue!Take, Queue!Next
    <2>4. CASE PopEmpty
      <3>1. Content' = Content
        BY <2>4 DEF PopEmpty, Content, Used, Cell
      <3>2. Content = <<>>
        BY <2>0, <2>4 DEF PopEmpty
      <3> QED BY <2>4, <3>1, <3>2 DEF PopEmpty, Queue!FindEmpty, Queue!Next
    <2>5. CASE UNCHANGED vars
      BY <2>5 DEF vars, Content, Used, Cell, Queue!vars
    <2> QED BY <2>1, <2>2, <2>3, <2>4, <2>5
            DEF Next, input_buffer_push, input_buffer_pop, Queue!Next
  <1>3. Spec => []Inv
    BY InputBufferSafe DEF Inv
  <1> QED BY <1>1, <1>2, <1>3, PTL DEF Spec, ImplementsQueue, Queue!Spec
-----------------------------------------------------------------------------
Bytes == KeyByte \cup Answer \cup PacketByte

(* What the devices and the port hold.                                     *)
BytesTyped == /\ keys \in Seq(KeyByte)
              /\ mouse \in Seq(Answer \cup PacketByte)
              /\ port \in Seq(Bytes)
              /\ last \in Bytes
              /\ reply \in BOOLEAN
              /\ packets \in Nat

(* What a key means is a character or nothing.                             *)
LEMMA MeaningType ==
  ASSUME NEW key \in Key
  PROVE  Meaning(key) \in Chars \cup {Nul}
  <1>1. key \in Letter \cup Other \/ key \in ShiftKeys \cup {CapsLock} \/ key = BackspaceKey
    BY DEF Key
  <1>2. /\ Erase \in Chars
        /\ \A k \in Letter \cup Other : Normal[k] \in Chars \cup {Nul} /\ Shifted[k] \in Chars \cup {Nul}
    BY KeyboardAssumption
  <1> QED BY <1>1, <1>2 DEF Meaning

LEMMA TripleIsSeq ==
  ASSUME NEW S, NEW f \in [1 .. 3 -> S]
  PROVE  f \in Seq(S)
  <1>1. ASSUME NEW n \in Nat, NEW g \in [1 .. n -> S]
        PROVE  g \in Seq(S)
    OBVIOUS
  <1> QED BY <1>1

LEMMA PacketBound == MaxPackets \in Nat
  BY InputAssumption

(* The bytes of a packet, as they wait in the mouse.                       *)
LEMMA PacketType ==
  ASSUME NEW n \in 0 .. MaxPackets, NEW movement \in Movements
  PROVE  PacketSent(n, movement) \in Seq(PacketByte)
  <1>1. ASSUME NEW place \in 1 .. 3
        PROVE  PacketSent(n, movement)[place] \in PacketByte
    <2>1. movement \in [1 .. 3 -> [bit3 : BOOLEAN, overflow : BOOLEAN, left : BOOLEAN]]
      BY MovementsAssumption
    <2>2. movement[place] \in [bit3 : BOOLEAN, overflow : BOOLEAN, left : BOOLEAN]
      BY <2>1
    <2>3. [packet |-> n, place |-> place, bit3 |-> movement[place].bit3,
           overflow |-> movement[place].overflow, left |-> movement[place].left] \in MouseByte
      BY <2>2 DEF MouseByte
    <2> QED BY <2>3 DEF PacketSent, PacketByte
  <1>2. PacketSent(n, movement) \in [1 .. 3 -> PacketByte]
    BY <1>1 DEF PacketSent
  <1> QED BY <1>2, TripleIsSeq

(* What sequences of a set's elements stay.                                *)
LEMMA SeqFacts ==
  ASSUME NEW S, NEW s \in Seq(S)
  PROVE  /\ \A t \in Seq(S) : s \o t \in Seq(S)
         /\ \A x \in S : Append(s, x) \in Seq(S) /\ <<x>> \in Seq(S)
         /\ s # <<>> => Head(s) \in S /\ Tail(s) \in Seq(S)
         /\ s # <<>> => s[1] \in S
         /\ <<>> \in Seq(S)
  OBVIOUS

LEMMA BytesInit == InputInit => BytesTyped
  <1>1. [dev |-> "resend"] \in Bytes
    BY DEF Bytes, Answer
  <1> SUFFICES ASSUME InputInit PROVE BytesTyped
    OBVIOUS
  <1>2. keys = <<>> /\ mouse = <<>> /\ port = <<>>
    BY DEF InputInit
  <1>3. keys \in Seq(KeyByte)
    BY <1>2
  <1>4. mouse \in Seq(Answer \cup PacketByte)
    BY <1>2
  <1>5. port \in Seq(Bytes)
    BY <1>2
  <1>6. last \in Bytes /\ reply \in BOOLEAN /\ packets \in Nat
    BY <1>1 DEF InputInit
  <1> QED BY <1>3, <1>4, <1>5, <1>6 DEF BytesTyped

(* Each step keeps the bytes what they are.                                *)
LEMMA BytesStep == BytesTyped /\ [InputNext]_inputVars => BytesTyped'
  <1> SUFFICES ASSUME BytesTyped, [InputNext]_inputVars PROVE BytesTyped'
    OBVIOUS
  <1>1. CASE KeyMoves
    <2>1. PICK code \in ScanCode :
            keys' = IF Len(keys) = KeyboardQueue THEN keys
                    ELSE Append(keys, [dev |-> "key", code |-> code,
                                       meant |-> IF code.down THEN Meaning(code.key) ELSE Nul])
      BY <1>1 DEF KeyMoves
    <2>2. code.key \in Key
      BY DEF ScanCode
    <2>3. [dev |-> "key", code |-> code,
           meant |-> IF code.down THEN Meaning(code.key) ELSE Nul] \in KeyByte
      BY <2>2, MeaningType DEF KeyByte
    <2> QED BY <1>1, <2>1, <2>3 DEF KeyMoves, BytesTyped
  <1>2. CASE MouseMoves
    <2>1. packets' \in 0 .. MaxPackets
      BY <1>2, InputAssumption DEF MouseMoves, Within, BytesTyped
    <2>2. PICK movement \in Movements : mouse' = mouse \o PacketSent(packets', movement)
      BY <1>2 DEF MouseMoves
    <2>3. PacketSent(packets', movement) \in Seq(Answer \cup PacketByte)
      BY <2>1, PacketType
    <2>4. mouse' \in Seq(Answer \cup PacketByte)
      BY <2>2, <2>3, SeqFacts DEF BytesTyped
    <2> QED BY <1>2, <2>1, <2>4 DEF MouseMoves, BytesTyped
  <1>3. CASE MouseByteLost
    BY <1>3 DEF MouseByteLost, BytesTyped
  <1>4. CASE Deliver
    <2>1. /\ keys # <<>> => Head(keys) \in Bytes /\ Tail(keys) \in Seq(KeyByte)
          /\ mouse # <<>> => Head(mouse) \in Bytes /\ Tail(mouse) \in Seq(Answer \cup PacketByte)
      BY SeqFacts DEF BytesTyped, Bytes
    <2>2. [dev |-> "configuration"] \in Bytes
      BY DEF Bytes, Answer
    <2>3. \A byte \in Bytes : <<byte>> \in Seq(Bytes)
      OBVIOUS
    <2>4. port' \in Seq(Bytes)
      BY <1>4, <2>1, <2>2, <2>3 DEF Deliver, Arrives
    <2> QED BY <1>4, <2>1, <2>4 DEF Deliver, Arrives, userVars, BytesTyped
  <1>5. CASE ps2mouse_init
    <2>1. CASE Asks /\ UNCHANGED <<port, last, pending, configuration>>
      <3>1. \A answer \in {"acknowledge", "resend"} : [dev |-> answer] \in Answer \cup PacketByte
        BY DEF Answer
      <3>2. mouse' \in Seq(Answer \cup PacketByte) /\ reply' \in BOOLEAN
        BY <2>1, <3>1, SeqFacts DEF Asks, MouseAnswers, BytesTyped
      <3> QED BY <1>5, <2>1, <3>2 DEF ps2mouse_init, BytesTyped
    <2>2. CASE Reads /\ UNCHANGED <<reply, mouse>>
      <3>1. ReadPort
        BY <2>2 DEF Reads, Poll
      <3>2. port' \in Seq(Bytes) /\ last' \in Bytes
        BY <3>1, SeqFacts DEF ReadPort, Value, BytesTyped
      <3> QED BY <1>5, <2>2, <3>2 DEF ps2mouse_init, BytesTyped
    <2> QED BY <1>5, <2>1, <2>2 DEF ps2mouse_init
  <1>6. CASE TimesOut
    BY <1>6 DEF TimesOut, userVars, BytesTyped
  <1>7. ASSUME ReadPort PROVE port' \in Seq(Bytes) /\ last' \in Bytes
    BY <1>7 DEF ReadPort, Value, BytesTyped
  <1>8. CASE KeyboardInterrupt
    BY <1>7, <1>8 DEF KeyboardInterrupt, BytesTyped
  <1>9. CASE MouseInterrupt
    BY <1>7, <1>9 DEF MouseInterrupt, BytesTyped
  <1>10. CASE ReadInput
    BY <1>10 DEF ReadInput, deviceVars, BytesTyped
  <1>11. CASE UNCHANGED inputVars
    BY <1>11 DEF inputVars, deviceVars, userVars, BytesTyped
  <1> QED BY <1>1, <1>2, <1>3, <1>4, <1>5, <1>6, <1>8, <1>9, <1>10, <1>11 DEF InputNext

(* A scan code puts a character into the buffer, or nothing.               *)
LEMMA TypedType ==
  ASSUME NEW code \in ScanCode
  PROVE  Typed(code) \in Chars \cup {Nul}
  <1>1. code.key \in Letter \cup Other \/ code.key \in ShiftKeys \cup {CapsLock} \/ code.key = BackspaceKey
    BY DEF ScanCode, Key
  <1>2. /\ Erase \in Chars
        /\ \A k \in Letter \cup Other : Normal[k] \in Chars \cup {Nul} /\ Shifted[k] \in Chars \cup {Nul}
    BY KeyboardAssumption
  <1> QED BY <1>1, <1>2 DEF Typed, CharOf

(* Whatever byte the keyboard's handler reads, it takes for a scan code.   *)
LEMMA ScanCodeType ==
  ASSUME BytesTyped, NEW code \in AsScanCode(Value)
  PROVE  code \in ScanCode
  <1>1. Value \in Bytes
    BY DEF Value, BytesTyped
  <1>2. Value.dev = "key" => Value.code \in ScanCode
    BY <1>1 DEF Bytes, KeyByte, Answer, PacketByte
  <1> QED BY <1>2 DEF AsScanCode, ScanCode, Key

(* Every step is one of the buffer's, or leaves the buffer alone.          *)
LEMMA BufferStep == BytesTyped /\ [InputNext]_inputVars => [Next]_vars
  <1> SUFFICES ASSUME BytesTyped, [InputNext]_inputVars PROVE [Next]_vars
    OBVIOUS
  <1>1. CASE KeyboardInterrupt
    <2>1. PICK code \in AsScanCode(Value) : keyboard_interrupt(code)
      BY <1>1 DEF KeyboardInterrupt
    <2>2. Typed(code) \in Chars \cup {Nul}
      BY ScanCodeType, TypedType
    <2> QED BY <2>1, <2>2 DEF keyboard_interrupt, Next, ringVars, vars
  <1>2. CASE ReadInput
    BY <1>2 DEF ReadInput, Next
  <1>3. CASE UNCHANGED inputVars
    BY <1>3 DEF inputVars, ringVars, vars
  <1>4. CASE KeyMoves \/ MouseMoves \/ MouseByteLost \/ Deliver \/ ps2mouse_init \/ TimesOut \/ MouseInterrupt
    BY <1>4 DEF KeyMoves, MouseMoves, MouseByteLost, Deliver, ps2mouse_init, TimesOut,
                MouseInterrupt, ringVars, vars
  <1> QED BY <1>1, <1>2, <1>3, <1>4 DEF InputNext

LEMMA InputIsBuffer == InputSpec => Spec
  <1>1. InputInit => input_buffer_init
    BY DEF InputInit
  <1>2. InputSpec => []BytesTyped
    BY BytesInit, BytesStep, PTL DEF InputSpec
  <1> QED BY <1>1, <1>2, BufferStep, PTL DEF InputSpec, Spec

(* Between the keyboard's interrupt and the console's system calls, with   *)
(* the mouse on the same port, the buffer is the bounded first-in          *)
(* first-out queue of module InputQueue.                                   *)
THEOREM InputImplementsQueue == InputSpec => ImplementsQueue
  BY InputIsBuffer, InputBufferImplementsQueue
-----------------------------------------------------------------------------
(* Where ps2mouse_init has taken a key press for the controller's answer,  *)
(* that answer is still to come, or lies in the port where nothing reads   *)
(* it: the mouse's answers cannot pass it.                                 *)
AnswerInPort == port # <<>> /\ port[1].dev = "configuration"
AnswerBlocks == /\ at = "getConfiguration" => reply \/ AnswerInPort
                /\ at \in {"setConfiguration", "defaults", "defaultsSet", "reporting"}
                     => \/ configuration = "configuration"
                        \/ reply /\ port = <<>>
                        \/ AnswerInPort
                /\ ConfigurationKept

LEMMA AnswerBlocksInit == InputInit => AnswerBlocks
  BY DEF InputInit, AnswerBlocks, ConfigurationKept

LEMMA AnswerBlocksStep == AnswerBlocks /\ [InputNext]_inputVars => AnswerBlocks'
  <1> SUFFICES ASSUME AnswerBlocks, [InputNext]_inputVars PROVE AnswerBlocks'
    OBVIOUS
  <1> USE DEF AnswerInPort, ConfigurationKept
  <1>1. CASE KeyMoves \/ MouseMoves \/ MouseByteLost
    BY <1>1 DEF KeyMoves, MouseMoves, MouseByteLost, AnswerBlocks
  <1>2. CASE Deliver
    <2>1. UNCHANGED <<at, configuration>> /\ port = <<>>
      BY <1>2 DEF Deliver, Arrives, userVars
    <2>2. reply => port'[1].dev = "configuration" /\ port' # <<>>
      BY <1>2 DEF Deliver, Arrives
    <2> QED BY <2>1, <2>2 DEF AnswerBlocks
  <1>3. CASE ps2mouse_init
    <2>1. CASE Asks /\ UNCHANGED <<port, last, pending, configuration>>
      BY <2>1 DEF Asks, AnswerBlocks
    <2>2. CASE Reads /\ UNCHANGED <<reply, mouse>>
      <3>1. CASE at = "getConfiguration" /\ Poll(FALSE) /\ configuration' = port[1].dev /\ at' = After
        BY <2>2, <3>1 DEF Poll, ReadPort, After, AnswerBlocks
      <3>2. CASE at \in {"defaults", "reporting"} /\ Poll(TRUE) /\ at' = After /\ UNCHANGED configuration
        <4>1. configuration = "configuration"
          BY <3>2 DEF Poll, AnswerBlocks
        <4> QED BY <3>2, <4>1 DEF After, AnswerBlocks
      <3> QED BY <2>2, <3>1, <3>2 DEF Reads
    <2> QED BY <1>3, <2>1, <2>2 DEF ps2mouse_init
  <1>4. CASE TimesOut
    BY <1>4 DEF TimesOut, AnswerBlocks
  <1>5. CASE KeyboardInterrupt \/ MouseInterrupt \/ ReadInput
    BY <1>5 DEF KeyboardInterrupt, MouseInterrupt, ReadInput, deviceVars, AnswerBlocks
  <1>6. CASE UNCHANGED inputVars
    BY <1>6 DEF inputVars, deviceVars, userVars, AnswerBlocks
  <1> QED BY <1>1, <1>2, <1>3, <1>4, <1>5, <1>6 DEF InputNext

(* The kernel never runs with a configuration of the controller that the   *)
(* controller did not give, however many keys are pressed while            *)
(* ps2mouse_init polls the port.                                           *)
THEOREM InputConfigurationKept == InputSpec => []ConfigurationKept
  <1>1. AnswerBlocks => ConfigurationKept
    BY DEF AnswerBlocks
  <1> QED BY <1>1, AnswerBlocksInit, AnswerBlocksStep, PTL DEF InputSpec

-----------------------------------------------------------------------------
(* Packets.  Of two bytes the mouse sent one after the other, the second   *)
(* continues the packet of the first, or begins another.                   *)
Continues(b, c) == c.packet = b.packet /\ c.place = b.place + 1
FromMouse(q) == q # <<>> /\ q[1].dev = "mouse"

(* What follows byte b is not the rest of its packet.                      *)
Torn(b, q) == b.place < 3 /\ ~(FromMouse(q) /\ Continues(b, q[1].byte))

(* The mouse loses the byte it would send next: so what it still has to    *)
(* send is in order, and ends with a packet's end.                         *)
InOrder(q) ==
  \A i \in 1 .. Len(q) : q[i].dev = "mouse" =>
    /\ q[i].byte.packet # 0
    /\ q[i].byte.place = 1 => q[i].byte.bit3
    /\ q[i].byte.place < 3 => i + 1 <= Len(q) /\ q[i + 1].dev = "mouse" /\ Continues(q[i].byte, q[i + 1].byte)

(* What does not continue a packet begins one.                             *)
Fresh(q) ==
  \A i \in 1 .. Len(q) : i + 1 <= Len(q) /\ q[i + 1].dev = "mouse" /\ (q[i].dev = "mouse" => q[i].byte.place = 3)
                         => q[i + 1].byte.place = 1

(* The bytes collected are not the first ones of a packet, or what comes   *)
(* next is not the following one; and the byte in the port will not be     *)
(* followed by the rest of its packet.  These are the only two places      *)
(* where a disturbance can still do harm.                                  *)
Collected(b) == \A i \in 1 .. Len(b) : b[i].place = i /\ b[i].packet = b[1].packet /\ b[i].packet # 0
Coming == IF FromMouse(port) THEN port ELSE mouse
PacketAstray == mouse_packet # <<>> /\ (~Collected(mouse_packet) \/ Torn(mouse_packet[Len(mouse_packet)], Coming))
PortAstray == FromMouse(port) /\ Torn(port[1].byte, mouse)

Times(b) == IF b THEN 1 ELSE 0

(* The harm that can have been done: none before the first disturbance,    *)
(* then one for each, and for each byte that looks like a first one.       *)
Account == IF disturbed = 0 THEN 0 ELSE disturbed + alike

Alignment ==
  /\ garbled \in Nat /\ disturbed \in Nat /\ alike \in Nat
  /\ mouse_packet \in Seq(MouseByte) /\ Len(mouse_packet) < 3
  /\ at \notin {"running", "halted"} => mouse_packet = <<>>
  /\ Len(port) <= 1
  /\ FromMouse(port) => port[1].byte.packet # 0 /\ (port[1].byte.place = 1 => port[1].byte.bit3)
  /\ InOrder(mouse)
  /\ garbled + Times(PacketAstray) + Times(PortAstray) <= Account

(* Before the first disturbance, the handler waits for the beginning of a  *)
(* packet when one comes.                                                  *)
Beginnings ==
  /\ Fresh(mouse)
  /\ disturbed = 0 /\ at # "halted" =>
       /\ mouse_packet = <<>> /\ FromMouse(Coming) => Coming[1].byte.place = 1
       /\ FromMouse(port) /\ port[1].byte.place = 3 /\ FromMouse(mouse) => mouse[1].byte.place = 1

LEMMA ByteType ==
  ASSUME NEW b \in Bytes, b.dev = "mouse"
  PROVE  b.byte \in MouseByte
  BY DEF Bytes, KeyByte, Answer, PacketByte

LEMMA OrderOfTail ==
  ASSUME NEW S, NEW q \in Seq(S), q # <<>>, InOrder(q)
  PROVE  /\ InOrder(Tail(q))
         /\ FromMouse(q) => ~Torn(q[1].byte, Tail(q))
  <1> DEFINE t == Tail(q)
  <1>1. Len(q) \in Nat \ {0} /\ Len(t) = Len(q) - 1 /\ \A i \in 1 .. Len(t) : t[i] = q[i + 1]
    OBVIOUS
  <1>2. t = <<>> <=> Len(t) = 0
    <2>1. t \in Seq(S) /\ \A x \in Seq(S) : x = <<>> <=> Len(x) = 0
      OBVIOUS
    <2> QED BY <2>1
  <1> HIDE DEF t
  <1>3. InOrder(t)
    <2> SUFFICES ASSUME NEW i \in 1 .. Len(t), t[i].dev = "mouse"
                 PROVE  /\ t[i].byte.packet # 0
                        /\ t[i].byte.place = 1 => t[i].byte.bit3
                        /\ t[i].byte.place < 3 => i + 1 <= Len(t) /\ t[i + 1].dev = "mouse" /\ Continues(t[i].byte, t[i + 1].byte)
      BY DEF InOrder
    <2>1. i + 1 \in 1 .. Len(q) /\ t[i] = q[i + 1]
      BY <1>1
    <2>2. i + 1 <= Len(t) => t[i + 1] = q[i + 2]
      BY <1>1
    <2>3. (i + 1) + 1 = i + 2 /\ (i + 2 <= Len(q) => i + 1 <= Len(t))
      BY <1>1
    <2> QED BY <2>1, <2>2, <2>3 DEF InOrder
  <1>4. ASSUME FromMouse(q), q[1].byte.place < 3
        PROVE  FromMouse(t) /\ Continues(q[1].byte, t[1].byte)
    <2>1. 1 + 1 <= Len(q) /\ q[1 + 1].dev = "mouse" /\ Continues(q[1].byte, q[1 + 1].byte)
      BY <1>1, <1>4 DEF InOrder, FromMouse
    <2> QED BY <1>1, <1>2, <2>1 DEF FromMouse
  <1> QED BY <1>3, <1>4 DEF Torn, t

(* The bytes of a packet, or an answer, behind those that wait.            *)
LEMMA OrderOfAppended ==
  ASSUME NEW S, NEW q \in Seq(S), NEW s \in Seq(S), InOrder(q), InOrder(s),
         s # <<>>, FromMouse(s) => s[1].byte.place = 1
  PROVE  /\ InOrder(q \o s)
         /\ \A b \in MouseByte : Torn(b, q \o s) <=> Torn(b, q)
  <1> DEFINE a == q \o s
  <1>1. /\ Len(q) \in Nat /\ Len(s) \in Nat \ {0} /\ Len(a) = Len(q) + Len(s)
        /\ \A i \in 1 .. Len(q) : a[i] = q[i]
        /\ \A i \in 1 .. Len(s) : a[Len(q) + i] = s[i]
    OBVIOUS
  <1>2. a # <<>> /\ (q = <<>> <=> Len(q) = 0)
    OBVIOUS
  <1> HIDE DEF a
  <1>3. InOrder(a)
    <2> SUFFICES ASSUME NEW i \in 1 .. Len(a), a[i].dev = "mouse"
                 PROVE  /\ a[i].byte.packet # 0
                        /\ a[i].byte.place = 1 => a[i].byte.bit3
                        /\ a[i].byte.place < 3 => i + 1 <= Len(a) /\ a[i + 1].dev = "mouse" /\ Continues(a[i].byte, a[i + 1].byte)
      BY DEF InOrder
    <2>1. CASE i \in 1 .. Len(q)
      <3>1. a[i] = q[i] /\ (i + 1 <= Len(q) => a[i + 1] = q[i + 1])
        BY <1>1, <2>1
      <3>2. i + 1 <= Len(q) => i + 1 <= Len(a)
        BY <1>1
      <3> QED BY <2>1, <3>1, <3>2 DEF InOrder
    <2>2. CASE i \notin 1 .. Len(q)
      <3> DEFINE j == i - Len(q)
      <3>1. j \in 1 .. Len(s) /\ i = Len(q) + j
        BY <1>1, <2>2
      <3>2. a[i] = s[j] /\ (j + 1 <= Len(s) => i + 1 <= Len(a) /\ a[i + 1] = s[j + 1])
        <4>1. i + 1 = Len(q) + (j + 1)
          BY <1>1, <3>1
        <4>2. j + 1 <= Len(s) => j + 1 \in 1 .. Len(s) /\ i + 1 <= Len(a)
          BY <1>1, <3>1
        <4> HIDE DEF j
        <4> QED BY <1>1, <3>1, <4>1, <4>2
      <3> HIDE DEF j
      <3> QED BY <3>1, <3>2 DEF InOrder
    <2> QED BY <2>1, <2>2
  <1>4. ASSUME NEW b \in MouseByte
        PROVE  Torn(b, a) <=> Torn(b, q)
    <2>1. CASE q # <<>>
      <3>1. a[1] = q[1]
        BY <1>1, <1>2, <2>1
      <3> QED BY <1>2, <2>1, <3>1 DEF Torn, FromMouse
    <2>2. CASE q = <<>>
      <3>1. a[1] = s[1]
        <4>1. Len(q) = 0 /\ 1 \in 1 .. Len(s)
          BY <1>1, <1>2, <2>2
        <4>2. a[Len(q) + 1] = s[1] /\ Len(q) + 1 = 1
          BY <1>1, <4>1
        <4> QED BY <4>2
      <3>2. b.place \in 1 .. 3
        BY DEF MouseByte
      <3> QED BY <1>2, <2>2, <3>1, <3>2 DEF Torn, FromMouse, Continues
    <2> QED BY <2>1, <2>2
  <1> QED BY <1>3, <1>4 DEF a

LEMMA PacketInOrder ==
  ASSUME NEW n \in Nat \ {0}, NEW movement \in Movements
  PROVE  /\ InOrder(PacketSent(n, movement)) /\ Fresh(PacketSent(n, movement))
         /\ PacketSent(n, movement) # <<>>
         /\ PacketSent(n, movement)[1].byte.place = 1
  <1> DEFINE s == PacketSent(n, movement)
  <1>1. Len(s) = 3 /\ s # <<>>
    BY DEF PacketSent
  <1>2. \A i \in 1 .. 3 : /\ s[i].dev = "mouse" /\ s[i].byte.packet = n /\ s[i].byte.place = i
                          /\ i = 1 => s[i].byte.bit3
    BY MovementsAssumption DEF PacketSent
  <1> HIDE DEF s
  <1>3. InOrder(s)
    BY <1>1, <1>2 DEF InOrder, Continues
  <1>4. Fresh(s)
    BY <1>1, <1>2 DEF Fresh
  <1> QED BY <1>1, <1>2, <1>3, <1>4 DEF s

LEMMA AnswerInOrder ==
  ASSUME NEW x, x.dev # "mouse"
  PROVE  InOrder(<<x>>) /\ Fresh(<<x>>) /\ ~FromMouse(<<x>>) /\ <<x>> # <<>>
  BY DEF InOrder, Fresh, FromMouse

LEMMA Appended ==
  ASSUME NEW S, NEW s \in Seq(S), NEW x \in S
  PROVE  /\ Len(s) \in Nat /\ Append(s, x) \in Seq(S) /\ Len(Append(s, x)) = Len(s) + 1
         /\ \A i \in 1 .. Len(s) : Append(s, x)[i] = s[i] /\ s[i] \in S
         /\ Append(s, x)[Len(s) + 1] = x
         /\ s = <<>> <=> Len(s) = 0
  OBVIOUS

(* The three things a byte can do: nothing, be collected, or end a packet. *)
LEMMA ByteHandled ==
  ASSUME mouse_packet \in Seq(MouseByte), Len(mouse_packet) < 3, garbled \in Nat,
         NEW value \in MouseByte, ps2mouse_interrupt(value)
  PROVE  /\ mouse_packet' \in Seq(MouseByte) /\ Len(mouse_packet') < 3 /\ garbled' \in Nat
         /\ \/ /\ mouse_packet = <<>> /\ mouse_packet' = <<>> /\ ~value.bit3 /\ garbled' = garbled
            \/ /\ mouse_packet' = Append(mouse_packet, value) /\ garbled' = garbled
               /\ mouse_packet = <<>> => value.bit3
            \/ /\ Len(mouse_packet) = 2 /\ mouse_packet' = <<>>
               /\ garbled' = garbled \/ (garbled' = garbled + 1 /\ ~Whole(Append(mouse_packet, value)))
  <1> DEFINE p == Append(mouse_packet, value)
  <1>1. p \in Seq(MouseByte) /\ Len(p) = Len(mouse_packet) + 1 /\ Len(mouse_packet) \in Nat
    BY Appended
  <1>2. CASE mouse_packet = <<>> /\ ~value.bit3
    BY <1>2 DEF ps2mouse_interrupt, Begins, mouseVars
  <1>3. CASE ~(mouse_packet = <<>> /\ ~value.bit3) /\ Len(p) # 3
    <2>1. mouse_packet' = p /\ garbled' = garbled
      BY <1>3 DEF ps2mouse_interrupt, Begins
    <2>2. Len(p) < 3
      BY <1>1, <1>3
    <2> QED BY <1>1, <1>3, <2>1, <2>2
  <1>4. CASE ~(mouse_packet = <<>> /\ ~value.bit3) /\ Len(p) = 3
    <2>1. mouse_packet' = <<>> /\ (garbled' = garbled \/ (garbled' = garbled + 1 /\ ~Whole(p)))
      BY <1>4 DEF ps2mouse_interrupt, Begins
    <2>2. Len(mouse_packet) = 2
      <3>1. \A a \in Nat : a + 1 = 3 => a = 2
        OBVIOUS
      <3>2. Len(mouse_packet) + 1 = 3
        BY <1>1, <1>4, Zenon
      <3> QED BY ONLY <1>1, <3>1, <3>2, Zenon
    <2>3. <<>> \in Seq(MouseByte) /\ Len(<<>>) = 0
      OBVIOUS
    <2> QED BY <2>1, <2>2, <2>3
  <1> QED BY <1>2, <1>3, <1>4

(* A byte that is not the next one of the mouse's does one harm at most.   *)
LEMMA StrangeByte ==
  ASSUME mouse_packet \in Seq(MouseByte), Len(mouse_packet) < 3, garbled \in Nat,
         NEW value \in MouseByte, ps2mouse_interrupt(value)
  PROVE  garbled' + Times(PacketAstray') <= garbled + Times(PacketAstray) + 1
  <1>1. CASE mouse_packet' = <<>>
    <2>1. ~PacketAstray'
      BY <1>1 DEF PacketAstray
    <2> QED BY <2>1, ByteHandled DEF Times
  <1>2. CASE mouse_packet' # <<>>
    <2>1. garbled' = garbled
      BY <1>2, ByteHandled
    <2> QED BY <2>1 DEF Times
  <1> QED BY <1>1, <1>2

(* The next byte of the mouse's does none that was not done before.        *)
LEMMA NextByte ==
  ASSUME Alignment, NEW value \in MouseByte, FromMouse(port), value = port[1].byte,
         value.packet # 0, value.place = 1 => value.bit3,
         ps2mouse_interrupt(value), ~FromMouse(port'), mouse' = mouse
  PROVE  garbled' + Times(PacketAstray')
           <= garbled + Times(PacketAstray) + Times(PortAstray)
              + Times(mouse_packet = <<>> /\ value.place # 1 /\ value.bit3)
  <1> USE DEF Alignment
  <1>0. Coming = port /\ Coming' = mouse /\ (PortAstray <=> Torn(value, mouse))
    BY DEF Coming, PortAstray
  <1>1. CASE mouse_packet' = <<>> /\ garbled' = garbled
    <2>1. ~PacketAstray'
      BY <1>1 DEF PacketAstray
    <2> QED BY <1>1, <2>1 DEF Times
  <1>2. CASE mouse_packet = <<>> /\ mouse_packet' = Append(mouse_packet, value) /\ garbled' = garbled /\ value.bit3
    <2>1. mouse_packet' = <<value>>
      BY <1>2
    <2>2. value.place = 1 => Collected(mouse_packet')
      <3>1. Len(<<value>>) = 1 /\ <<value>>[1] = value
        OBVIOUS
      <3> QED BY <2>1, <3>1 DEF Collected
    <2>3. Len(mouse_packet') = 1 /\ mouse_packet'[1] = value
      BY <2>1
    <2>4. PacketAstray' => PortAstray \/ (mouse_packet = <<>> /\ value.place # 1 /\ value.bit3)
      BY <1>0, <1>2, <2>2, <2>3 DEF PacketAstray
    <2> QED BY <1>2, <2>4 DEF Times
  <1>3. CASE mouse_packet # <<>> /\ mouse_packet' = Append(mouse_packet, value) /\ garbled' = garbled
    <2> DEFINE m == mouse_packet[1]
    <2>1. Len(mouse_packet) = 1 /\ m \in MouseByte
      <3>1. Len(mouse_packet') = Len(mouse_packet) + 1 /\ Len(mouse_packet) \in Nat /\ Len(mouse_packet) # 0
        BY <1>3, Appended
      <3>2. Len(mouse_packet') < 3
        BY ByteHandled
      <3>3. Len(mouse_packet) = 1
        <4>1. \A a \in Nat : a # 0 /\ a + 1 < 3 => a = 1
          OBVIOUS
        <4>2. Len(mouse_packet) + 1 < 3
          BY ONLY <3>1, <3>2, Zenon
        <4> QED BY ONLY <3>1, <4>1, <4>2, Zenon
      <3> QED BY <3>3, Appended
    <2>2. Len(mouse_packet') = 2 /\ mouse_packet'[1] = m /\ mouse_packet'[2] = value
      <3>1. \A i \in 1 .. Len(mouse_packet) : Append(mouse_packet, value)[i] = mouse_packet[i]
        BY Appended
      <3>2. Append(mouse_packet, value)[Len(mouse_packet) + 1] = value
        BY Appended
      <3>3. Len(Append(mouse_packet, value)) = 1 + 1
        <4>1. Len(Append(mouse_packet, value)) = Len(mouse_packet) + 1
          BY Appended
        <4> QED BY <2>1, <4>1, Zenon
      <3>4. mouse_packet'[1] = m /\ mouse_packet'[1 + 1] = value
        BY <1>3, <2>1, <3>1, <3>2
      <3> QED BY <1>3, <3>3, <3>4
    <2>3. ASSUME ~PacketAstray
          PROVE  Collected(mouse_packet')
      <3>1. Collected(mouse_packet) /\ ~Torn(m, port)
        BY <1>0, <1>3, <2>1, <2>3 DEF PacketAstray
      <3>2. m.place = 1 /\ m.packet # 0
        BY <2>1, <3>1 DEF Collected
      <3>3. Continues(m, value)
        BY <3>1, <3>2 DEF Torn
      <3> HIDE DEF m
      <3> QED BY <2>2, <3>2, <3>3 DEF Collected, Continues
    <2>4. PacketAstray' => PacketAstray \/ PortAstray
      BY <1>0, <2>2, <2>3 DEF PacketAstray
    <2> QED BY <1>3, <2>4 DEF Times
  <1>4. CASE /\ Len(mouse_packet) = 2 /\ mouse_packet' = <<>>
             /\ garbled' = garbled + 1 /\ ~Whole(Append(mouse_packet, value))
    <2> DEFINE m == mouse_packet[1]
               n == mouse_packet[2]
               p == Append(mouse_packet, value)
    <2>1. ~PacketAstray'
      BY <1>4 DEF PacketAstray
    <2>2. mouse_packet # <<>> /\ n \in MouseByte
      <3>1. 2 \in 1 .. 2 /\ 2 # 0
        OBVIOUS
      <3>3. mouse_packet \in Seq(MouseByte) /\ Len(mouse_packet) = 2
        BY <1>4
      <3>2. \A i \in 1 .. 2 : mouse_packet[i] \in MouseByte
        BY ONLY <3>3, Appended, Zenon
      <3> QED BY <1>4, <3>1, <3>2, Appended
    <2>3. p[1] = m /\ p[2] = n /\ p[3] = value
      <3>1. \A i \in 1 .. Len(mouse_packet) : Append(mouse_packet, value)[i] = mouse_packet[i]
        BY Appended
      <3>2. Append(mouse_packet, value)[Len(mouse_packet) + 1] = value
        BY Appended
      <3>3. 1 \in 1 .. 2 /\ 2 \in 1 .. 2 /\ 2 + 1 = 3
        OBVIOUS
      <3> QED BY ONLY <1>4, <3>1, <3>2, <3>3
    <2>4. ASSUME ~PacketAstray
          PROVE  FALSE
      <3>1. Collected(mouse_packet) /\ ~Torn(n, port)
        BY <1>0, <1>4, <2>2, <2>4 DEF PacketAstray
      <3>2. m.place = 1 /\ m.packet # 0 /\ n.place = 2 /\ n.packet = m.packet
        BY <1>4, <3>1 DEF Collected
      <3>3. value.place = 3 /\ value.packet = m.packet
        BY <3>1, <3>2 DEF Torn, Continues
      <3> HIDE DEF m, n, p
      <3>4. Whole(p)
        BY <2>3, <3>2, <3>3 DEF Whole
      <3> QED BY <1>4, <3>4 DEF p
    <2> QED BY <1>4, <2>1, <2>4 DEF Times
  <1> QED BY <1>1, <1>2, <1>3, <1>4, ByteHandled

(* More bytes behind those that wait in the mouse harm nothing.            *)
LEMMA MoreToCome ==
  ASSUME Alignment, BytesTyped, NEW s \in Seq(Answer \cup PacketByte), InOrder(s), s # <<>>,
         FromMouse(s) => s[1].byte.place = 1, mouse' = mouse \o s,
         UNCHANGED <<mouse_packet, garbled, port, disturbed, alike>>, at' \in {at, "running", "halted"} \/ mouse_packet = <<>>
  PROVE  Alignment'
  <1>1. InOrder(mouse \o s) /\ \A b \in MouseByte : Torn(b, mouse \o s) <=> Torn(b, mouse)
    BY OrderOfAppended DEF Alignment, BytesTyped
  <1>2. FromMouse(port) => port[1].byte \in MouseByte
    <2>1. FromMouse(port) => port[1] \in Bytes
      BY DEF FromMouse, BytesTyped
    <2> QED BY <2>1, ByteType DEF FromMouse
  <1>3. mouse_packet # <<>> => mouse_packet[Len(mouse_packet)] \in MouseByte
    BY DEF Alignment
  <1>4. PortAstray' <=> PortAstray
    BY <1>1, <1>2 DEF PortAstray
  <1>5. PacketAstray' <=> PacketAstray
    <2>1. CASE FromMouse(port)
      BY <2>1 DEF PacketAstray, Coming
    <2>2. CASE ~FromMouse(port)
      <3>1. Coming = mouse /\ Coming' = mouse'
        BY <2>2 DEF Coming
      <3> QED BY <1>1, <1>3, <3>1 DEF PacketAstray
    <2> QED BY <2>1, <2>2
  <1>6. InOrder(mouse')
    BY <1>1
  <1> QED BY <1>4, <1>5, <1>6 DEF Alignment, Account

LEMMA LostByte ==
  ASSUME Alignment, BytesTyped, MouseByteLost
  PROVE  Alignment'
  <1>1. /\ UNCHANGED <<at, mouse_packet, garbled, port, alike>> /\ disturbed' = disturbed + 1
        /\ mouse # <<>> /\ mouse' = Tail(mouse)
    BY DEF MouseByteLost, mouseVars
  <1>2. InOrder(mouse')
    BY <1>1, OrderOfTail DEF Alignment, BytesTyped
  <1>3. Times(PacketAstray') + Times(PortAstray') <= Times(PacketAstray) + Times(PortAstray) + 1
    <2>1. CASE FromMouse(port)
      <3>1. PacketAstray' <=> PacketAstray
        BY <1>1, <2>1 DEF PacketAstray, Coming
      <3> QED BY <3>1 DEF Times
    <2>2. CASE ~FromMouse(port)
      <3>1. ~PortAstray'
        BY <1>1, <2>2 DEF PortAstray
      <3> QED BY <3>1 DEF Times
    <2> QED BY <2>1, <2>2
  <1>4. garbled' + Times(PacketAstray') + Times(PortAstray') <= Account'
    <2>1. /\ garbled \in Nat /\ Account \in Nat
          /\ Times(PacketAstray) \in Nat /\ Times(PortAstray) \in Nat
          /\ Times(PacketAstray') \in Nat /\ Times(PortAstray') \in Nat
      BY DEF Times, Alignment, Account
    <2>2. Account' \in Nat /\ Account + 1 <= Account'
      BY <1>1 DEF Alignment, Account
    <2>3. garbled' = garbled /\ garbled + Times(PacketAstray) + Times(PortAstray) <= Account
      BY <1>1 DEF Alignment
    <2> QED BY ONLY <1>3, <2>1, <2>2, <2>3
  <1> QED BY <1>1, <1>2, <1>4 DEF Alignment

LEMMA DeliveryKeepsAlignment ==
  ASSUME Alignment, BytesTyped, Deliver
  PROVE  Alignment'
  <1>1. /\ UNCHANGED <<at, mouse_packet, garbled, disturbed, alike>> /\ port = <<>>
        /\ \E byte : port' = <<byte>>
    BY DEF Deliver, Arrives, mouseVars, userVars
  <1>0. Len(port') <= 1
    BY <1>1
  <1>2. ~PortAstray /\ Coming = mouse
    BY <1>1 DEF PortAstray, Coming, FromMouse
  <1>3. ASSUME NEW x, x.dev # "mouse", port' = <<x>>, mouse' = mouse
        PROVE  Alignment'
    <2>1. ~FromMouse(port') /\ Coming' = mouse
      BY <1>3 DEF FromMouse, Coming
    <2>2. ~PortAstray' /\ (PacketAstray' <=> PacketAstray)
      BY <1>1, <1>2, <2>1 DEF PortAstray, PacketAstray
    <2>3. garbled' + Times(PacketAstray') + Times(PortAstray') <= Account'
      BY <1>1, <1>2, <2>2 DEF Alignment, Account, Times
    <2> QED BY <1>0, <1>1, <1>3, <2>1, <2>3 DEF Alignment
  <1>4. ASSUME mouse # <<>>, port' = <<Head(mouse)>>, mouse' = Tail(mouse)
        PROVE  Alignment'
    <2>1. InOrder(Tail(mouse)) /\ (FromMouse(mouse) => ~Torn(mouse[1].byte, Tail(mouse)))
      BY <1>4, OrderOfTail DEF Alignment, BytesTyped
    <2>2. port'[1] = mouse[1] /\ port' # <<>>
      BY <1>4
    <2>3. FromMouse(port') <=> FromMouse(mouse)
      BY <1>4, <2>2 DEF FromMouse
    <2>4. ~PortAstray'
      BY <1>4, <2>1, <2>2, <2>3 DEF PortAstray
    <2>5. PacketAstray' => PacketAstray
      <3>1. CASE FromMouse(mouse)
        <4>1. Coming' = port'
          BY <2>3, <3>1 DEF Coming
        <4>2. \A b : Torn(b, port') <=> Torn(b, mouse)
          BY <2>2, <2>3 DEF Torn
        <4> QED BY <1>1, <1>2, <4>1, <4>2 DEF PacketAstray
      <3>2. CASE ~FromMouse(mouse)
        <4>1. \A b, q : Torn(b, q) => Torn(b, mouse)
          BY <3>2 DEF Torn
        <4> QED BY <1>1, <1>2, <4>1 DEF PacketAstray
      <3> QED BY <3>1, <3>2
    <2>6. FromMouse(port') => port'[1].byte.packet # 0 /\ (port'[1].byte.place = 1 => port'[1].byte.bit3)
      <3>1. mouse # <<>> => 1 \in 1 .. Len(mouse)
        BY DEF BytesTyped
      <3> QED BY <1>4, <2>2, <2>3, <3>1 DEF InOrder, Alignment, FromMouse
    <2>7. garbled' + Times(PacketAstray') + Times(PortAstray') <= Account'
      BY <1>1, <1>2, <2>4, <2>5 DEF Alignment, Account, Times
    <2> QED BY <1>0, <1>1, <1>4, <2>1, <2>6, <2>7 DEF Alignment
  <1>5. [dev |-> "configuration"].dev # "mouse"
    OBVIOUS
  <1>6. keys # <<>> => Head(keys).dev # "mouse"
    <2>1. keys # <<>> => Head(keys) \in KeyByte
      BY SeqFacts DEF BytesTyped
    <2> QED BY <2>1 DEF KeyByte
  <1> QED BY <1>3, <1>4, <1>5, <1>6 DEF Deliver, Arrives

(* Whatever byte the mouse's handler reads, it takes for one of the mouse. *)
LEMMA MouseByteType ==
  ASSUME BytesTyped, NEW value \in AsMouseByte(Value)
  PROVE  value \in MouseByte
  <1>0. Value \in Bytes
    BY DEF Value, BytesTyped
  <1>1. CASE Value.dev = "mouse"
    BY <1>0, <1>1, ByteType DEF AsMouseByte
  <1>2. CASE Value.dev # "mouse"
    <2>1. 0 \in 0 .. MaxPackets /\ 1 \in 1 .. 3
      BY PacketBound
    <2>2. \A v \in [packet : {0}, place : {1}, bit3 : BOOLEAN, overflow : BOOLEAN, left : BOOLEAN] :
            v \in MouseByte
      <3> SUFFICES ASSUME NEW v \in [packet : {0}, place : {1}, bit3 : BOOLEAN, overflow : BOOLEAN, left : BOOLEAN]
                   PROVE  v \in MouseByte
        OBVIOUS
      <3>1. /\ v = [packet |-> v.packet, place |-> v.place, bit3 |-> v.bit3,
                    overflow |-> v.overflow, left |-> v.left]
            /\ v.packet = 0 /\ v.place = 1 /\ v.bit3 \in BOOLEAN /\ v.overflow \in BOOLEAN /\ v.left \in BOOLEAN
        OBVIOUS
      <3>2. v.packet \in 0 .. MaxPackets /\ v.place \in 1 .. 3
        BY <2>1, <3>1
      <3> QED BY <3>1, <3>2, Zenon DEF MouseByte
    <2>3. \A v \in [packet : {0}, place : {1}, bit3 : {TRUE}, overflow : {TRUE}, left : {FALSE}] :
            v \in [packet : {0}, place : {1}, bit3 : BOOLEAN, overflow : BOOLEAN, left : BOOLEAN]
      OBVIOUS
    <2> QED BY <1>2, <2>2, <2>3 DEF AsMouseByte
  <1> QED BY <1>1, <1>2

(* A port that has been read is empty.                                     *)
LEMMA HandlersKeepAlignment ==
  ASSUME Alignment, Beginnings, BytesTyped, KeyboardInterrupt \/ MouseInterrupt
  PROVE  Alignment'
  <1>1. UNCHANGED <<at, mouse>> /\ port' = <<>> /\ at = "running"
    BY DEF KeyboardInterrupt, MouseInterrupt, ReadPort
  <1>2. ~FromMouse(port') /\ ~PortAstray' /\ Coming' = mouse
    BY <1>1 DEF FromMouse, PortAstray, Coming
  <1>3. Times(PortAstray') = 0 /\ Len(port') <= 1
    BY <1>1, <1>2 DEF Times
  <1>4. /\ garbled \in Nat /\ disturbed \in Nat /\ alike \in Nat /\ Account \in Nat
        /\ Times(PacketAstray) \in 0 .. 1 /\ Times(PortAstray) \in 0 .. 1 /\ Times(PacketAstray') \in 0 .. 1
        /\ garbled + Times(PacketAstray) + Times(PortAstray) <= Account
    BY DEF Times, Alignment, Account
  <1>10. ASSUME disturbed' = disturbed + 1, alike' = alike
        PROVE  Account' \in Nat /\ Account + 1 <= Account' /\ disturbed' \in Nat /\ alike' \in Nat
    BY <1>4, <1>10 DEF Account
  <1>5. FromMouse(port) => Value = port[1] /\ port # <<>> /\ Value.dev = "mouse"
    BY DEF FromMouse, Value
  <1>6. ~FromMouse(port) => ~(port # <<>> /\ Value.dev = "mouse")
    BY DEF FromMouse, Value
  <1>7. ASSUME KeyboardInterrupt
        PROVE  Alignment'
    <2>1. UNCHANGED <<mouse_packet, garbled, alike>>
      BY <1>7 DEF KeyboardInterrupt, mouseVars
    <2>2. CASE FromMouse(port)
      <3>1. disturbed' = disturbed + 1
        BY <1>5, <1>7, <2>2 DEF KeyboardInterrupt
      <3>2. garbled' + Times(PacketAstray') + Times(PortAstray') <= Account'
        BY <1>3, <1>4, <1>10, <2>1, <3>1
      <3> QED BY <1>1, <1>2, <1>3, <2>1, <3>1, <3>2 DEF Alignment
    <2>3. CASE ~FromMouse(port)
      <3>1. disturbed' = disturbed
        BY <1>6, <1>7, <2>3 DEF KeyboardInterrupt
      <3>2. PacketAstray' <=> PacketAstray
        BY <1>2, <2>1, <2>3 DEF PacketAstray, Coming
      <3>3. garbled' + Times(PacketAstray') + Times(PortAstray') <= Account'
        BY <1>3, <1>4, <2>1, <3>1, <3>2 DEF Times, Account
      <3> QED BY <1>1, <1>2, <1>3, <2>1, <3>1, <3>3 DEF Alignment
    <2> QED BY <2>2, <2>3
  <1>8. ASSUME MouseInterrupt
        PROVE  Alignment'
    <2>1. PICK value \in AsMouseByte(Value) : ps2mouse_interrupt(value)
      BY <1>8 DEF MouseInterrupt
    <2>2. Value \in Bytes
      BY DEF Value, BytesTyped
    <2>3. value \in MouseByte
      BY <2>1, MouseByteType
    <2>4. mouse_packet' \in Seq(MouseByte) /\ Len(mouse_packet') < 3 /\ garbled' \in Nat
      BY <2>1, <2>3, ByteHandled DEF Alignment
    <2>5. CASE FromMouse(port)
      <3>1. disturbed' = disturbed
        BY <1>5, <1>8, <2>5 DEF MouseInterrupt
      <3>2. value = port[1].byte
        BY <1>5, <2>1, <2>5 DEF AsMouseByte
      <3>6. alike' = IF value.place # 1 /\ value.bit3 THEN alike + 1 ELSE alike
        BY <1>5, <1>8, <2>5, <3>2 DEF MouseInterrupt
      <3>7. disturbed = 0 /\ mouse_packet = <<>> => value.place = 1
        BY <1>1, <2>5, <3>2 DEF Beginnings, Coming
      <3>8. Account' \in Nat /\ Account + Times(mouse_packet = <<>> /\ value.place # 1 /\ value.bit3) <= Account'
        BY <1>4, <3>1, <3>6, <3>7 DEF Account, Times
      <3>3. value.packet # 0 /\ (value.place = 1 => value.bit3)
        BY <2>5, <3>2 DEF Alignment
      <3>4. garbled' + Times(PacketAstray')
              <= garbled + Times(PacketAstray) + Times(PortAstray)
                 + Times(mouse_packet = <<>> /\ value.place # 1 /\ value.bit3)
        BY <1>1, <1>2, <2>1, <2>3, <2>5, <3>2, <3>3, NextByte
      <3>5. garbled' + Times(PacketAstray') + Times(PortAstray') <= Account'
        <4>1. Times(mouse_packet = <<>> /\ value.place # 1 /\ value.bit3) \in 0 .. 1
          BY DEF Times
        <4> QED BY <1>3, <1>4, <2>4, <3>4, <3>8, <4>1
      <3>9. alike' \in Nat /\ disturbed' \in Nat
        BY <1>4, <3>1, <3>6
      <3> QED BY <1>1, <1>2, <1>3, <2>4, <3>5, <3>9 DEF Alignment
    <2>6. CASE ~FromMouse(port)
      <3>1. disturbed' = disturbed + 1 /\ alike' = alike
        BY <1>6, <1>8, <2>6 DEF MouseInterrupt
      <3>2. garbled' + Times(PacketAstray') <= garbled + Times(PacketAstray) + 1
        BY <2>1, <2>3, StrangeByte DEF Alignment
      <3>3. garbled' + Times(PacketAstray') + Times(PortAstray') <= Account'
        BY <1>3, <1>4, <1>10, <2>4, <3>1, <3>2
      <3> QED BY <1>1, <1>2, <1>3, <1>10, <2>4, <3>1, <3>3 DEF Alignment
    <2> QED BY <2>5, <2>6
  <1> QED BY <1>7, <1>8

LEMMA AlignmentInit == InputInit => Alignment
  <1> SUFFICES ASSUME InputInit PROVE Alignment
    OBVIOUS
  <1>1. mouse_packet = <<>> /\ port = <<>> /\ mouse = <<>> /\ garbled = 0 /\ disturbed = 0 /\ alike = 0
    BY DEF InputInit
  <1>2. ~PacketAstray /\ ~PortAstray
    BY <1>1 DEF PacketAstray, PortAstray, FromMouse
  <1>3. InOrder(mouse)
    BY <1>1 DEF InOrder
  <1> QED BY <1>1, <1>2, <1>3 DEF Alignment, Account, Times, FromMouse

LEMMA AlignmentStep ==
  ASSUME Alignment, Beginnings, BytesTyped, [InputNext]_inputVars
  PROVE  Alignment'
  <1>1. ASSUME UNCHANGED <<mouse_packet, garbled, port, mouse, disturbed, alike>>, at' \in {at, "halted"}
        PROVE  Alignment'
    <2>1. (PacketAstray' <=> PacketAstray) /\ (PortAstray' <=> PortAstray)
      BY <1>1 DEF PacketAstray, PortAstray, Coming
    <2> QED BY <1>1, <2>1 DEF Alignment, Account, Times
  <1>2. CASE KeyMoves \/ TimesOut \/ ReadInput \/ UNCHANGED inputVars
    BY <1>1, <1>2 DEF KeyMoves, TimesOut, ReadInput, inputVars, mouseVars, userVars, deviceVars
  <1>3. CASE MouseMoves
    <2>1. PICK movement \in Movements : mouse' = mouse \o PacketSent(packets', movement)
      BY <1>3 DEF MouseMoves
    <2>2. packets' \in 0 .. MaxPackets /\ packets' \in Nat \ {0}
      BY <1>3, InputAssumption DEF MouseMoves, Within, BytesTyped
    <2>3. PacketSent(packets', movement) \in Seq(Answer \cup PacketByte)
      BY <2>2, PacketType
    <2>4. UNCHANGED <<mouse_packet, garbled, port, disturbed, alike, at>>
      BY <1>3 DEF MouseMoves, mouseVars
    <2> QED BY <2>1, <2>2, <2>3, <2>4, PacketInOrder, MoreToCome
  <1>4. CASE MouseByteLost
    BY <1>4, LostByte
  <1>5. CASE Deliver
    BY <1>5, DeliveryKeepsAlignment
  <1>6. CASE ps2mouse_init
    <2>1. CASE Asks /\ UNCHANGED <<port, last, pending, configuration>>
      <3>1. mouse_packet = <<>> /\ UNCHANGED <<mouse_packet, garbled, port, disturbed, alike>>
        BY <1>6, <2>1 DEF ps2mouse_init, Asks, mouseVars, Alignment
      <3>2. CASE UNCHANGED mouse
        <4>1. (PacketAstray' <=> PacketAstray) /\ (PortAstray' <=> PortAstray)
          BY <3>1, <3>2 DEF PacketAstray, PortAstray, Coming
        <4> QED BY <3>1, <3>2, <4>1 DEF Alignment, Account, Times
      <3>3. CASE MouseAnswers
        <4>1. PICK answer \in {"acknowledge", "resend"} : mouse' = Append(mouse, [dev |-> answer])
          BY <3>3 DEF MouseAnswers
        <4> DEFINE s == <<[dev |-> answer]>>
        <4>2. [dev |-> answer] \in Answer \cup PacketByte /\ [dev |-> answer].dev # "mouse"
          BY <4>1 DEF Answer
        <4>3. s \in Seq(Answer \cup PacketByte) /\ mouse' = mouse \o s
          <5>1. \A x \in Answer \cup PacketByte : <<x>> \in Seq(Answer \cup PacketByte) /\ Append(mouse, x) = mouse \o <<x>>
            BY DEF BytesTyped
          <5> QED BY <4>1, <4>2, <5>1
        <4>4. InOrder(s) /\ ~FromMouse(s) /\ s # <<>>
          BY <4>2, AnswerInOrder
        <4> HIDE DEF s
        <4> QED BY <3>1, <4>3, <4>4, MoreToCome
      <3> QED BY <2>1, <3>2, <3>3 DEF Asks
    <2>2. CASE Reads /\ UNCHANGED <<reply, mouse>>
      <3>1. mouse_packet = <<>> /\ UNCHANGED <<mouse_packet, garbled, mouse, disturbed, alike>> /\ port' = <<>>
        BY <1>6, <2>2 DEF ps2mouse_init, Reads, Poll, ReadPort, mouseVars, Alignment
      <3>2. ~PacketAstray' /\ ~PortAstray' /\ ~FromMouse(port')
        BY <3>1 DEF PacketAstray, PortAstray, FromMouse
      <3>3. garbled' + Times(PacketAstray') + Times(PortAstray') <= Account'
        BY <3>1, <3>2 DEF Alignment, Account, Times
      <3> QED BY <3>1, <3>2, <3>3 DEF Alignment
    <2> QED BY <1>6, <2>1, <2>2 DEF ps2mouse_init
  <1>7. CASE KeyboardInterrupt \/ MouseInterrupt
    BY <1>7, HandlersKeepAlignment
  <1> QED BY <1>2, <1>3, <1>4, <1>5, <1>6, <1>7 DEF InputNext

LEMMA FreshTail ==
  ASSUME NEW S, NEW q \in Seq(S), q # <<>>, Fresh(q)
  PROVE  /\ Fresh(Tail(q))
         /\ FromMouse(Tail(q)) /\ (q[1].dev = "mouse" => q[1].byte.place = 3) => Tail(q)[1].byte.place = 1
  <1> DEFINE t == Tail(q)
  <1>1. Len(q) \in Nat \ {0} /\ Len(t) = Len(q) - 1 /\ \A i \in 1 .. Len(t) : t[i] = q[i + 1]
    OBVIOUS
  <1>2. t # <<>> => 1 \in 1 .. Len(t) /\ 1 \in 1 .. Len(q) /\ 1 + 1 <= Len(q)
    <2>1. t \in Seq(S) /\ \A x \in Seq(S) : x = <<>> <=> Len(x) = 0
      OBVIOUS
    <2> QED BY <1>1, <2>1
  <1> HIDE DEF t
  <1>3. ASSUME FromMouse(t), q[1].dev = "mouse" => q[1].byte.place = 3
        PROVE  t[1].byte.place = 1
    <2>1. t[1] = q[1 + 1] /\ t[1].dev = "mouse" /\ 1 \in 1 .. Len(q) /\ 1 + 1 <= Len(q)
      BY <1>1, <1>2, <1>3 DEF FromMouse
    <2> QED BY <1>3, <2>1 DEF Fresh
  <1>4. Fresh(t)
    <2> SUFFICES ASSUME NEW i \in 1 .. Len(t), i + 1 <= Len(t), t[i + 1].dev = "mouse",
                        t[i].dev = "mouse" => t[i].byte.place = 3
                 PROVE  t[i + 1].byte.place = 1
      BY DEF Fresh
    <2>1. i + 1 \in 1 .. Len(q) /\ (i + 1) + 1 <= Len(q) /\ t[i] = q[i + 1] /\ t[i + 1] = q[(i + 1) + 1]
      BY <1>1
    <2> QED BY <2>1 DEF Fresh
  <1> QED BY <1>3, <1>4 DEF t

LEMMA FreshAppended ==
  ASSUME NEW S, NEW q \in Seq(S), NEW s \in Seq(S), Fresh(q), Fresh(s), s # <<>>,
         FromMouse(s) => s[1].byte.place = 1
  PROVE  /\ Fresh(q \o s)
         /\ FromMouse(q \o s) => (q \o s)[1].byte.place = 1 \/ (FromMouse(q) /\ (q \o s)[1] = q[1])
  <1> DEFINE a == q \o s
  <1>1. /\ Len(q) \in Nat /\ Len(s) \in Nat \ {0} /\ Len(a) = Len(q) + Len(s)
        /\ \A i \in 1 .. Len(q) : a[i] = q[i]
        /\ \A i \in 1 .. Len(s) : a[Len(q) + i] = s[i]
        /\ q = <<>> <=> Len(q) = 0
    OBVIOUS
  <1> HIDE DEF a
  <1>2. s[1].dev = "mouse" => s[1].byte.place = 1
    BY DEF FromMouse
  <1>3. Fresh(a)
    <2> SUFFICES ASSUME NEW i \in 1 .. Len(a), i + 1 <= Len(a), a[i + 1].dev = "mouse",
                        a[i].dev = "mouse" => a[i].byte.place = 3
                 PROVE  a[i + 1].byte.place = 1
      BY DEF Fresh
    <2>1. CASE i + 1 <= Len(q)
      <3>1. a[i] = q[i] /\ a[i + 1] = q[i + 1] /\ i \in 1 .. Len(q)
        BY <1>1, <2>1
      <3> QED BY <2>1, <3>1 DEF Fresh
    <2>2. CASE i = Len(q)
      <3>1. a[i + 1] = s[1]
        BY <1>1, <2>2
      <3> QED BY <1>2, <3>1
    <2>3. CASE i > Len(q)
      <3> DEFINE k == i - Len(q)
      <3>1. k \in 1 .. Len(s) /\ k + 1 \in 1 .. Len(s) /\ k + 1 <= Len(s) /\ i = Len(q) + k /\ i + 1 = Len(q) + (k + 1)
        BY <1>1, <2>3
      <3> HIDE DEF k
      <3>2. a[i] = s[k] /\ a[i + 1] = s[k + 1]
        BY <1>1, <3>1
      <3> QED BY <3>1, <3>2 DEF Fresh
    <2> QED BY <1>1, <2>1, <2>2, <2>3
  <1>4. ASSUME FromMouse(a)
        PROVE  a[1].byte.place = 1 \/ (FromMouse(q) /\ a[1] = q[1])
    <2>1. CASE q = <<>>
      <3>1. a[1] = s[1]
        <4>1. Len(q) + 1 = 1 /\ 1 \in 1 .. Len(s)
          BY <1>1, <2>1
        <4>2. a[Len(q) + 1] = s[1]
          BY <1>1, <4>1
        <4> QED BY <4>1, <4>2
      <3> QED BY <1>2, <1>4, <3>1 DEF FromMouse
    <2>2. CASE q # <<>>
      <3>1. a[1] = q[1]
        BY <1>1, <2>2
      <3> QED BY <1>4, <2>2, <3>1 DEF FromMouse
    <2> QED BY <2>1, <2>2
  <1> QED BY <1>3, <1>4 DEF a

(* More bytes behind those that wait.                                      *)
LEMMA MoreBegins ==
  ASSUME Beginnings, BytesTyped, NEW s \in Seq(Answer \cup PacketByte), Fresh(s), s # <<>>,
         FromMouse(s) => s[1].byte.place = 1, mouse' = mouse \o s,
         UNCHANGED <<mouse_packet, port, disturbed>>, at # "halted"
  PROVE  Beginnings'
  <1>1. /\ Fresh(mouse')
        /\ FromMouse(mouse') => mouse'[1].byte.place = 1 \/ (FromMouse(mouse) /\ mouse'[1] = mouse[1])
    BY FreshAppended DEF Beginnings, BytesTyped
  <1>2. CASE FromMouse(port)
    <2>1. Coming' = Coming
      BY <1>2 DEF Coming
    <2> QED BY <1>1, <2>1 DEF Beginnings
  <1>3. CASE ~FromMouse(port)
    <2>1. Coming = mouse /\ Coming' = mouse'
      BY <1>3 DEF Coming
    <2> QED BY <1>1, <1>3, <2>1 DEF Beginnings
  <1> QED BY <1>2, <1>3

LEMMA DeliveryBegins ==
  ASSUME Beginnings, BytesTyped, Deliver
  PROVE  Beginnings'
  <1>1. /\ UNCHANGED <<mouse_packet, disturbed, at>> /\ port = <<>> /\ at # "halted"
    BY DEF Deliver, Arrives, mouseVars, userVars
  <1>2. Coming = mouse
    BY <1>1 DEF Coming, FromMouse
  <1>3. ASSUME NEW x, x.dev # "mouse", port' = <<x>>, mouse' = mouse
        PROVE  Beginnings'
    <2>1. ~FromMouse(port') /\ Coming' = mouse
      BY <1>3 DEF FromMouse, Coming
    <2> QED BY <1>1, <1>2, <1>3, <2>1 DEF Beginnings
  <1>4. ASSUME mouse # <<>>, port' = <<Head(mouse)>>, mouse' = Tail(mouse)
        PROVE  Beginnings'
    <2>1. /\ Fresh(mouse')
          /\ FromMouse(mouse') /\ (mouse[1].dev = "mouse" => mouse[1].byte.place = 3) => mouse'[1].byte.place = 1
      BY <1>4, FreshTail DEF Beginnings, BytesTyped
    <2>2. port'[1] = mouse[1] /\ port' # <<>>
      BY <1>4
    <2>3. CASE FromMouse(mouse)
      <3>1. FromMouse(port') /\ Coming' = port' /\ mouse[1].dev = "mouse"
        BY <2>2, <2>3 DEF FromMouse, Coming
      <3> QED BY <1>1, <1>2, <2>1, <2>2, <2>3, <3>1 DEF Beginnings
    <2>4. CASE ~FromMouse(mouse)
      <3>1. ~FromMouse(port') /\ Coming' = mouse' /\ mouse[1].dev # "mouse"
        BY <1>4, <2>2, <2>4 DEF FromMouse, Coming
      <3> QED BY <1>1, <2>1, <3>1 DEF Beginnings
    <2> QED BY <2>3, <2>4
  <1>5. [dev |-> "configuration"].dev # "mouse"
    OBVIOUS
  <1>6. keys # <<>> => Head(keys).dev # "mouse"
    <2>1. keys # <<>> => Head(keys) \in KeyByte
      BY SeqFacts DEF BytesTyped
    <2> QED BY <2>1 DEF KeyByte
  <1> QED BY <1>3, <1>4, <1>5, <1>6 DEF Deliver, Arrives

(* The mouse's handler takes a packet, whole, as long as nothing has       *)
(* disturbed it.                                                           *)
LEMMA HandlersBegin ==
  ASSUME Alignment, Beginnings, BytesTyped, KeyboardInterrupt \/ MouseInterrupt
  PROVE  Beginnings'
  <1>1. UNCHANGED <<at, mouse>> /\ port' = <<>> /\ at = "running"
    BY DEF KeyboardInterrupt, MouseInterrupt, ReadPort
  <1>2. ~FromMouse(port') /\ Coming' = mouse /\ Fresh(mouse')
    BY <1>1 DEF FromMouse, Coming, Beginnings
  <1>3. CASE disturbed' # 0
    BY <1>2, <1>3 DEF Beginnings
  <1>4. CASE disturbed' = 0 /\ KeyboardInterrupt
    <2>1. mouse_packet' = mouse_packet /\ disturbed \in Nat
      BY <1>4 DEF KeyboardInterrupt, mouseVars, Alignment
    <2>2. ~(port # <<>> /\ Value.dev = "mouse") /\ disturbed = 0
      BY <1>4, <2>1 DEF KeyboardInterrupt
    <2>3. ~FromMouse(port)
      BY <2>2 DEF FromMouse, Value
    <2>4. Coming = mouse
      BY <2>3 DEF Coming
    <2> QED BY <1>1, <1>2, <2>1, <2>2, <2>4 DEF Beginnings
  <1>5. CASE disturbed' = 0 /\ MouseInterrupt
    <2>1. PICK value \in AsMouseByte(Value) : ps2mouse_interrupt(value)
      BY <1>5 DEF MouseInterrupt
    <2>2. port # <<>> /\ Value.dev = "mouse" /\ disturbed = 0
      <3>1. disturbed \in Nat
        BY DEF Alignment
      <3> QED BY <1>5, <3>1 DEF MouseInterrupt
    <2>3. FromMouse(port) /\ value = port[1].byte /\ Coming = port
      BY <2>1, <2>2 DEF FromMouse, Value, AsMouseByte, Coming
    <2>4. value \in MouseByte
      BY <2>1, MouseByteType
    <2>5. CASE mouse_packet' # <<>>
      BY <1>2, <2>5 DEF Beginnings
    <2>6. CASE mouse_packet = <<>> /\ ~value.bit3
      BY <1>1, <2>2, <2>3, <2>6 DEF Beginnings, Alignment
    <2>7. CASE Len(mouse_packet) = 2 /\ mouse_packet' = <<>>
      <3>1. ~PacketAstray
        BY <2>2 DEF Alignment, Account, Times
      <3>2. mouse_packet # <<>> /\ mouse_packet[2] \in MouseByte
        <4>1. 2 \in 1 .. 2 /\ 2 # 0
          OBVIOUS
        <4>3. mouse_packet \in Seq(MouseByte) /\ Len(mouse_packet) = 2
          BY <2>7 DEF Alignment
        <4>4. \A i \in 1 .. Len(mouse_packet) : mouse_packet[i] \in MouseByte
          BY ONLY <4>3
        <4>2. \A i \in 1 .. 2 : mouse_packet[i] \in MouseByte
          BY ONLY <4>3, <4>4, Zenon
        <4> QED BY <2>7, <4>1, <4>2, Appended DEF Alignment
      <3>3. Collected(mouse_packet) /\ ~Torn(mouse_packet[2], port)
        BY <2>3, <2>7, <3>1, <3>2 DEF PacketAstray
      <3>4. mouse_packet[2].place = 2
        BY <2>7, <3>3 DEF Collected
      <3>5. value.place = 3
        BY <2>3, <3>3, <3>4 DEF Torn, Continues
      <3>6. FromMouse(mouse) => mouse[1].byte.place = 1
        BY <1>1, <2>2, <2>3, <3>5 DEF Beginnings
      <3> QED BY <1>1, <1>2, <3>6 DEF Beginnings
    <2> QED BY <2>1, <2>4, <2>5, <2>6, <2>7, ByteHandled DEF Alignment
  <1> QED BY <1>3, <1>4, <1>5

LEMMA BeginningsStep ==
  ASSUME Alignment, Beginnings, BytesTyped, [InputNext]_inputVars
  PROVE  Beginnings'
  <1>1. ASSUME UNCHANGED <<mouse_packet, port, mouse, disturbed>>, at' \in {at, "halted"}
        PROVE  Beginnings'
    <2>1. Coming' = Coming
      BY <1>1 DEF Coming
    <2> QED BY <1>1, <2>1 DEF Beginnings
  <1>2. CASE KeyMoves \/ TimesOut \/ ReadInput \/ UNCHANGED inputVars
    BY <1>1, <1>2 DEF KeyMoves, TimesOut, ReadInput, inputVars, mouseVars, userVars, deviceVars
  <1>3. CASE MouseMoves
    <2>1. PICK movement \in Movements : mouse' = mouse \o PacketSent(packets', movement)
      BY <1>3 DEF MouseMoves
    <2>2. packets' \in 0 .. MaxPackets /\ packets' \in Nat \ {0}
      BY <1>3, InputAssumption DEF MouseMoves, Within, BytesTyped
    <2>3. PacketSent(packets', movement) \in Seq(Answer \cup PacketByte)
      BY <2>2, PacketType
    <2>4. UNCHANGED <<mouse_packet, port, disturbed>> /\ at # "halted"
      BY <1>3 DEF MouseMoves, mouseVars
    <2> QED BY <2>1, <2>2, <2>3, <2>4, PacketInOrder, MoreBegins
  <1>4. CASE MouseByteLost
    <2>1. disturbed' = disturbed + 1 /\ disturbed \in Nat /\ mouse # <<>> /\ mouse' = Tail(mouse)
      BY <1>4 DEF MouseByteLost, Alignment
    <2>2. Fresh(mouse') /\ disturbed' # 0
      BY <2>1, FreshTail DEF Beginnings, BytesTyped
    <2> QED BY <2>2 DEF Beginnings
  <1>5. CASE Deliver
    BY <1>5, DeliveryBegins
  <1>6. CASE ps2mouse_init
    <2>1. CASE Asks /\ UNCHANGED <<port, last, pending, configuration>>
      <3>1. UNCHANGED <<mouse_packet, port, disturbed>> /\ at # "halted" /\ at' # "halted"
        BY <1>6, <2>1 DEF ps2mouse_init, Asks, mouseVars
      <3>2. CASE UNCHANGED mouse
        <4>1. Coming' = Coming
          BY <3>1, <3>2 DEF Coming
        <4> QED BY <3>1, <3>2, <4>1 DEF Beginnings
      <3>3. CASE MouseAnswers
        <4>1. PICK answer \in {"acknowledge", "resend"} : mouse' = Append(mouse, [dev |-> answer])
          BY <3>3 DEF MouseAnswers
        <4> DEFINE s == <<[dev |-> answer]>>
        <4>2. [dev |-> answer] \in Answer \cup PacketByte /\ [dev |-> answer].dev # "mouse"
          BY <4>1 DEF Answer
        <4>3. s \in Seq(Answer \cup PacketByte) /\ mouse' = mouse \o s
          <5>1. \A x \in Answer \cup PacketByte : <<x>> \in Seq(Answer \cup PacketByte) /\ Append(mouse, x) = mouse \o <<x>>
            BY DEF BytesTyped
          <5> QED BY <4>1, <4>2, <5>1
        <4>4. Fresh(s) /\ ~FromMouse(s) /\ s # <<>>
          BY <4>2, AnswerInOrder
        <4> HIDE DEF s
        <4> QED BY <3>1, <4>3, <4>4, MoreBegins
      <3> QED BY <2>1, <3>2, <3>3 DEF Asks
    <2>2. CASE Reads /\ UNCHANGED <<reply, mouse>>
      <3>1. /\ mouse_packet = <<>> /\ UNCHANGED <<mouse_packet, mouse, disturbed>> /\ port' = <<>> /\ port # <<>>
            /\ at # "halted"
        BY <1>6, <2>2 DEF ps2mouse_init, Reads, Poll, ReadPort, mouseVars, Alignment
      <3>2. ~FromMouse(port') /\ Coming' = mouse
        BY <3>1 DEF FromMouse, Coming
      <3>3. CASE FromMouse(port)
        <4>1. at' = "halted"
          BY <2>2, <3>3 DEF Reads, Poll, After, FromMouse
        <4> QED BY <3>1, <4>1 DEF Beginnings
      <3>4. CASE ~FromMouse(port)
        <4>1. Coming = mouse
          BY <3>4 DEF Coming
        <4> QED BY <3>1, <3>2, <4>1 DEF Beginnings
      <3> QED BY <3>3, <3>4
    <2> QED BY <1>6, <2>1, <2>2 DEF ps2mouse_init
  <1>7. CASE KeyboardInterrupt \/ MouseInterrupt
    BY <1>7, HandlersBegin
  <1> QED BY <1>2, <1>3, <1>4, <1>5, <1>6, <1>7 DEF InputNext

LEMMA AlignmentAlways == InputSpec => [](Alignment /\ Beginnings)
  <1>1. InputSpec => []BytesTyped
    BY BytesInit, BytesStep, PTL DEF InputSpec
  <1>2. Alignment /\ Beginnings /\ BytesTyped /\ [InputNext]_inputVars => Alignment' /\ Beginnings'
    BY AlignmentStep, BeginningsStep
  <1>3. InputInit => Beginnings
    <2> SUFFICES ASSUME InputInit PROVE Beginnings
      OBVIOUS
    <2>1. port = <<>> /\ mouse = <<>>
      BY DEF InputInit
    <2> QED BY <2>1 DEF Beginnings, Fresh, FromMouse, Coming
  <1> QED BY <1>1, <1>2, <1>3, AlignmentInit, PTL DEF InputSpec

(* Whatever the mouse's movements look like: until a byte is lost, or read *)
(* by the other handler, or stale, the packets collected are those sent;   *)
(* afterwards each such byte garbles one, and each byte of a movement with *)
(* bit 3 set one more.                                                     *)
THEOREM InputPacketsAlign == InputSpec => []PacketsAlign
  <1>1. Alignment => PacketsAlign
    BY DEF Alignment, PacketsAlign, Account, Times
  <1> QED BY <1>1, AlignmentAlways, PTL

-----------------------------------------------------------------------------
(* The line: what Edited makes of a text, a character at a time.  There is *)
(* such a function for each text, for there is none that is the first for  *)
(* which there is not.                                                     *)
LEMMA LeastNatural ==
  ASSUME NEW T \in SUBSET Nat, T # {}
  PROVE  \E x \in T : \A y \in T : x <= y
  <1> DEFINE R == {p \in Nat \X Nat : p[1] < p[2]}
  <1>1. OpToRel(<, Nat) = R
    BY DEF OpToRel
  <1>2. IsWellFoundedOn(R, Nat)
    BY <1>1, NatLessThanWellFounded
  <1>3. PICK x \in T : \A y \in T : ~(<<y, x>> \in R)
    <2> HIDE DEF R
    <2> QED BY <1>2, WFMin
  <1>4. ASSUME NEW y \in T PROVE x <= y
    <2>1. x \in Nat /\ y \in Nat
      OBVIOUS
    <2>2. <<y, x>> \in R <=> y < x
      BY <2>1
    <2> QED BY <1>3, <2>1, <2>2
  <1> QED BY <1>4

Typing(s, c) == IF c = Erase THEN SubSeq(s, 1, Len(s) - 1) ELSE Append(s, c)

EditedTo(f, n, text) ==
  f = [m \in 0 .. n |-> IF m = 0 THEN <<>>
                        ELSE IF text[m] = Erase THEN SubSeq(f[m - 1], 1, Len(f[m - 1]) - 1)
                        ELSE Append(f[m - 1], text[m])]

LEMMA EditedToIs ==
  ASSUME NEW n \in Nat, NEW text, NEW f
  PROVE  EditedTo(f, n, text) <=>
           /\ f = [m \in 0 .. n |-> f[m]]
           /\ f[0] = <<>>
           /\ \A m \in 1 .. n : f[m] = Typing(f[m - 1], text[m])
  <1>1. 0 \in 0 .. n /\ \A m \in 0 .. n : m # 0 <=> m \in 1 .. n
    OBVIOUS
  <1> QED BY <1>1 DEF EditedTo, Typing

LEMMA EditedExists ==
  ASSUME NEW n \in Nat, NEW text
  PROVE  \E f : EditedTo(f, n, text)
  <1> DEFINE Bad == {m \in Nat : ~\E f : EditedTo(f, m, text)}
  <1>1. ASSUME Bad # {}
        PROVE  FALSE
    <2>1. Bad \in SUBSET Nat
      OBVIOUS
    <2>2. PICK m \in Bad : \A k \in Bad : m <= k
      <3> HIDE DEF Bad
      <3> QED BY <1>1, <2>1, LeastNatural
    <2>3. m \in Nat /\ ~\E f : EditedTo(f, m, text)
      OBVIOUS
    <2>4. CASE m = 0
      <3> DEFINE f == [k \in 0 .. 0 |-> <<>>]
      <3>1. f = [k \in 0 .. 0 |-> f[k]] /\ f[0] = <<>>
        OBVIOUS
      <3> HIDE DEF f
      <3>2. EditedTo(f, 0, text)
        BY <3>1, EditedToIs
      <3> QED BY <2>3, <2>4, <3>2
    <2>5. CASE m # 0
      <3>1. m - 1 \in Nat /\ ~(m <= m - 1)
        BY <2>3, <2>5
      <3>2. PICK f : EditedTo(f, m - 1, text)
        BY <2>2, <3>1
      <3> DEFINE g == [k \in 0 .. m |-> IF k = m THEN Typing(f[m - 1], text[m]) ELSE f[k]]
      <3>3. f[0] = <<>> /\ \A k \in 1 .. m - 1 : f[k] = Typing(f[k - 1], text[k])
        BY <3>1, <3>2, EditedToIs
      <3>4. g = [k \in 0 .. m |-> g[k]]
        OBVIOUS
      <3>5. g[0] = <<>> /\ \A k \in 0 .. m - 1 : g[k] = f[k]
        BY <2>3, <2>5, <3>3
      <3>6. g[m] = Typing(f[m - 1], text[m])
        BY <2>3
      <3> HIDE DEF g
      <3>7. ASSUME NEW k \in 1 .. m
            PROVE  g[k] = Typing(g[k - 1], text[k])
        <4>1. k - 1 \in 0 .. m - 1
          BY <2>3
        <4>2. CASE k = m
          BY <3>5, <3>6, <4>1, <4>2
        <4>3. CASE k # m
          <5>1. k \in 1 .. m - 1 /\ k \in 0 .. m - 1
            BY <2>3, <4>3
          <5> QED BY <3>3, <3>5, <4>1, <5>1
        <4> QED BY <4>2, <4>3
      <3>8. EditedTo(g, m, text)
        BY <2>3, <3>4, <3>5, <3>7, EditedToIs
      <3> QED BY <2>3, <3>8
    <2> QED BY <2>4, <2>5
  <1> QED BY <1>1

LEMMA EditedIs ==
  ASSUME NEW S, NEW text \in Seq(S)
  PROVE  \E f : EditedTo(f, Len(text), text) /\ Edited(text) = f[Len(text)]
  <1>1. Len(text) \in Nat
    OBVIOUS
  <1> DEFINE f == CHOOSE g : EditedTo(g, Len(text), text)
  <1>2. EditedTo(f, Len(text), text)
    BY <1>1, EditedExists
  <1>3. Edited(text) = f[Len(text)]
    BY Zenon DEF Edited, EditedTo
  <1> HIDE DEF f
  <1> QED BY <1>2, <1>3

LEMMA LastGone ==
  ASSUME NEW s \in Seq(Chars), s # <<>>
  PROVE  SubSeq(s, 1, Len(s) - 1) \in Seq(Chars) /\ Len(SubSeq(s, 1, Len(s) - 1)) = Len(s) - 1
  <1>1. Len(s) \in Nat \ {0} /\ \A i \in 1 .. Len(s) : s[i] \in Chars
    BY Appended
  <1> DEFINE k == Len(s) - 1
  <1>2. k \in Nat /\ k \in Int /\ 1 \in Int /\ \A i \in 1 .. k : s[i] \in Chars
    BY <1>1
  <1> HIDE DEF k
  <1>3. (IF 1 <= k THEN k - 1 + 1 ELSE 0) = k
    <2>1. \A j \in Nat : (IF 1 <= j THEN j - 1 + 1 ELSE 0) = j
      OBVIOUS
    <2> QED BY <1>2, <2>1, Zenon
  <1>4. SubSeq(s, 1, k) \in Seq(Chars) /\ Len(SubSeq(s, 1, k)) = IF 1 <= k THEN k - 1 + 1 ELSE 0
    BY <1>2, SubSeqProperties
  <1> QED BY <1>3, <1>4 DEF k

LEMMA TypingShort ==
  ASSUME NEW s \in Seq(Chars), NEW c \in Chars, NEW n \in Nat, Len(s) <= n
  PROVE  Typing(s, c) \in Seq(Chars) /\ Len(Typing(s, c)) <= n + 1
  <1>1. CASE c = Erase
    <2>1. CASE s = <<>>
      <3>1. SubSeq(s, 1, Len(s) - 1) = <<>>
        BY <2>1
      <3> QED BY <1>1, <3>1 DEF Typing
    <2>2. CASE s # <<>>
      <3>1. SubSeq(s, 1, Len(s) - 1) \in Seq(Chars) /\ Len(SubSeq(s, 1, Len(s) - 1)) = Len(s) - 1
        BY <2>2, LastGone
      <3>2. Len(s) - 1 <= n + 1
        <4>1. Len(s) \in Nat
          BY Appended
        <4> QED BY <4>1
      <3> QED BY <1>1, <3>1, <3>2 DEF Typing
    <2> QED BY <2>1, <2>2
  <1>2. CASE c # Erase
    <2>1. Len(s) \in Nat /\ Append(s, c) \in Seq(Chars) /\ Len(Append(s, c)) = Len(s) + 1
      BY Appended
    <2> QED BY <1>2, <2>1 DEF Typing
  <1> QED BY <1>1, <1>2

LEMMA EditedShort ==
  ASSUME NEW text \in Seq(Chars)
  PROVE  Edited(text) \in Seq(Chars) /\ Len(Edited(text)) <= Len(text)
  <1> DEFINE n == Len(text)
  <1>0. n \in Nat /\ \A m \in 1 .. n : text[m] \in Chars
    OBVIOUS
  <1>1. PICK f : EditedTo(f, n, text) /\ Edited(text) = f[n]
    BY EditedIs
  <1> HIDE DEF n
  <1>2. f[0] = <<>> /\ \A m \in 1 .. n : f[m] = Typing(f[m - 1], text[m])
    BY <1>0, <1>1, EditedToIs
  <1> DEFINE Bad == {m \in 0 .. n : ~(f[m] \in Seq(Chars) /\ Len(f[m]) <= m)}
  <1>3. ASSUME Bad # {}
        PROVE  FALSE
    <2>1. Bad \in SUBSET Nat
      BY <1>0
    <2>2. PICK m \in Bad : \A k \in Bad : m <= k
      <3> HIDE DEF Bad
      <3> QED BY <1>3, <2>1, LeastNatural
    <2>3. m \in 0 .. n /\ ~(f[m] \in Seq(Chars) /\ Len(f[m]) <= m)
      OBVIOUS
    <2>4. m # 0
      <3>1. <<>> \in Seq(Chars) /\ Len(<<>>) <= 0
        OBVIOUS
      <3> QED BY <1>2, <2>3, <3>1
    <2>5. m - 1 \in 0 .. n /\ m - 1 \in Nat /\ ~(m <= m - 1) /\ m \in 1 .. n /\ (m - 1) + 1 = m
      BY <1>0, <2>3, <2>4
    <2>6. f[m - 1] \in Seq(Chars) /\ Len(f[m - 1]) <= m - 1
      BY <2>2, <2>5
    <2>7. Typing(f[m - 1], text[m]) \in Seq(Chars) /\ Len(Typing(f[m - 1], text[m])) <= (m - 1) + 1
      BY <1>0, <2>5, <2>6, TypingShort
    <2> QED BY <1>2, <2>3, <2>5, <2>7
  <1>4. f[n] \in Seq(Chars) /\ Len(f[n]) <= n
    BY <1>0, <1>3
  <1> QED BY <1>1, <1>4 DEF n

LEMMA EditedEmpty == Edited(<<>>) = <<>>
  <1>1. <<>> \in Seq(Chars) /\ Len(<<>>) = 0
    OBVIOUS
  <1>2. PICK f : EditedTo(f, 0, <<>>) /\ Edited(<<>>) = f[0]
    BY <1>1, EditedIs
  <1> QED BY <1>2, EditedToIs

LEMMA EditedGrows ==
  ASSUME NEW text \in Seq(Chars), NEW c \in Chars
  PROVE  Edited(Append(text, c)) = Typing(Edited(text), c)
  <1> DEFINE n == Len(text)
             longer == Append(text, c)
  <1>0. /\ n \in Nat /\ longer \in Seq(Chars) /\ Len(longer) = n + 1 /\ longer[n + 1] = c
        /\ \A m \in 1 .. n : longer[m] = text[m]
    BY Appended
  <1>1. PICK f : EditedTo(f, n, text) /\ Edited(text) = f[n]
    BY EditedIs
  <1>2. PICK g : EditedTo(g, n + 1, longer) /\ Edited(longer) = g[n + 1]
    BY <1>0, EditedIs
  <1> HIDE DEF n, longer
  <1>3. f[0] = <<>> /\ \A m \in 1 .. n : f[m] = Typing(f[m - 1], text[m])
    BY <1>0, <1>1, EditedToIs
  <1>4. g[0] = <<>> /\ \A m \in 1 .. n + 1 : g[m] = Typing(g[m - 1], longer[m])
    BY <1>0, <1>2, EditedToIs
  <1> DEFINE Bad == {m \in 0 .. n : f[m] # g[m]}
  <1>5. ASSUME Bad # {}
        PROVE  FALSE
    <2>1. Bad \in SUBSET Nat
      BY <1>0
    <2>2. PICK m \in Bad : \A k \in Bad : m <= k
      <3> HIDE DEF Bad
      <3> QED BY <1>5, <2>1, LeastNatural
    <2>3. m \in 0 .. n /\ f[m] # g[m]
      OBVIOUS
    <2>4. m # 0
      BY <1>3, <1>4, <2>3
    <2>5. m - 1 \in 0 .. n /\ ~(m <= m - 1) /\ m \in 1 .. n /\ m \in 1 .. n + 1
      BY <1>0, <2>3, <2>4
    <2>6. f[m - 1] = g[m - 1]
      BY <2>2, <2>5
    <2> QED BY <1>0, <1>3, <1>4, <2>3, <2>5, <2>6
  <1>6. f[n] = g[n]
    BY <1>0, <1>5
  <1>7. g[n + 1] = Typing(g[n], c)
    <2>1. n + 1 \in 1 .. n + 1 /\ (n + 1) - 1 = n
      BY <1>0
    <2> QED BY <1>0, <1>4, <2>1
  <1> QED BY <1>1, <1>2, <1>6, <1>7 DEF longer

-----------------------------------------------------------------------------
(* What the handler will make of the scan codes on their way is what the   *)
(* user meant by them.                                                     *)
AfterCode(s, code) == [shift |-> IF code.key \in ShiftKeys THEN code.down ELSE s.shift,
                       caps |-> s.caps # (code.key = CapsLock /\ code.down)]
TypedIn(s, code) ==
  IF ~code.down \/ code.key \in ShiftKeys \cup {CapsLock} THEN Nul
  ELSE IF code.key = BackspaceKey THEN Erase
  ELSE LET upper == IF code.key \in Letter THEN s.shift # s.caps ELSE s.shift
       IN  IF upper THEN Shifted[code.key] ELSE Normal[code.key]

HandlersState == [shift |-> keyboard_shift, caps |-> keyboard_capslock]
UsersState == [shift |-> held # {}, caps |-> light]

(* From state s on, the bytes q type what was meant by each, and lead to   *)
(* state t.                                                                *)
Foretold(s, q, t) ==
  \E f : /\ f[0] = s /\ f[Len(q)] = t
         /\ \A i \in 1 .. Len(q) : /\ f[i] = AfterCode(f[i - 1], q[i].code)
                                   /\ q[i].meant = TypedIn(f[i - 1], q[i].code)

FromKey(q) == q # <<>> /\ q[1].dev = "key"
StateAhead == IF FromKey(port) THEN AfterCode(HandlersState, port[1].code) ELSE HandlersState

LEMMA ForetoldNothing ==
  ASSUME NEW s
  PROVE  Foretold(s, <<>>, s)
  <1> DEFINE f == [i \in {0} |-> s]
  <1>1. f[0] = s /\ Len(<<>>) = 0
    OBVIOUS
  <1>2. \A i \in 1 .. Len(<<>>) : FALSE
    OBVIOUS
  <1> HIDE DEF f
  <1> QED BY <1>1, <1>2 DEF Foretold

LEMMA ForetoldTail ==
  ASSUME NEW S, NEW q \in Seq(S), q # <<>>, NEW s, NEW t, Foretold(s, q, t)
  PROVE  /\ q[1].meant = TypedIn(s, q[1].code)
         /\ Foretold(AfterCode(s, q[1].code), Tail(q), t)
  <1> DEFINE n == Len(q)
             r == Tail(q)
  <1>1. n \in Nat \ {0} /\ Len(r) = n - 1 /\ \A i \in 1 .. n - 1 : r[i] = q[i + 1]
    OBVIOUS
  <1>2. PICK f : /\ f[0] = s /\ f[n] = t
                 /\ \A i \in 1 .. n : /\ f[i] = AfterCode(f[i - 1], q[i].code)
                                      /\ q[i].meant = TypedIn(f[i - 1], q[i].code)
    BY DEF Foretold
  <1> HIDE DEF n, r
  <1>3. 1 \in 1 .. n /\ 1 - 1 = 0
    BY <1>1
  <1>4. f[1] = AfterCode(s, q[1].code) /\ q[1].meant = TypedIn(s, q[1].code)
    BY <1>2, <1>3
  <1> DEFINE g == [i \in 0 .. n - 1 |-> f[i + 1]]
  <1>5. g[0] = f[1] /\ g[n - 1] = f[n]
    BY <1>1
  <1>6. \A i \in 0 .. n - 1 : g[i] = f[i + 1]
    OBVIOUS
  <1> HIDE DEF g
  <1>7. ASSUME NEW i \in 1 .. n - 1
        PROVE  g[i] = AfterCode(g[i - 1], r[i].code) /\ r[i].meant = TypedIn(g[i - 1], r[i].code)
    <2>1. i + 1 \in 1 .. n /\ (i + 1) - 1 = i /\ i \in 0 .. n - 1 /\ i - 1 \in 0 .. n - 1 /\ (i - 1) + 1 = i
      BY <1>1
    <2>2. g[i] = f[i + 1] /\ g[i - 1] = f[i] /\ r[i] = q[i + 1]
      BY <1>1, <1>6, <2>1
    <2> QED BY <1>2, <2>1, <2>2
  <1>8. Foretold(f[1], r, t)
    <2>1. g[0] = f[1] /\ g[Len(r)] = t
      BY <1>1, <1>2, <1>5
    <2>2. \A i \in 1 .. Len(r) : /\ g[i] = AfterCode(g[i - 1], r[i].code)
                                 /\ r[i].meant = TypedIn(g[i - 1], r[i].code)
      BY <1>1, <1>7
    <2> QED BY <2>1, <2>2 DEF Foretold
  <1> QED BY <1>4, <1>8 DEF r

LEMMA ForetoldAppend ==
  ASSUME NEW S, NEW q \in Seq(S), NEW x \in S, NEW s, NEW t, Foretold(s, q, t),
         x.meant = TypedIn(t, x.code)
  PROVE  Foretold(s, Append(q, x), AfterCode(t, x.code))
  <1> DEFINE n == Len(q)
             r == Append(q, x)
  <1>1. n \in Nat /\ Len(r) = n + 1 /\ r[n + 1] = x /\ \A i \in 1 .. n : r[i] = q[i]
    BY Appended
  <1>2. PICK f : /\ f[0] = s /\ f[n] = t
                 /\ \A i \in 1 .. n : /\ f[i] = AfterCode(f[i - 1], q[i].code)
                                      /\ q[i].meant = TypedIn(f[i - 1], q[i].code)
    BY DEF Foretold
  <1> HIDE DEF n, r
  <1> DEFINE u == AfterCode(t, x.code)
             g == [i \in 0 .. n + 1 |-> IF i = n + 1 THEN u ELSE f[i]]
  <1>3. g[n + 1] = u /\ \A i \in 0 .. n : g[i] = f[i]
    BY <1>1
  <1>4. 0 \in 0 .. n /\ n \in 0 .. n
    BY <1>1
  <1> HIDE DEF g, u
  <1>5. ASSUME NEW i \in 1 .. n + 1
        PROVE  g[i] = AfterCode(g[i - 1], r[i].code) /\ r[i].meant = TypedIn(g[i - 1], r[i].code)
    <2>1. CASE i = n + 1
      <3>1. i - 1 = n
        BY <1>1, <2>1
      <3> QED BY <1>1, <1>2, <1>3, <1>4, <2>1, <3>1 DEF u
    <2>2. CASE i # n + 1
      <3>1. i \in 1 .. n /\ i \in 0 .. n /\ i - 1 \in 0 .. n
        BY <1>1, <2>2
      <3> QED BY <1>1, <1>2, <1>3, <3>1
    <2> QED BY <2>1, <2>2
  <1>6. Foretold(s, r, u)
    <2>1. g[0] = s /\ g[Len(r)] = u
      BY <1>1, <1>2, <1>3, <1>4
    <2>2. \A i \in 1 .. Len(r) : /\ g[i] = AfterCode(g[i - 1], r[i].code)
                                 /\ r[i].meant = TypedIn(g[i - 1], r[i].code)
      BY <1>1, <1>5
    <2> QED BY <2>1, <2>2 DEF Foretold
  <1> QED BY <1>6 DEF r, u

(* The handler's definitions, and the user's, are those of a state.        *)
LEMMA HandlerTypes ==
  ASSUME NEW code, keyboard_interrupt(code)
  PROVE  /\ HandlersState' = AfterCode(HandlersState, code)
         /\ Typed(code) = TypedIn(HandlersState, code)
         /\ Typed(code) = Nul => UNCHANGED ringVars
         /\ Typed(code) # Nul => input_buffer_push(Typed(code))
  <1>1. HandlersState' = AfterCode(HandlersState, code)
    BY DEF keyboard_interrupt, ShiftAfter, CapsAfter, HandlersState, AfterCode
  <1>2. Typed(code) = TypedIn(HandlersState, code)
    BY DEF Typed, CharOf, TypedIn, HandlersState
  <1> QED BY <1>1, <1>2 DEF keyboard_interrupt

LEMMA UserMeans ==
  ASSUME NEW code \in ScanCode
  PROVE  (IF code.down THEN Meaning(code.key) ELSE Nul) = TypedIn(UsersState, code)
  <1>1. UsersState.shift = (held # {}) /\ UsersState.caps = light
    BY DEF UsersState
  <1>2. CASE ~code.down
    BY <1>2 DEF TypedIn
  <1>3. CASE code.down /\ code.key \in ShiftKeys \cup {CapsLock}
    BY <1>3, KeyboardAssumption DEF TypedIn, Meaning
  <1>4. CASE code.down /\ code.key \notin ShiftKeys \cup {CapsLock} /\ code.key = BackspaceKey
    <2>1. Meaning(code.key) = Erase
      BY <1>4 DEF Meaning
    <2>2. TypedIn(UsersState, code) = Erase
      BY <1>4 DEF TypedIn
    <2> QED BY <1>4, <2>1, <2>2
  <1>5. CASE code.down /\ code.key \notin ShiftKeys \cup {CapsLock} /\ code.key # BackspaceKey
    <2> DEFINE upper == IF code.key \in Letter THEN (held # {}) # light ELSE held # {}
    <2>1. Meaning(code.key) = IF upper THEN Shifted[code.key] ELSE Normal[code.key]
      BY <1>5 DEF Meaning
    <2>2. TypedIn(UsersState, code) = IF upper THEN Shifted[code.key] ELSE Normal[code.key]
      BY <1>1, <1>5 DEF TypedIn
    <2> QED BY <1>5, <2>1, <2>2
  <1> QED BY <1>2, <1>3, <1>4, <1>5
-----------------------------------------------------------------------------
(* What is held, lit, meant and typed.                                     *)
UserTyped ==
  /\ held \subseteq ShiftKeys /\ IsFiniteSet(held) /\ clean \in BOOLEAN /\ light \in BOOLEAN
  /\ clean => Cardinality(held) <= 1
  /\ keyboard_shift \in BOOLEAN /\ keyboard_capslock \in BOOLEAN
  /\ Len(keys) <= KeyboardQueue
  /\ meant \in Seq(Chars) /\ draft \in Seq(Chars) /\ line \in Seq(Chars) /\ Len(line) <= LineMax

LEMMA UserTypedInit == InputInit => UserTyped
  <1> SUFFICES ASSUME InputInit PROVE UserTyped
    OBVIOUS
  <1>1. IsFiniteSet({}) /\ Cardinality({}) = 0
    BY FS_EmptySet
  <1>2. held = {} /\ keys = <<>> /\ meant = <<>> /\ draft = <<>> /\ line = <<>>
    BY DEF InputInit
  <1>3. /\ <<>> \in Seq(Chars) /\ Len(<<>>) = 0 /\ 0 <= 1 /\ 0 <= KeyboardQueue /\ 0 <= LineMax
    BY InputAssumption
  <1> QED BY <1>1, <1>2, <1>3 DEF InputInit, UserTyped

(* The shift keys held down after a key has moved.                         *)
HeldAfter(code) == IF code.key \notin ShiftKeys THEN held
                   ELSE IF code.down THEN held \cup {code.key} ELSE held \ {code.key}

LEMMA HeldType ==
  ASSUME UserTyped, NEW code \in ScanCode
  PROVE  HeldAfter(code) \subseteq ShiftKeys /\ IsFiniteSet(HeldAfter(code))
  <1>1. IsFiniteSet(held \cup {code.key}) /\ IsFiniteSet(held \ {code.key})
    BY FS_AddElement, FS_RemoveElement DEF UserTyped
  <1> QED BY <1>1 DEF HeldAfter, UserTyped

(* With one shift key at most, letting it go leaves none.                  *)
LEMMA HeldOrNot ==
  ASSUME UserTyped, clean, NEW code \in ScanCode,
         IF code.key \in ShiftKeys THEN code.down <=> code.key \notin held ELSE code.down
  PROVE  (HeldAfter(code) # {}) <=> IF code.key \in ShiftKeys THEN code.down ELSE held # {}
  <1>1. CASE code.key \notin ShiftKeys
    BY <1>1 DEF HeldAfter
  <1>2. CASE code.key \in ShiftKeys /\ code.down
    BY <1>2 DEF HeldAfter
  <1>3. CASE code.key \in ShiftKeys /\ ~code.down
    <2>1. code.key \in held /\ HeldAfter(code) = held \ {code.key}
      BY <1>3 DEF HeldAfter
    <2>2. IsFiniteSet(held \ {code.key}) /\ Cardinality(held \ {code.key}) = Cardinality(held) - 1
      BY <2>1, FS_RemoveElement DEF UserTyped
    <2>3. Cardinality(held) \in Nat /\ Cardinality(held) <= 1 /\ Cardinality(held \ {code.key}) \in Nat
      BY <2>2, FS_CardinalityType DEF UserTyped
    <2>4. Cardinality(held \ {code.key}) = 0
      BY <2>2, <2>3
    <2>5. held \ {code.key} = {}
      BY <2>2, <2>4, FS_EmptySet
    <2> QED BY <1>3, <2>1, <2>5
  <1> QED BY <1>1, <1>2, <1>3

(* A key's byte, as the keyboard keeps it.                                 *)
CodeByte(code) == [dev |-> "key", code |-> code, meant |-> IF code.down THEN Meaning(code.key) ELSE Nul]

LEMMA KeyMoved ==
  ASSUME KeyMoves
  PROVE  \E code \in ScanCode :
           /\ IF code.key \in ShiftKeys THEN code.down <=> code.key \notin held ELSE code.down
           /\ held' = HeldAfter(code)
           /\ light' = (light # (code.key = CapsLock))
           /\ clean' = (clean /\ Len(keys) < KeyboardQueue /\ Cardinality(held') <= 1)
           /\ keys' = IF Len(keys) = KeyboardQueue THEN keys ELSE Append(keys, CodeByte(code))
           /\ CodeByte(code) \in KeyByte
  <1>1. PICK code \in ScanCode :
           /\ IF code.key \in ShiftKeys THEN code.down <=> code.key \notin held ELSE code.down
           /\ held' = HeldAfter(code)
           /\ light' = (light # (code.key = CapsLock))
           /\ clean' = (clean /\ Len(keys) < KeyboardQueue /\ Cardinality(held') <= 1)
           /\ keys' = IF Len(keys) = KeyboardQueue THEN keys ELSE Append(keys, CodeByte(code))
    BY Zenon DEF KeyMoves, HeldAfter, CodeByte
  <1>2. code.key \in Key /\ Meaning(code.key) \in Chars \cup {Nul}
    BY MeaningType DEF ScanCode
  <1>3. CodeByte(code) \in KeyByte
    BY <1>2 DEF CodeByte, KeyByte
  <1> QED BY <1>1, <1>3

(* What the console does to its line.                                      *)
LEMMA EditType ==
  ASSUME NEW text \in Seq(Chars), Len(text) <= LineMax, NEW c \in Chars
  PROVE  Edit(text, c) \in Seq(Chars) /\ Len(Edit(text, c)) <= LineMax
  <1>1. <<>> \in Seq(Chars) /\ Len(<<>>) = 0 /\ 0 <= LineMax
    BY InputAssumption
  <1>2. CASE c = Enter
    BY <1>1, <1>2 DEF Edit
  <1>3. CASE c # Enter /\ c = Erase
    <2>1. CASE text = <<>>
      BY <1>1, <1>3, <2>1 DEF Edit
    <2>2. CASE text # <<>>
      <3>1. Front(text) \in Seq(Chars) /\ Len(Front(text)) = Len(text) - 1
        BY <2>2, LastGone DEF Front
      <3>2. Len(text) \in Nat /\ LineMax \in Nat
        BY Appended, InputAssumption
      <3>3. Len(text) - 1 <= LineMax
        BY ONLY <3>2, Len(text) <= LineMax
      <3> QED BY <1>3, <2>2, <3>1, <3>3 DEF Edit
    <2> QED BY <2>1, <2>2
  <1>4. CASE c # Enter /\ c # Erase
    <2>1. CASE Len(text) < LineMax
      <3>1. /\ Append(text, c) \in Seq(Chars) /\ Len(Append(text, c)) = Len(text) + 1 /\ Len(text) \in Nat
        BY Appended
      <3>2. Len(text) + 1 <= LineMax
        BY ONLY <2>1, <3>1, InputAssumption
      <3> QED BY <1>4, <2>1, <3>1, <3>2 DEF Edit
    <2>2. CASE ~(Len(text) < LineMax)
      BY <1>4, <2>2 DEF Edit
    <2> QED BY <2>1, <2>2
  <1> QED BY <1>2, <1>3, <1>4

(* While there is room, that is what the text becomes.                     *)
LEMMA EditTypes ==
  ASSUME NEW text \in Seq(Chars), Len(text) < LineMax, NEW c \in Chars, c # Enter
  PROVE  Edit(text, c) = Typing(text, c)
  <1>1. CASE c = Erase /\ text = <<>>
    <2>1. SubSeq(text, 1, Len(text) - 1) = <<>>
      BY <1>1
    <2> QED BY <1>1, <2>1 DEF Edit, Typing
  <1>2. CASE c = Erase /\ text # <<>>
    BY <1>2 DEF Edit, Typing, Front
  <1>3. CASE c # Erase
    BY <1>3 DEF Edit, Typing
  <1> QED BY <1>1, <1>2, <1>3

(* The console reads what was meant.                                       *)
LEMMA LineFollows ==
  ASSUME NEW text \in Seq(Chars), NEW typed \in Seq(Chars), NEW c \in Chars,
         Len(typed) <= LineMax => text = Edited(typed)
  PROVE  \A further : further = (IF c = Enter THEN <<>> ELSE Append(typed, c)) /\ Len(further) <= LineMax
                       => Edit(text, c) = Edited(further)
  <1> SUFFICES ASSUME NEW further, further = IF c = Enter THEN <<>> ELSE Append(typed, c),
                      Len(further) <= LineMax
               PROVE  Edit(text, c) = Edited(further)
    OBVIOUS
  <1>1. CASE c = Enter
    BY <1>1, EditedEmpty DEF Edit
  <1>2. CASE c # Enter
    <2>1. further = Append(typed, c) /\ Len(further) = Len(typed) + 1 /\ Len(typed) \in Nat
      BY <1>2, Appended
    <2>2. Len(typed) < LineMax
      BY ONLY <2>1, InputAssumption, Len(further) <= LineMax
    <2>3. text = Edited(typed)
      BY ONLY <2>1, <2>2, InputAssumption, Len(typed) <= LineMax => text = Edited(typed)
    <2>4. Len(text) <= Len(typed) /\ Len(text) \in Nat
      BY <2>3, EditedShort, Appended
    <2>5. Len(text) < LineMax
      BY ONLY <2>1, <2>2, <2>4, InputAssumption
    <2>6. Edit(text, c) = Typing(text, c)
      BY <1>2, <2>5, EditTypes
    <2> QED BY <2>1, <2>3, <2>6, EditedGrows
  <1> QED BY <1>1, <1>2

(* A character read is the oldest in the buffer.                           *)
LEMMA CharacterRead ==
  ASSUME Inv, ReadInput
  PROVE  \/ /\ Content # <<>> /\ Content \in Seq(Chars) /\ Head(Content) \in Chars
            /\ Content' = Tail(Content) /\ line' = Edit(line, Head(Content))
            /\ draft' = IF meant = <<>> THEN draft
                        ELSE IF Head(meant) = Enter THEN <<>> ELSE Append(draft, Head(meant))
            /\ meant' = IF meant # <<>> THEN Tail(meant) ELSE meant
         \/ UNCHANGED <<Content, line, draft, meant>>
  <1>1. CASE PopTakes
    <2>1. ret' = TRUE /\ Used > 0 /\ out' = Head(Content) /\ Content' = Tail(Content)
      BY <1>1, PopTakesHead DEF PopTakes
    <2>2. Content \in Seq(Chars) /\ Len(Content) = Used
      BY ContentIsSeq
    <2>3. Content # <<>>
      <3>1. Used \in Nat
        BY UsedType DEF Inv
      <3>2. Used # 0
        BY <2>1, <3>1
      <3> QED BY <2>2, <3>2, Appended
    <2>4. Head(Content) \in Chars
      BY <2>2, <2>3, SeqFacts
    <2> QED BY <2>1, <2>2, <2>3, <2>4 DEF ReadInput
  <1>2. CASE PopEmpty
    <2>1. UNCHANGED Content /\ ret' = FALSE
      BY <1>2 DEF PopEmpty, Content, Used, Cell
    <2> QED BY <2>1 DEF ReadInput
  <1> QED BY <1>1, <1>2 DEF ReadInput, input_buffer_pop

LEMMA UserTypedStep ==
  ASSUME UserTyped, BytesTyped, Inv, [InputNext]_inputVars
  PROVE  UserTyped'
  <1>1. ASSUME UNCHANGED <<held, clean, light, keyboard_shift, keyboard_capslock, keys, meant, draft, line>>
        PROVE  UserTyped'
    BY <1>1 DEF UserTyped
  <1>2. CASE KeyMoves
    <2>1. PICK code \in ScanCode :
            /\ held' = HeldAfter(code)
            /\ light' = (light # (code.key = CapsLock))
            /\ clean' = (clean /\ Len(keys) < KeyboardQueue /\ Cardinality(held') <= 1)
            /\ keys' = IF Len(keys) = KeyboardQueue THEN keys ELSE Append(keys, CodeByte(code))
            /\ CodeByte(code) \in KeyByte
      BY <1>2, KeyMoved
    <2>2. held' \subseteq ShiftKeys /\ IsFiniteSet(held')
      BY <2>1, HeldType
    <2>3. clean' \in BOOLEAN /\ light' \in BOOLEAN /\ (clean' => Cardinality(held') <= 1)
      BY <2>1, Zenon
    <2>4. Len(keys') <= KeyboardQueue
      <3>1. CASE Len(keys) = KeyboardQueue
        BY <2>1, <3>1 DEF UserTyped
      <3>2. CASE Len(keys) # KeyboardQueue
        <4>1. Len(keys') = Len(keys) + 1 /\ Len(keys) \in Nat
          BY <2>1, <3>2, Appended DEF BytesTyped
        <4>2. Len(keys) <= KeyboardQueue
          BY DEF UserTyped
        <4>3. \A n \in Nat, k \in Nat : n <= k /\ n # k => n + 1 <= k
          OBVIOUS
        <4> QED BY ONLY <3>2, <4>1, <4>2, <4>3, InputAssumption
      <3> QED BY <3>1, <3>2
    <2>5. UNCHANGED <<keyboard_shift, keyboard_capslock, meant, draft, line>>
      BY <1>2 DEF KeyMoves, keyboardVars
    <2> QED BY <2>2, <2>3, <2>4, <2>5 DEF UserTyped
  <1>3. CASE MouseMoves \/ MouseByteLost \/ TimesOut
    BY <1>1, <1>3 DEF MouseMoves, MouseByteLost, TimesOut, userVars, keyboardVars
  <1>4. CASE Deliver
    <2>1. UNCHANGED <<held, clean, light, keyboard_shift, keyboard_capslock, meant, draft, line>>
      BY <1>4 DEF Deliver, userVars, keyboardVars
    <2>2. keys' = keys \/ (keys # <<>> /\ keys' = Tail(keys))
      BY <1>4 DEF Deliver
    <2>3. Len(keys') <= KeyboardQueue
      <3>1. CASE keys' = keys
        BY <3>1 DEF UserTyped
      <3>2. CASE keys # <<>> /\ keys' = Tail(keys)
        <4>1. Len(keys') = Len(keys) - 1 /\ Len(keys) \in Nat
          BY <3>2 DEF BytesTyped
        <4>2. Len(keys) <= KeyboardQueue
          BY DEF UserTyped
        <4> QED BY ONLY <4>1, <4>2, InputAssumption
      <3> QED BY <2>2, <3>1, <3>2
    <2> QED BY <2>1, <2>3 DEF UserTyped
  <1>5. CASE ps2mouse_init
    BY <1>1, <1>5 DEF ps2mouse_init, keyboardVars
  <1>6. CASE KeyboardInterrupt
    <2>1. PICK code \in AsScanCode(Value) :
            /\ keyboard_interrupt(code)
            /\ clean' = (clean /\ Value.dev # "mouse" /\ Len(meant') < Size)
            /\ meant' = meant \o Intended(Value)
      BY <1>6 DEF KeyboardInterrupt
    <2>2. code.down \in BOOLEAN
      BY ScanCodeType DEF ScanCode
    <2>3. keyboard_shift' \in BOOLEAN /\ keyboard_capslock' \in BOOLEAN
      <3>1. keyboard_shift' = ShiftAfter(code) /\ keyboard_capslock' = CapsAfter(code)
        BY <2>1 DEF keyboard_interrupt
      <3> QED BY <2>2, <3>1 DEF ShiftAfter, CapsAfter, UserTyped
    <2>4. meant' \in Seq(Chars)
      <3>1. Value.dev = "key" /\ Value.meant # Nul => Value.meant \in Chars
        <4>1. Value \in Bytes
          BY DEF Value, BytesTyped
        <4> QED BY <4>1 DEF Bytes, KeyByte, Answer, PacketByte
      <3>2. Intended(Value) \in Seq(Chars)
        BY <3>1 DEF Intended
      <3> QED BY <2>1, <3>2, SeqFacts DEF UserTyped
    <2>5. clean' \in BOOLEAN /\ (clean' => clean)
      BY <2>1, Zenon
    <2>6. UNCHANGED <<held, light, keys, draft, line>>
      BY <1>6 DEF KeyboardInterrupt
    <2> QED BY <2>3, <2>4, <2>5, <2>6 DEF UserTyped
  <1>7. CASE MouseInterrupt
    <2>1. clean' \in BOOLEAN /\ (clean' => clean)
      BY <1>7, Zenon DEF MouseInterrupt
    <2>2. UNCHANGED <<held, light, keyboard_shift, keyboard_capslock, keys, meant, draft, line>>
      BY <1>7 DEF MouseInterrupt, keyboardVars
    <2> QED BY <2>1, <2>2 DEF UserTyped
  <1>8. CASE ReadInput
    <2>1. UNCHANGED <<held, clean, light, keyboard_shift, keyboard_capslock, keys>>
      BY <1>8 DEF ReadInput, keyboardVars, deviceVars
    <2>2. line' \in Seq(Chars) /\ Len(line') <= LineMax
      BY <1>8, CharacterRead, EditType DEF UserTyped
    <2>3. \A s \in Seq(Chars) : s # <<>> => Head(s) \in Chars /\ Tail(s) \in Seq(Chars)
      BY SeqFacts
    <2>4. draft' \in Seq(Chars) /\ meant' \in Seq(Chars)
      <3>1. \A s \in Seq(Chars), c \in Chars : Append(s, c) \in Seq(Chars) /\ <<>> \in Seq(Chars)
        OBVIOUS
      <3> QED BY <1>8, <2>3, <3>1, CharacterRead DEF UserTyped
    <2> QED BY <2>1, <2>2, <2>4 DEF UserTyped
  <1>9. CASE UNCHANGED inputVars
    BY <1>1, <1>9 DEF inputVars, userVars, keyboardVars, deviceVars
  <1> QED BY <1>2, <1>3, <1>4, <1>5, <1>6, <1>7, <1>8, <1>9 DEF InputNext

(* Each byte the mouse has sent is counted once, and so are its answers:   *)
(* no more packets are handled than were sent.                             *)
Answers == IF at \in {"enable", "getConfiguration", "setConfiguration"} THEN 0
           ELSE IF at \in {"defaults", "defaultsSet"} THEN 1 ELSE 2
Handled == 3 * packet_count + Len(mouse_packet)
PacketsCounted ==
  /\ at \in {"enable", "getConfiguration", "setConfiguration", "defaults", "defaultsSet",
             "reporting", "running", "halted"}
  /\ pending \subseteq {1, 12} /\ inService \subseteq {1, 12}
  /\ left_button \in BOOLEAN /\ packet_count \in Nat
  /\ packets \in 0 .. MaxPackets
  /\ Handled + Times(12 \in pending) + Len(mouse) <= 3 * packets + Answers

LEMMA CountedInit == InputInit => PacketsCounted
  <1> SUFFICES ASSUME InputInit PROVE PacketsCounted
    OBVIOUS
  <1>1. Len(mouse_packet) = 0 /\ Len(mouse) = 0 /\ packet_count = 0 /\ packets = 0 /\ pending = {} /\ inService = {} /\ at = "enable"
    BY DEF InputInit
  <1>2. 0 \in 0 .. MaxPackets
    BY PacketBound
  <1>3. left_button \in BOOLEAN
    BY DEF InputInit
  <1> QED BY <1>1, <1>2, <1>3 DEF PacketsCounted, Handled, Times, Answers

LEMMA ByteCounted ==
  ASSUME mouse_packet \in Seq(MouseByte), Len(mouse_packet) < 3, packet_count \in Nat, left_button \in BOOLEAN,
         NEW value \in MouseByte, ps2mouse_interrupt(value)
  PROVE  left_button' \in BOOLEAN /\ packet_count' \in Nat /\ Handled' <= Handled + 1
  <1> DEFINE p == Append(mouse_packet, value)
  <1>1. p \in Seq(MouseByte) /\ Len(p) = Len(mouse_packet) + 1 /\ Len(mouse_packet) \in Nat
    BY Appended
  <1>2. CASE mouse_packet = <<>> /\ ~value.bit3
    <2>1. UNCHANGED mouseVars
      BY <1>2 DEF ps2mouse_interrupt, Begins
    <2>2. UNCHANGED <<mouse_packet, left_button, packet_count>>
      BY <2>1 DEF mouseVars
    <2>3. Handled' = Handled
      BY <2>2 DEF Handled
    <2>4. Handled \in Nat
      <3>1. \A a, b \in Nat : 3 * a + b \in Nat
        OBVIOUS
      <3> QED BY <1>1, <3>1 DEF Handled
    <2> QED BY <2>2, <2>3, <2>4
  <1>3. CASE ~(mouse_packet = <<>> /\ ~value.bit3) /\ Len(p) # 3
    <2>1. mouse_packet' = p /\ UNCHANGED <<left_button, packet_count>>
      BY <1>3 DEF ps2mouse_interrupt, Begins
    <2>2. Handled' = 3 * packet_count + (Len(mouse_packet) + 1)
      BY <1>1, <2>1 DEF Handled
    <2>3. \A a, b \in Nat : 3 * a + (b + 1) <= (3 * a + b) + 1
      OBVIOUS
    <2> QED BY <1>1, <2>1, <2>2, <2>3 DEF Handled
  <1>4. CASE ~(mouse_packet = <<>> /\ ~value.bit3) /\ Len(p) = 3
    <2>1. mouse_packet' = <<>> /\ \/ /\ left_button' = p[1].left /\ packet_count' = packet_count + 1
                                  \/ UNCHANGED <<left_button, packet_count>>
      BY <1>4 DEF ps2mouse_interrupt, Begins
    <2>2. p[1] \in MouseByte
      <3>1. 1 \in 1 .. 3
        OBVIOUS
      <3> QED BY <1>1, <1>4, <3>1, Appended
    <2>3. left_button' \in BOOLEAN
      BY <2>1, <2>2 DEF MouseByte
    <2>4. packet_count' \in Nat /\ (packet_count' = packet_count + 1 \/ packet_count' = packet_count)
      BY <2>1
    <2>5. Len(mouse_packet') = 0
      BY <2>1
    <2>6. Len(mouse_packet) = 2
      <3>1. \A a \in Nat : a + 1 = 3 => a = 2
        OBVIOUS
      <3>2. Len(mouse_packet) + 1 = 3
        BY <1>1, <1>4, Zenon
      <3> QED BY ONLY <1>1, <3>1, <3>2, Zenon
    <2>7. \A a, b \in Nat : b = a + 1 \/ b = a => 3 * b + 0 <= (3 * a + 2) + 1
      OBVIOUS
    <2>8. Handled = 3 * packet_count + 2 /\ Handled' = 3 * packet_count' + 0
      BY <2>5, <2>6, Zenon DEF Handled
    <2> QED BY <2>3, <2>4, <2>7, <2>8
  <1> QED BY <1>2, <1>3, <1>4

LEMMA CountedTypes ==
  ASSUME PacketsCounted, BytesTyped, Alignment
  PROVE  /\ Handled \in Nat /\ Times(12 \in pending) \in 0 .. 1 /\ Len(mouse) \in Nat /\ Answers \in 0 .. 2
         /\ packets \in Nat /\ packet_count \in Nat
  <1>1. Len(mouse_packet) \in Nat /\ packet_count \in Nat
    BY Appended DEF Alignment, PacketsCounted
  <1>2. \A a, b \in Nat : 3 * a + b \in Nat
    OBVIOUS
  <1>3. Handled \in Nat
    BY <1>1, <1>2 DEF Handled
  <1>4. Len(mouse) \in Nat
    BY DEF BytesTyped
  <1> QED BY <1>1, <1>3, <1>4 DEF Times, Answers, PacketsCounted

LEMMA CountedStep ==
  ASSUME PacketsCounted, BytesTyped, Alignment, [InputNext]_inputVars
  PROVE  PacketsCounted'
  <1>0. /\ Handled \in Nat /\ Times(12 \in pending) \in 0 .. 1 /\ Len(mouse) \in Nat /\ Answers \in 0 .. 2
        /\ packets \in 0 .. MaxPackets /\ packets \in Nat
        /\ Handled + Times(12 \in pending) + Len(mouse) <= 3 * packets + Answers
    BY CountedTypes DEF PacketsCounted
  <1>1. ASSUME UNCHANGED <<pending, inService, left_button, packet_count, packets, mouse_packet, mouse>>,
               at' \in {at, "halted"}
        PROVE  PacketsCounted'
    <2>1. Handled' = Handled /\ Len(mouse') = Len(mouse) /\ Times(12 \in pending') = Times(12 \in pending)
      BY <1>1 DEF Handled
    <2>2. Answers' = Answers \/ Answers' = 2
      BY <1>1 DEF Answers
    <2>3. Answers' \in Nat /\ Answers <= Answers'
      BY <1>0, <2>2
    <2>4. Handled' + Times(12 \in pending') + Len(mouse') <= 3 * packets' + Answers'
      BY ONLY <1>0, <1>1, <2>1, <2>3
    <2> QED BY <1>1, <2>4 DEF PacketsCounted
  <1>2. CASE KeyMoves \/ TimesOut \/ ReadInput \/ UNCHANGED inputVars
    BY <1>1, <1>2 DEF KeyMoves, TimesOut, ReadInput, inputVars, mouseVars, userVars, deviceVars
  <1>3. CASE MouseMoves
    <2>1. PICK movement \in Movements : mouse' = mouse \o PacketSent(packets', movement)
      BY <1>3 DEF MouseMoves
    <2>2. packets' = packets + 1 /\ packets' \in 0 .. MaxPackets
      BY <1>3, InputAssumption DEF MouseMoves, Within, BytesTyped
    <2>3. Len(PacketSent(packets', movement)) = 3 /\ PacketSent(packets', movement) \in Seq(PacketByte)
      BY <2>2, PacketType DEF PacketSent
    <2>4. Len(mouse') = Len(mouse) + 3
      <3>1. \A s \in Seq(PacketByte) : Len(mouse \o s) = Len(mouse) + Len(s)
        BY DEF BytesTyped
      <3> QED BY <2>1, <2>3, <3>1
    <2>5. UNCHANGED <<at, pending, inService, left_button, packet_count, mouse_packet>>
      BY <1>3 DEF MouseMoves, mouseVars
    <2>6. Handled' = Handled /\ Times(12 \in pending') = Times(12 \in pending) /\ Answers' = Answers
      BY <2>5 DEF Handled, Answers
    <2>7. Handled' + Times(12 \in pending') + Len(mouse') <= 3 * packets' + Answers'
      BY ONLY <1>0, <2>2, <2>4, <2>6
    <2> QED BY <2>2, <2>5, <2>7 DEF PacketsCounted
  <1>4. CASE MouseByteLost
    <2>1. UNCHANGED <<at, pending, inService, left_button, packet_count, packets, mouse_packet>>
      BY <1>4 DEF MouseByteLost, mouseVars
    <2>2. Len(mouse') \in Nat /\ Len(mouse') <= Len(mouse)
      <3>1. Len(mouse') = Len(mouse) - 1 /\ Len(mouse) \in Nat \ {0}
        BY <1>4 DEF MouseByteLost, BytesTyped
      <3> QED BY ONLY <3>1
    <2>3. Handled' = Handled /\ Times(12 \in pending') = Times(12 \in pending) /\ Answers' = Answers
      BY <2>1 DEF Handled, Answers
    <2>4. Handled' + Times(12 \in pending') + Len(mouse') <= 3 * packets' + Answers'
      BY ONLY <1>0, <2>1, <2>2, <2>3
    <2> QED BY <2>1, <2>4 DEF PacketsCounted
  <1>5. CASE Deliver
    <2>1. UNCHANGED <<at, inService, left_button, packet_count, packets, mouse_packet>>
      BY <1>5 DEF Deliver, mouseVars, userVars
    <2>2. Handled' = Handled /\ Answers' = Answers
      BY <2>1 DEF Handled, Answers
    <2>3. CASE mouse' = mouse /\ pending' = pending \cup {1}
      <3>1. Times(12 \in pending') = Times(12 \in pending)
        BY <2>3 DEF Times
      <3>2. Handled' + Times(12 \in pending') + Len(mouse') <= 3 * packets' + Answers'
        BY <1>0, <2>1, <2>2, <2>3, <3>1
      <3> QED BY <2>1, <2>3, <3>2 DEF PacketsCounted
    <2>4. CASE mouse # <<>> /\ mouse' = Tail(mouse) /\ pending' = pending \cup {12}
      <3>1. Times(12 \in pending') = 1
        BY <2>4 DEF Times
      <3>2. Len(mouse') = Len(mouse) - 1 /\ Len(mouse) \in Nat \ {0}
        BY <2>4 DEF BytesTyped
      <3>3. Handled' + Times(12 \in pending') + Len(mouse') <= 3 * packets' + Answers'
        BY ONLY <1>0, <2>1, <2>2, <3>1, <3>2
      <3> QED BY <2>1, <2>4, <3>3 DEF PacketsCounted
    <2> QED BY <1>5, <2>3, <2>4 DEF Deliver, Arrives
  <1>6. CASE ps2mouse_init
    <2>1. UNCHANGED <<inService, left_button, packet_count, packets, mouse_packet>>
      BY <1>6 DEF ps2mouse_init, mouseVars
    <2>2. Handled' = Handled
      BY <2>1 DEF Handled
    <2>3. CASE Asks /\ UNCHANGED <<port, last, pending, configuration>>
      <3>1. CASE at = "enable" /\ at' = "getConfiguration" /\ UNCHANGED mouse
        <4>1. Answers' = Answers
          BY <3>1 DEF Answers
        <4>2. Handled' + Times(12 \in pending') + Len(mouse') <= 3 * packets' + Answers'
          BY <1>0, <2>1, <2>2, <2>3, <3>1, <4>1
        <4> QED BY <2>1, <2>3, <3>1, <4>2 DEF PacketsCounted
      <3>2. CASE MouseAnswers /\ \/ at = "setConfiguration" /\ at' = "defaults"
                                 \/ at = "defaultsSet" /\ at' = "reporting"
        <4>1. Answers' = Answers + 1
          BY <3>2 DEF Answers
        <4>2. Len(mouse') = Len(mouse) + 1
          <5>1. PICK answer \in {"acknowledge", "resend"} : mouse' = Append(mouse, [dev |-> answer])
            BY <3>2 DEF MouseAnswers
          <5>2. [dev |-> answer] \in Answer \cup PacketByte
            BY <5>1 DEF Answer
          <5> QED BY <5>1, <5>2, Appended DEF BytesTyped
        <4>3. Handled' + Times(12 \in pending') + Len(mouse') <= 3 * packets' + Answers'
          BY ONLY <1>0, <2>1, <2>2, <2>3, <4>1, <4>2
        <4> QED BY <2>1, <2>3, <3>2, <4>3 DEF PacketsCounted
      <3> QED BY <2>3, <3>1, <3>2 DEF Asks
    <2>4. CASE Reads /\ UNCHANGED <<reply, mouse>>
      <3>1. pending' \subseteq pending /\ at' = After
             /\ at \in {"getConfiguration", "defaults", "reporting"}
        BY <2>4 DEF Reads, Poll
      <3>2. Times(12 \in pending') \in 0 .. 1 /\ Times(12 \in pending') <= Times(12 \in pending)
        BY <3>1 DEF Times
      <3>3. Answers <= Answers' /\ Answers' \in Nat
        BY <3>1 DEF Answers, After
      <3>4. at' \in {"setConfiguration", "halted", "defaultsSet", "running"}
        BY <3>1 DEF After
      <3>5. Handled' + Times(12 \in pending') + Len(mouse') <= 3 * packets' + Answers'
        BY <1>0, <2>1, <2>2, <2>4, <3>2, <3>3
      <3>6. pending' \subseteq {1, 12}
        BY <3>1 DEF PacketsCounted
      <3> QED BY <2>1, <3>4, <3>5, <3>6 DEF PacketsCounted
    <2> QED BY <1>6, <2>3, <2>4 DEF ps2mouse_init
  <1>7. CASE KeyboardInterrupt
    <2>1. UNCHANGED <<at, left_button, packet_count, packets, mouse_packet, mouse>>
      BY <1>7 DEF KeyboardInterrupt, mouseVars
    <2>2. pending' = pending \ {1} /\ inService' \subseteq inService \cup {1}
      BY <1>7 DEF KeyboardInterrupt
    <2>3. Times(12 \in pending') = Times(12 \in pending) /\ Handled' = Handled /\ Answers' = Answers
      BY <2>1, <2>2 DEF Times, Handled, Answers
    <2>4. Handled' + Times(12 \in pending') + Len(mouse') <= 3 * packets' + Answers'
      BY <1>0, <2>1, <2>3
    <2>5. pending' \subseteq {1, 12} /\ inService' \subseteq {1, 12}
      BY <2>2 DEF PacketsCounted
    <2> QED BY <2>1, <2>4, <2>5 DEF PacketsCounted
  <1>8. CASE MouseInterrupt
    <2>1. UNCHANGED <<at, inService, packets, mouse>> /\ pending' = pending \ {12} /\ 12 \in pending
      BY <1>8 DEF MouseInterrupt
    <2>2. PICK value \in AsMouseByte(Value) : ps2mouse_interrupt(value)
      BY <1>8 DEF MouseInterrupt
    <2>3. value \in MouseByte
      BY <2>2, MouseByteType
    <2>4. left_button' \in BOOLEAN /\ packet_count' \in Nat /\ Handled' <= Handled + 1
      BY <2>2, <2>3, ByteCounted DEF Alignment, PacketsCounted
    <2>5. Handled' \in Nat
      <3>1. Len(mouse_packet') \in Nat
        BY <2>2, <2>3, ByteHandled, Appended DEF Alignment
      <3>2. \A a, b \in Nat : 3 * a + b \in Nat
        OBVIOUS
      <3> QED BY <2>4, <3>1, <3>2 DEF Handled
    <2>6. Times(12 \in pending') = 0 /\ Times(12 \in pending) = 1 /\ Answers' = Answers
      BY <2>1 DEF Times, Answers
    <2>7. Handled' + Times(12 \in pending') + Len(mouse') <= 3 * packets' + Answers'
      BY <1>0, <2>1, <2>4, <2>5, <2>6
    <2>8. pending' \subseteq {1, 12}
      BY <2>1 DEF PacketsCounted
    <2> QED BY <2>1, <2>4, <2>7, <2>8 DEF PacketsCounted
  <1> QED BY <1>2, <1>3, <1>4, <1>5, <1>6, <1>7, <1>8 DEF InputNext

LEMMA TypesFollow ==
  ASSUME Inv, UserTyped, BytesTyped, Alignment, PacketsCounted
  PROVE  InputTypeOK
  <1>1. packet_count \in 0 .. MaxPackets + 1
    <2>1. /\ Handled + Times(12 \in pending) + Len(mouse) <= 3 * packets + Answers
          /\ Times(12 \in pending) \in 0 .. 1 /\ Len(mouse) \in Nat /\ Answers \in 0 .. 2 /\ packet_count \in Nat
          /\ Len(mouse_packet) \in Nat /\ packets \in 0 .. MaxPackets
      BY CountedTypes, Appended DEF PacketsCounted, Alignment
    <2>2. \A h, t, m, p, a, c, n \in Nat : /\ h + t + m <= 3 * p + a /\ a <= 2 /\ h = 3 * c + n
                                         => c <= p
      OBVIOUS
    <2>3. packet_count <= packets
      BY <2>1, <2>2 DEF Handled
    <2> QED BY ONLY <2>1, <2>3, PacketBound, PacketsCounted DEF PacketsCounted
  <1>2. port \in Seq(KeyByte \cup Answer \cup PacketByte) /\ Len(port) <= 1
    BY DEF BytesTyped, Bytes, Alignment
  <1>3. /\ TypeOK /\ keyboard_shift \in BOOLEAN /\ keyboard_capslock \in BOOLEAN
        /\ mouse_packet \in Seq(MouseByte) /\ Len(mouse_packet) < 3 /\ left_button \in BOOLEAN
    BY DEF Inv, UserTyped, Alignment, PacketsCounted
  <1>4. /\ at \in {"enable", "getConfiguration", "setConfiguration", "defaults", "defaultsSet",
                   "report", "reporting", "running", "halted"}
        /\ reply \in BOOLEAN /\ keys \in Seq(KeyByte) /\ Len(keys) <= KeyboardQueue
        /\ pending \subseteq {1, 12} /\ inService \subseteq {1, 12}
        /\ line \in Seq(Chars) /\ Len(line) <= LineMax
    BY DEF UserTyped, BytesTyped, PacketsCounted
  <1> QED BY <1>1, <1>2, <1>3, <1>4, Zenon DEF InputTypeOK

(* As long as no scan code got lost, came to the mouse's handler, or was   *)
(* taken for the controller's answer: the bytes on their way will be taken *)
(* for what was meant by them, those typed were, and the line shows it.    *)
(* A request for the keyboard's handler that is left over from             *)
(* ps2mouse_init does not make it read a key twice.                        *)
KeyNotStale == clean /\ at = "running" /\ 1 \in pending /\ port = <<>> => last.dev # "key"
NotAskedYet == /\ at \in {"enable", "getConfiguration"} => configuration = "nobody"
               /\ configuration # "configuration" => draft = <<>> /\ line = <<>>
Understood ==
  clean /\ configuration # "key" =>
    /\ FromKey(port) => port[1].meant = TypedIn(HandlersState, port[1].code)
    /\ Foretold(StateAhead, keys, UsersState)
    /\ Content = meant
    /\ Len(draft) <= LineMax => line = Edited(draft)

LEMMA UnderstoodInit == InputInit => KeyNotStale /\ NotAskedYet /\ Understood
  <1> SUFFICES ASSUME InputInit PROVE KeyNotStale /\ NotAskedYet /\ Understood
    OBVIOUS
  <1>1. at = "enable" /\ configuration = "nobody" /\ port = <<>> /\ keys = <<>> /\ meant = <<>>
        /\ draft = <<>> /\ line = <<>> /\ head = 0 /\ tail = 0
    BY DEF InputInit, input_buffer_init
  <1>2. HandlersState = UsersState
    BY DEF HandlersState, UsersState, InputInit
  <1>3. ~FromKey(port) /\ StateAhead = HandlersState
    BY <1>1 DEF FromKey, StateAhead
  <1>4. Foretold(StateAhead, keys, UsersState)
    BY <1>1, <1>2, <1>3, ForetoldNothing
  <1>5. Content = <<>>
    BY <1>1 DEF Content, Used
  <1> QED BY <1>1, <1>3, <1>4, <1>5, EditedEmpty DEF KeyNotStale, NotAskedYet, Understood

LEMMA NotStaleStep ==
  ASSUME KeyNotStale, NotAskedYet, ConfigurationKept, [InputNext]_inputVars
  PROVE  KeyNotStale' /\ NotAskedYet'
  <1>1. ASSUME UNCHANGED <<pending, port, last, configuration, draft, line>>, at' \in {at, "halted"}, clean' => clean
        PROVE  KeyNotStale' /\ NotAskedYet'
    BY <1>1 DEF KeyNotStale, NotAskedYet
  <1>2. CASE KeyMoves
    BY <1>1, <1>2 DEF KeyMoves
  <1>3. CASE MouseMoves \/ MouseByteLost \/ TimesOut
    BY <1>1, <1>3 DEF MouseMoves, MouseByteLost, TimesOut, userVars
  <1>4. CASE UNCHANGED inputVars
    BY <1>1, <1>4 DEF inputVars, userVars, deviceVars
  <1>5. CASE ReadInput
    BY <1>5 DEF ReadInput, deviceVars, ConfigurationKept, KeyNotStale, NotAskedYet
  <1>6. CASE Deliver
    <2>1. \A byte : <<byte>> # <<>>
      OBVIOUS
    <2>2. port' # <<>>
      BY <1>6, <2>1, Zenon DEF Deliver, Arrives
    <2>3. UNCHANGED <<at, configuration, draft, line>>
      BY <1>6 DEF Deliver, userVars
    <2> QED BY <2>2, <2>3 DEF KeyNotStale, NotAskedYet
  <1>7. CASE ps2mouse_init
    <2>0. UNCHANGED <<draft, line>>
      BY <1>7 DEF ps2mouse_init
    <2>1. CASE Asks /\ UNCHANGED <<port, last, pending, configuration>>
      <3>1. at' # "running" /\ (at' = "getConfiguration" => at = "enable") /\ at' # "enable"
        BY <2>1 DEF Asks
      <3> QED BY <2>0, <2>1, <3>1 DEF KeyNotStale, NotAskedYet
    <2>2. CASE Reads /\ UNCHANGED <<reply, mouse>>
      <3>1. at' \in {"setConfiguration", "halted", "defaultsSet", "running"}
        BY <2>2 DEF Reads, After
      <3>2. at' = "running" => port # <<>> /\ port[1].dev \in {"mouse", "acknowledge", "resend"} /\ last' = port[1]
        BY <2>2 DEF Reads, After, Poll, ReadPort, Value
      <3>3. UNCHANGED configuration \/ at = "getConfiguration"
        BY <2>2 DEF Reads
      <3> QED BY <2>0, <3>1, <3>2, <3>3 DEF KeyNotStale, NotAskedYet
    <2> QED BY <1>7, <2>1, <2>2 DEF ps2mouse_init
  <1>8. CASE KeyboardInterrupt \/ MouseInterrupt
    <2>1. 1 \notin pending' /\ at' = "running" /\ UNCHANGED <<configuration, draft, line>>
      BY <1>8 DEF KeyboardInterrupt, MouseInterrupt
    <2> QED BY <2>1 DEF KeyNotStale, NotAskedYet
  <1> QED BY <1>2, <1>3, <1>4, <1>5, <1>6, <1>7, <1>8 DEF InputNext

(* A key goes onto the queue with what it means in the user's state.       *)
LEMMA KeyUnderstood ==
  ASSUME Understood, UserTyped, BytesTyped, KeyMoves
  PROVE  Understood'
  <1>1. PICK code \in ScanCode :
          /\ IF code.key \in ShiftKeys THEN code.down <=> code.key \notin held ELSE code.down
          /\ held' = HeldAfter(code)
          /\ light' = (light # (code.key = CapsLock))
          /\ clean' = (clean /\ Len(keys) < KeyboardQueue /\ Cardinality(held') <= 1)
          /\ keys' = IF Len(keys) = KeyboardQueue THEN keys ELSE Append(keys, CodeByte(code))
          /\ CodeByte(code) \in KeyByte
    BY KeyMoved
  <1> SUFFICES ASSUME clean', configuration' # "key"
               PROVE  /\ FromKey(port') => port'[1].meant = TypedIn(HandlersState', port'[1].code)
                      /\ Foretold(StateAhead', keys', UsersState')
                      /\ Content' = meant'
                      /\ Len(draft') <= LineMax => line' = Edited(draft')
    BY DEF Understood
  <1>2. UNCHANGED <<ringVars, keyboardVars, port, configuration, meant, draft, line>>
    BY DEF KeyMoves
  <1>3. /\ HandlersState' = HandlersState /\ StateAhead' = StateAhead /\ Content' = Content
    BY <1>2 DEF HandlersState, StateAhead, FromKey, Content, Used, Cell, ringVars, keyboardVars
  <1>4. clean /\ configuration # "key" /\ Len(keys) < KeyboardQueue
    BY <1>1, <1>2
  <1>5. keys' = Append(keys, CodeByte(code))
    <2>1. Len(keys) # KeyboardQueue
      BY <1>4, Appended, InputAssumption DEF BytesTyped
    <2> QED BY <1>1, <2>1
  <1>6. CodeByte(code).code = code /\ CodeByte(code).meant = TypedIn(UsersState, code)
    BY UserMeans DEF CodeByte
  <1>7. UsersState' = AfterCode(UsersState, code)
    <2>1. (held' # {}) <=> IF code.key \in ShiftKeys THEN code.down ELSE held # {}
      BY <1>1, <1>4, HeldOrNot
    <2>2. (held' # {}) = IF code.key \in ShiftKeys THEN code.down ELSE held # {}
      <3>1. code.down \in BOOLEAN
        BY DEF ScanCode
      <3> QED BY <2>1, <3>1
    <2>3. light' = (light # (code.key = CapsLock /\ code.down))
      <3>1. code.key = CapsLock => code.down
        BY <1>1, KeyboardAssumption
      <3>2. (code.key = CapsLock) = (code.key = CapsLock /\ code.down)
        BY <3>1
      <3> QED BY <1>1, <3>2, Zenon
    <2> QED BY <2>2, <2>3 DEF UsersState, AfterCode
  <1>8. Foretold(StateAhead, keys, UsersState)
    BY <1>4 DEF Understood
  <1>9. Foretold(StateAhead', keys', UsersState')
    <2>1. Foretold(StateAhead, Append(keys, CodeByte(code)), AfterCode(UsersState, CodeByte(code).code))
      BY <1>1, <1>6, <1>8, ForetoldAppend DEF BytesTyped
    <2> QED BY <1>3, <1>5, <1>6, <1>7, <2>1
  <1> QED BY <1>2, <1>3, <1>4, <1>9 DEF Understood

(* The first of them comes into the port.                                  *)
LEMMA DeliveryUnderstood ==
  ASSUME Understood, BytesTyped, Deliver
  PROVE  Understood'
  <1>1. UNCHANGED <<ringVars, keyboardVars, line, userVars>> /\ port = <<>>
    BY DEF Deliver, Arrives
  <1>2. UNCHANGED <<configuration, clean, held, light, meant, draft>>
    BY <1>1 DEF userVars
  <1>3. HandlersState' = HandlersState /\ UsersState' = UsersState /\ Content' = Content
    BY <1>1, <1>2 DEF HandlersState, UsersState, Content, Used, Cell, ringVars, keyboardVars
  <1>4. StateAhead = HandlersState
    BY <1>1 DEF StateAhead, FromKey
  <1>5. CASE \E x : port' = <<x>> /\ x.dev # "key" /\ keys' = keys
    <2>1. ~FromKey(port') /\ StateAhead' = HandlersState
      BY <1>3, <1>5 DEF FromKey, StateAhead
    <2> QED BY <1>1, <1>2, <1>3, <1>4, <1>5, <2>1 DEF Understood
  <1>6. CASE keys # <<>> /\ port' = <<Head(keys)>> /\ keys' = Tail(keys)
    <2> SUFFICES ASSUME clean, configuration # "key"
                 PROVE  /\ FromKey(port') => port'[1].meant = TypedIn(HandlersState', port'[1].code)
                        /\ Foretold(StateAhead', keys', UsersState')
                        /\ Content' = meant'
                        /\ Len(draft') <= LineMax => line' = Edited(draft')
      BY <1>2 DEF Understood
    <2>1. keys[1] \in KeyByte /\ Head(keys) = keys[1]
      BY <1>6, SeqFacts DEF BytesTyped
    <2>2. port' # <<>> /\ port'[1] = keys[1] /\ keys[1].dev = "key"
      <3>1. keys[1].dev = "key"
        BY <2>1 DEF KeyByte
      <3> QED BY <1>6, <2>1, <3>1
    <2>3. FromKey(port') /\ StateAhead' = AfterCode(HandlersState, keys[1].code)
      BY <1>3, <2>2 DEF FromKey, StateAhead
    <2>4. Foretold(HandlersState, keys, UsersState)
      BY <1>4 DEF Understood
    <2>5. /\ keys[1].meant = TypedIn(HandlersState, keys[1].code)
          /\ Foretold(AfterCode(HandlersState, keys[1].code), Tail(keys), UsersState)
      BY <1>6, <2>4, ForetoldTail DEF BytesTyped
    <2> QED BY <1>1, <1>2, <1>3, <1>6, <2>2, <2>3, <2>5 DEF Understood
  <1>7. mouse # <<>> => Head(mouse).dev # "key"
    <2>1. mouse # <<>> => Head(mouse) \in Answer \cup PacketByte
      BY SeqFacts DEF BytesTyped
    <2> QED BY <2>1 DEF Answer, PacketByte
  <1>8. [dev |-> "configuration"].dev # "key"
    OBVIOUS
  <1> QED BY <1>5, <1>6, <1>7, <1>8 DEF Deliver, Arrives

(* The handler takes it for what was meant.                                *)
LEMMA HandlerUnderstands ==
  ASSUME Understood, KeyNotStale, ConfigurationKept, UserTyped, BytesTyped, Inv, KeyboardInterrupt
  PROVE  Understood'
  <1>1. PICK code \in AsScanCode(Value) :
          /\ keyboard_interrupt(code)
          /\ clean' = (clean /\ Value.dev # "mouse" /\ Len(meant') < Size)
          /\ meant' = meant \o Intended(Value)
    BY DEF KeyboardInterrupt
  <1>2. /\ at = "running" /\ 1 \in pending /\ port' = <<>>
        /\ UNCHANGED <<keys, line, held, light, draft, configuration>>
    BY DEF KeyboardInterrupt, ReadPort
  <1> SUFFICES ASSUME clean'
               PROVE  /\ FromKey(port') => port'[1].meant = TypedIn(HandlersState', port'[1].code)
                      /\ Foretold(StateAhead', keys', UsersState')
                      /\ Content' = meant'
                      /\ Len(draft') <= LineMax => line' = Edited(draft')
    BY DEF Understood
  <1>3. clean /\ Value.dev # "mouse" /\ configuration # "key" /\ Len(meant') < Size
    BY <1>1, <1>2 DEF ConfigurationKept
  <1>10. /\ Intended(Value) = <<>> => meant' = meant
         /\ \A c \in Chars : Intended(Value) = <<c>> => meant' = Append(meant, c)
    <2>1. \A m \in Seq(Chars), c \in Chars : m \o <<>> = m /\ m \o <<c>> = Append(m, c)
      OBVIOUS
    <2>2. meant \in Seq(Chars) /\ meant' = meant \o Intended(Value)
      BY <1>1 DEF UserTyped
    <2>3. ASSUME Intended(Value) = <<>>
          PROVE  meant' = meant
      <3>1. meant' = meant \o <<>>
        BY ONLY <2>2, <2>3, Zenon
      <3>2. meant \o <<>> = meant
        BY ONLY <2>2
      <3> QED BY ONLY <3>1, <3>2, Zenon
    <2>4. ASSUME NEW c \in Chars, Intended(Value) = <<c>>
          PROVE  meant' = Append(meant, c)
      <3>1. meant' = meant \o <<c>>
        BY ONLY <2>2, <2>4, Zenon
      <3> QED BY ONLY <2>1, <2>2, <3>1, Zenon
    <2> QED BY ONLY <2>3, <2>4, Zenon
  <1>4. ~FromKey(port') /\ StateAhead' = HandlersState' /\ UsersState' = UsersState
    BY <1>2 DEF FromKey, StateAhead, UsersState
  <1>5. /\ HandlersState' = AfterCode(HandlersState, code) /\ Typed(code) = TypedIn(HandlersState, code)
        /\ Typed(code) = Nul => UNCHANGED ringVars
        /\ Typed(code) # Nul => input_buffer_push(Typed(code))
    BY <1>1, HandlerTypes
  <1>6. /\ FromKey(port) => port[1].meant = TypedIn(HandlersState, port[1].code)
        /\ Foretold(StateAhead, keys, UsersState)
        /\ Content = meant
        /\ Len(draft) <= LineMax => line = Edited(draft)
    BY <1>3 DEF Understood
  <1>7. UNCHANGED ringVars => Content' = Content
    BY DEF Content, Used, Cell, ringVars
  <1>8. CASE Value.dev = "key"
    <2>1. FromKey(port) /\ Value = port[1]
      BY <1>2, <1>3, <1>8 DEF KeyNotStale, Value, FromKey
    <2>2. code = port[1].code
      BY <1>1, <1>8, <2>1 DEF AsScanCode
    <2>3. StateAhead' = StateAhead
      BY <1>4, <1>5, <2>1, <2>2 DEF StateAhead
    <2>4. Typed(code) = Value.meant
      BY <1>5, <1>6, <2>1, <2>2
    <2>5. Content' = meant'
      <3>1. CASE Value.meant = Nul
        <4>1. meant' = meant
          BY <1>10, <3>1 DEF Intended
        <4> QED BY <1>5, <1>6, <1>7, <2>4, <3>1, <4>1
      <3>2. CASE Value.meant # Nul
        <4>1. Typed(code) \in Chars
          BY <2>4, <3>2, ScanCodeType, TypedType
        <4>4. meant' = Append(meant, Value.meant)
          BY <1>8, <1>10, <2>4, <3>2, <4>1 DEF Intended
        <4>2. CASE PushStores(Typed(code))
          <5>1. Content' = Append(Content, Typed(code))
            BY <4>1, <4>2, PushAppends
          <5> QED BY <1>6, <2>4, <4>4, <5>1
        <4>3. CASE PushRefused
          <5>1. Used = Size - 1
            BY <4>3, UsedType DEF PushRefused, Inv
          <5>2. Len(meant) = Used /\ Len(meant') = Len(meant) + 1
            BY <1>6, <2>4, <4>1, <4>4, ContentIsSeq, Appended DEF UserTyped
          <5>3. ~(Len(meant') < Size)
            BY <5>1, <5>2, SizeAssumption
          <5> QED BY <1>3, <5>3
        <4> QED BY <1>5, <2>4, <3>2, <4>2, <4>3 DEF input_buffer_push
      <3> QED BY <3>1, <3>2
    <2> QED BY <1>2, <1>4, <1>6, <2>3, <2>5
  <1>9. CASE Value.dev # "key"
    <2>1. ~FromKey(port)
      BY <1>9 DEF FromKey, Value
    <2>2. code \in [key : Other, down : {FALSE}]
      BY <1>1, <1>3, <1>9 DEF AsScanCode
    <2>3. code.key \in Other /\ code.down = FALSE
      BY <2>2
    <2>4. HandlersState' = HandlersState
      <3>1. code.key \notin ShiftKeys
        BY <2>3, KeyboardAssumption
      <3>2. keyboard_capslock = (keyboard_capslock # FALSE)
        BY DEF UserTyped
      <3>3. (code.key = CapsLock /\ code.down) = FALSE
        BY <2>3
      <3>4. keyboard_shift' = keyboard_shift
        BY <1>1, <3>1 DEF keyboard_interrupt, ShiftAfter
      <3>5. keyboard_capslock' = keyboard_capslock
        BY <1>1, <3>2, <3>3 DEF keyboard_interrupt, CapsAfter
      <3> QED BY <3>4, <3>5 DEF HandlersState
    <2>5. Typed(code) = Nul
      BY <2>3 DEF Typed
    <2>6. Content' = meant'
      <3>1. meant' = meant
        BY <1>9, <1>10 DEF Intended
      <3> QED BY <1>5, <1>6, <1>7, <2>5, <3>1
    <2>7. StateAhead' = StateAhead
      BY <1>4, <2>1, <2>4 DEF StateAhead
    <2> QED BY <1>2, <1>4, <1>6, <2>6, <2>7
  <1> QED BY <1>8, <1>9

LEMMA UnderstoodStep ==
  ASSUME Understood, KeyNotStale, NotAskedYet, ConfigurationKept, UserTyped, BytesTyped, Inv, [InputNext]_inputVars
  PROVE  Understood'
  <1>1. ASSUME UNCHANGED <<ringVars, keyboardVars, keys, held, light, configuration, line, draft, meant>>,
               clean' => clean, FromKey(port) => clean' = FALSE, ~FromKey(port')
        PROVE  Understood'
    <2>1. HandlersState' = HandlersState /\ UsersState' = UsersState /\ Content' = Content
      BY <1>1 DEF HandlersState, UsersState, Content, Used, Cell, ringVars, keyboardVars
    <2>2. clean' => StateAhead' = StateAhead
      BY <1>1, <2>1 DEF StateAhead
    <2> QED BY <1>1, <2>1, <2>2 DEF Understood
  <1>2. ASSUME UNCHANGED <<ringVars, keyboardVars, keys, port, held, light, clean, configuration, line, draft, meant>>
        PROVE  Understood'
    <2>1. HandlersState' = HandlersState /\ UsersState' = UsersState /\ Content' = Content
      BY <1>2 DEF HandlersState, UsersState, Content, Used, Cell, ringVars, keyboardVars
    <2>2. StateAhead' = StateAhead
      BY <1>2, <2>1 DEF StateAhead, FromKey
    <2> QED BY <1>2, <2>1, <2>2 DEF Understood, FromKey
  <1>3. CASE KeyMoves
    BY <1>3, KeyUnderstood
  <1>4. CASE MouseMoves \/ MouseByteLost \/ TimesOut
    BY <1>2, <1>4 DEF MouseMoves, MouseByteLost, TimesOut, userVars
  <1>5. CASE UNCHANGED inputVars
    BY <1>2, <1>5 DEF inputVars, userVars, deviceVars
  <1>6. CASE Deliver
    BY <1>6, DeliveryUnderstood
  <1>7. CASE ps2mouse_init
    <2>1. UNCHANGED <<ringVars, keyboardVars, keys, line, held, light, meant, draft, clean>>
      BY <1>7 DEF ps2mouse_init
    <2>2. CASE Asks /\ UNCHANGED <<port, last, pending, configuration>>
      BY <1>2, <2>1, <2>2
    <2>3. CASE at = "getConfiguration" /\ Poll(FALSE) /\ configuration' = port[1].dev
      <3>1. CASE port[1].dev = "key"
        BY <2>3, <3>1 DEF Understood
      <3>2. CASE port[1].dev # "key"
        <4>1. ~FromKey(port) /\ ~FromKey(port')
          BY <2>3, <3>2 DEF FromKey, Poll, ReadPort
        <4>2. HandlersState' = HandlersState /\ UsersState' = UsersState /\ Content' = Content
          BY <2>1 DEF HandlersState, UsersState, Content, Used, Cell, ringVars, keyboardVars
        <4>3. StateAhead' = StateAhead
          BY <4>1, <4>2 DEF StateAhead
        <4> QED BY <2>1, <2>3, <4>1, <4>2, <4>3 DEF Understood, NotAskedYet
      <3> QED BY <3>1, <3>2
    <2>4. CASE Poll(TRUE) /\ UNCHANGED configuration
      <3>1. ~FromKey(port) /\ ~FromKey(port')
        BY <2>4 DEF FromKey, Poll, ReadPort
      <3> QED BY <1>1, <2>1, <2>4, <3>1
    <2> QED BY <1>7, <2>2, <2>3, <2>4 DEF ps2mouse_init, Reads
  <1>8. CASE KeyboardInterrupt
    BY <1>8, HandlerUnderstands
  <1>9. CASE MouseInterrupt
    <2>1. UNCHANGED <<ringVars, keyboardVars, keys, held, light, configuration, line, draft, meant>> /\ port' = <<>>
      BY <1>9 DEF MouseInterrupt, ReadPort
    <2>2. clean' = (clean /\ ~(port # <<>> /\ Value.dev = "key"))
      BY <1>9 DEF MouseInterrupt
    <2>3. FromKey(port) => port # <<>> /\ Value.dev = "key"
      BY DEF FromKey, Value
    <2>4. ~FromKey(port')
      BY <2>1 DEF FromKey
    <2> QED BY <1>1, <2>1, <2>2, <2>3, <2>4
  <1>10. CASE ReadInput
    <2>1. UNCHANGED <<keyboardVars, port, keys, held, light, clean, configuration>>
      BY <1>10 DEF ReadInput, deviceVars
    <2>2. HandlersState' = HandlersState /\ UsersState' = UsersState /\ StateAhead' = StateAhead
          /\ (FromKey(port') <=> FromKey(port))
      BY <2>1 DEF HandlersState, UsersState, StateAhead, FromKey, keyboardVars
    <2>3. ASSUME clean, configuration # "key"
          PROVE  Content' = meant' /\ (Len(draft') <= LineMax => line' = Edited(draft'))
      <3>1. Content = meant /\ (Len(draft) <= LineMax => line = Edited(draft))
        BY <2>3 DEF Understood
      <3>2. CASE UNCHANGED <<Content, line, draft, meant>>
        BY <3>1, <3>2
      <3>3. CASE ~UNCHANGED <<Content, line, draft, meant>>
        <4>1. /\ Content # <<>> /\ Content \in Seq(Chars) /\ Head(Content) \in Chars
              /\ Content' = Tail(Content) /\ line' = Edit(line, Head(Content))
              /\ draft' = IF meant = <<>> THEN draft
                          ELSE IF Head(meant) = Enter THEN <<>> ELSE Append(draft, Head(meant))
              /\ meant' = IF meant # <<>> THEN Tail(meant) ELSE meant
          BY <1>10, <3>3, CharacterRead
        <4>2. draft' = IF Head(meant) = Enter THEN <<>> ELSE Append(draft, Head(meant))
          BY <3>1, <4>1
        <4>3. ASSUME Len(draft') <= LineMax
              PROVE  Edit(line, Head(meant)) = Edited(draft')
          <5>1. line \in Seq(Chars) /\ draft \in Seq(Chars)
            BY DEF UserTyped
          <5>2. Head(meant) \in Chars
            BY <3>1, <4>1
          <5>3. \A further : /\ further = IF Head(meant) = Enter THEN <<>> ELSE Append(draft, Head(meant))
                             /\ Len(further) <= LineMax
                             => Edit(line, Head(meant)) = Edited(further)
            BY ONLY <3>1, <5>1, <5>2, LineFollows
          <5> QED BY ONLY <4>2, <4>3, <5>3, Zenon
        <4> QED BY <3>1, <4>1, <4>3
      <3> QED BY <3>2, <3>3
    <2> QED BY <2>1, <2>2, <2>3 DEF Understood
  <1> QED BY <1>3, <1>4, <1>5, <1>6, <1>7, <1>8, <1>9, <1>10 DEF InputNext

(* Whatever the order in which keys, interrupts and readings come, with    *)
(* whatever tables of characters and whatever sizes of the ring, the line  *)
(* and the keyboard's queue: the console's line is what the user meant, as *)
(* long as no scan code got lost or came to the mouse, no two shift keys   *)
(* were held at once, the buffer had room for each character and the line  *)
(* has; and the state keeps its types.                                     *)
THEOREM InputLineAsTyped == InputSpec => []LineAsTyped
  <1>1. InputSpec => []Inv
    BY InputIsBuffer, InputBufferSafe DEF Inv
  <1>2. InputSpec => []BytesTyped
    BY BytesInit, BytesStep, PTL DEF InputSpec
  <1>3. InputSpec => []Alignment
    BY AlignmentAlways, PTL
  <1>4. InputSpec => []UserTyped
    <2>1. UserTyped /\ BytesTyped /\ Inv /\ [InputNext]_inputVars => UserTyped'
      BY UserTypedStep
    <2> QED BY <1>1, <1>2, <2>1, UserTypedInit, PTL DEF InputSpec
  <1>5. InputSpec => []PacketsCounted
    <2>1. PacketsCounted /\ BytesTyped /\ Alignment /\ [InputNext]_inputVars => PacketsCounted'
      BY CountedStep
    <2> QED BY <1>2, <1>3, <2>1, CountedInit, PTL DEF InputSpec
  <1>6. InputSpec => [](KeyNotStale /\ NotAskedYet)
    <2>1. KeyNotStale /\ NotAskedYet /\ ConfigurationKept /\ [InputNext]_inputVars => KeyNotStale' /\ NotAskedYet'
      BY NotStaleStep
    <2> QED BY <2>1, UnderstoodInit, InputConfigurationKept, PTL DEF InputSpec
  <1>7. InputSpec => []Understood
    <2>1. Understood /\ KeyNotStale /\ NotAskedYet /\ ConfigurationKept /\ UserTyped /\ BytesTyped /\ Inv
            /\ [InputNext]_inputVars => Understood'
      BY UnderstoodStep
    <2> QED BY <1>1, <1>2, <1>4, <1>6, <2>1, UnderstoodInit, InputConfigurationKept, PTL DEF InputSpec
  <1>8. /\ Inv /\ UserTyped /\ BytesTyped /\ Alignment /\ PacketsCounted => InputTypeOK
    BY TypesFollow
  <1>9. Understood /\ NotAskedYet /\ InputTypeOK => LineAsTyped
    <2>1. configuration = "key" => configuration # "configuration"
      OBVIOUS
    <2> QED BY <2>1, EditedEmpty DEF Understood, NotAskedYet, LineAsTyped
  <1> QED BY <1>1, <1>2, <1>3, <1>4, <1>5, <1>6, <1>7, <1>8, <1>9, PTL
=============================================================================
