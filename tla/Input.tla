------------------------------- MODULE Input --------------------------------
(***************************************************************************)
(* From the keys and the mouse to the console's line: the two devices, the *)
(* controller they share (one byte at a time, at port 0x60), the two       *)
(* interrupt handlers, the input buffer, and the line editor of            *)
(* programs/console.cpp.  ps2mouse_init sets the mouse up beforehand, with *)
(* interrupts disabled: it polls the port that key presses arrive at too.  *)
(*                                                                         *)
(* A handler is one step, for it runs with interrupts disabled; so is a    *)
(* read_input system call with what the console does to its line.          *)
(***************************************************************************)
EXTENDS Keyboard, Mouse, FiniteSets, SequencesExt

CONSTANTS Enter,          \* the character of the Enter key
          LineMax,        \* max_cmd_len - 1 (127)
          KeyboardQueue,  \* how many scan codes the keyboard itself keeps
          Movements,      \* the packets the mouse sends, as three bytes each
          Mixes,          \* bound: how many key movements with how many packets
          MaxLost         \* bound on lost bytes of the mouse

ASSUME InputAssumption ==
  Enter \in Chars /\ Enter # Erase /\ LineMax \in Nat /\ KeyboardQueue \in Nat \ {0}
  /\ MaxPackets \in Nat /\ Mixes \subseteq Nat \X (0 .. MaxPackets) /\ MaxLost \in Nat

ASSUME MovementsAssumption ==
  /\ Movements \subseteq [1 .. 3 -> [bit3 : BOOLEAN, overflow : BOOLEAN, left : BOOLEAN]]
  /\ \A movement \in Movements : movement[1].bit3

VARIABLES at,         \* where kernel_main is in ps2mouse_init, or "running", or "halted"
          port,       \* the controller's output buffer: no byte or one
          last,       \* the byte read last, which an empty port gives again
          reply,      \* an answer of the controller that is not yet in the port
          keys, mouse,\* the bytes the devices wait to send
          pending,    \* interrupts that were requested: 1 and 12
          inService,  \* those whose handler has not acknowledged them
          line        \* the console's line

(* What the user sees and does, and what went wrong.                       *)
VARIABLES held, light,    \* the shift keys held down, and the caps lock light
          meant,          \* what was meant by the characters in the buffer
          draft,          \* and by those the console has read since the last Enter
          clean,          \* no scan code and no character got lost, and no two shift
                          \* keys were held at once
          configuration,  \* whose configuration byte ps2mouse_init has set
          disturbed,      \* bytes the mouse's handler missed, or got from elsewhere
          alike,          \* movement bytes it got that look like the first of a packet
          moved, packets, \* how many key movements and packets there were
          lost            \* how many bytes of the mouse got lost

deviceVars == <<at, port, last, reply, keys, mouse, pending, inService>>
userVars == <<held, light, meant, draft, clean, configuration, disturbed, alike,
              moved, packets, lost>>
inputVars == <<ringVars, keyboardVars, mouseVars, deviceVars, line, userVars>>

KeyByte == [dev : {"key"}, code : ScanCode, meant : Chars \cup {Nul}]
Answer == [dev : {"configuration", "acknowledge", "resend"}]
PacketByte == [dev : {"mouse"}, byte : MouseByte]

InputTypeOK ==
  /\ TypeOK /\ keyboard_shift \in BOOLEAN /\ keyboard_capslock \in BOOLEAN
  /\ mouse_packet \in Seq(MouseByte) /\ Len(mouse_packet) < 3
  /\ left_button \in BOOLEAN /\ packet_count \in 0 .. MaxPackets + 1
  /\ at \in {"enable", "getConfiguration", "setConfiguration", "defaults", "defaultsSet",
             "report", "reporting", "running", "halted"}
  /\ port \in Seq(KeyByte \cup Answer \cup PacketByte) /\ Len(port) <= 1
  /\ reply \in BOOLEAN
  /\ keys \in Seq(KeyByte) /\ Len(keys) <= KeyboardQueue
  /\ pending \subseteq {1, 12} /\ inService \subseteq {1, 12}
  /\ line \in Seq(Chars) /\ Len(line) <= LineMax
-----------------------------------------------------------------------------
Within(m, p) == \E mix \in Mixes : m <= mix[1] /\ p <= mix[2]

(* The user: what a key means is decided by the shift keys held when it    *)
(* goes down, and by the light.                                            *)
Meaning(key) ==
  LET upper == IF key \in Letter THEN (held # {}) # light ELSE held # {}
  IN  CASE key \in ShiftKeys \cup {CapsLock} -> Nul
        [] key = BackspaceKey -> Erase
        [] OTHER -> IF upper THEN Shifted[key] ELSE Normal[key]

(* A key moves, and its scan code waits in the keyboard, or gets lost when *)
(* interrupts have been disabled for too long.  Of the keys that type,     *)
(* only the way down counts.                                               *)
KeyMoves ==
  /\ at # "halted" /\ Within(moved + 1, packets) /\ moved' = moved + 1
  /\ \E code \in ScanCode :
       /\ IF code.key \in ShiftKeys THEN code.down <=> code.key \notin held ELSE code.down
       /\ held' = IF code.key \notin ShiftKeys THEN held
                  ELSE IF code.down THEN held \cup {code.key} ELSE held \ {code.key}
       /\ light' = (light # (code.key = CapsLock))
       /\ clean' = (clean /\ Len(keys) < KeyboardQueue /\ Cardinality(held') <= 1)
       /\ keys' = IF Len(keys) = KeyboardQueue THEN keys
                  ELSE Append(keys, [dev |-> "key", code |-> code,
                                     meant |-> IF code.down THEN Meaning(code.key) ELSE Nul])
  /\ UNCHANGED <<ringVars, keyboardVars, mouseVars, at, port, last, reply, mouse, pending,
                 inService, line, meant, draft, configuration, disturbed, alike, packets, lost>>

(* A packet: the buttons and the overflow bits, with bit 3 set, and two    *)
(* movements, which may look like anything: a step to the left is 0xFF.    *)
PacketSent(n, movement) ==
  [place \in 1 .. 3 |-> [dev |-> "mouse", byte |->
     [packet |-> n, place |-> place, bit3 |-> movement[place].bit3,
      overflow |-> movement[place].overflow, left |-> movement[place].left]]]

MouseMoves ==
  /\ at \in {"reporting", "running"} /\ Within(moved, packets + 1) /\ packets' = packets + 1
  /\ \E movement \in Movements : mouse' = mouse \o PacketSent(packets', movement)
  /\ UNCHANGED <<ringVars, keyboardVars, mouseVars, at, port, last, reply, keys, pending,
                 inService, line, held, light, meant, draft, clean, configuration, disturbed, alike,
                 moved, lost>>

MouseByteLost ==
  /\ at = "running" /\ lost < MaxLost /\ lost' = lost + 1
  /\ mouse # <<>> /\ mouse' = Tail(mouse)
  /\ disturbed' = disturbed + 1
  /\ UNCHANGED <<ringVars, keyboardVars, mouseVars, at, port, last, reply, keys, pending,
                 inService, line, held, light, meant, draft, clean, configuration, alike, moved,
                 packets>>
-----------------------------------------------------------------------------
(* The controller passes a byte on when the port is free: its own answer   *)
(* first, then those of the devices in any order.                          *)
Arrives(byte, irq) == /\ at # "halted" /\ port = <<>>
                      /\ port' = <<byte>> /\ pending' = pending \cup {irq}

Deliver ==
  /\ \/ /\ reply /\ Arrives([dev |-> "configuration"], 1)
        /\ reply' = FALSE /\ UNCHANGED <<keys, mouse>>
     \/ /\ ~reply /\ keys # <<>> /\ Arrives(Head(keys), 1)
        /\ keys' = Tail(keys) /\ UNCHANGED <<reply, mouse>>
     \/ /\ ~reply /\ mouse # <<>> /\ Arrives(Head(mouse), 12)
        /\ mouse' = Tail(mouse) /\ UNCHANGED <<reply, keys>>
  /\ UNCHANGED <<ringVars, keyboardVars, mouseVars, at, last, inService, line, userVars>>

(* inb(0x60).                                                              *)
Value == IF port = <<>> THEN last ELSE port[1]
ReadPort == port' = <<>> /\ last' = Value
-----------------------------------------------------------------------------
(* ps2mouse_init.  A byte that is polled out of the port has requested an  *)
(* interrupt all the same, which stays requested or not: that depends on   *)
(* the interrupt controller.                                               *)
Poll(auxiliary) ==
  /\ port # <<>> /\ (port[1].dev \in {"mouse", "acknowledge", "resend"} <=> auxiliary)
  /\ ReadPort
  /\ \E still \in BOOLEAN :
       pending' = IF still THEN pending ELSE pending \ {IF auxiliary THEN 12 ELSE 1}

MouseAnswers == \E answer \in {"acknowledge", "resend"} : mouse' = Append(mouse, [dev |-> answer])

Asks == \/ (* 0xA8 and 0x20: the controller is asked for its configuration.     *)
           /\ at = "enable" /\ at' = "getConfiguration" /\ reply' = TRUE
           /\ UNCHANGED mouse
        \/ (* 0x60 and the configuration; then 0xD4 and 0xF6, to the mouse.    *)
           /\ at = "setConfiguration" /\ at' = "defaults" /\ MouseAnswers
           /\ UNCHANGED reply
        \/ (* 0xD4 and 0xF4: from its answer on, the mouse reports movements.  *)
           /\ at = "defaultsSet" /\ at' = "reporting" /\ MouseAnswers
           /\ UNCHANGED reply

(* Where a byte that has come takes ps2mouse_init: any answer of the mouse *)
(* but 0xFA ends it.                                                       *)
After == IF at = "getConfiguration" THEN "setConfiguration"
         ELSE IF port[1].dev # "acknowledge" THEN "halted"
         ELSE IF at = "defaults" THEN "defaultsSet"
         ELSE "running"

(* Mutant: while it waits for the mouse, it throws other bytes away.       *)
ReadsSkipping == \/ /\ at = "getConfiguration" /\ Poll(FALSE)
                    /\ configuration' = port[1].dev /\ at' = After
                 \/ /\ at \in {"defaults", "reporting"} /\ Poll(TRUE)
                    /\ at' = After /\ UNCHANGED configuration
                 \/ /\ at \in {"defaults", "reporting"} /\ Poll(FALSE)
                    /\ UNCHANGED <<at, configuration>>

Reads == \/ /\ at = "getConfiguration" /\ Poll(FALSE)
            /\ configuration' = port[1].dev /\ at' = After
         \/ /\ at \in {"defaults", "reporting"} /\ Poll(TRUE)
            /\ at' = After /\ UNCHANGED configuration

ps2mouse_init ==
  /\ \/ Asks /\ UNCHANGED <<port, last, pending, configuration>>
     \/ Reads /\ UNCHANGED <<reply, mouse>>
  /\ UNCHANGED <<ringVars, keyboardVars, mouseVars, keys, inService, line,
                 held, light, meant, draft, clean, disturbed, alike, moved, packets, lost>>

(* A poll that runs out before its byte is there: kernel_main halts.       *)
TimesOut ==
  /\ at \notin {"running", "halted"} /\ at' = "halted"
  /\ UNCHANGED <<ringVars, keyboardVars, mouseVars, port, last, reply, keys, mouse, pending,
                 inService, line, userVars>>
-----------------------------------------------------------------------------
(* Mutant: a break code returns before the interrupt is acknowledged.      *)
AcknowledgedIfDown(code) == IF code.down THEN {1} ELSE {}

(* outb(0x20, 0x20), before anything else.                                 *)
Acknowledged(code) == {1}

(* What a byte puts into what the user typed: nothing, or one character.   *)
Intended(value) == IF value.dev = "key" /\ value.meant # Nul THEN <<value.meant>> ELSE <<>>

(* The scan codes a byte can be taken for: 0xFA is a break code of no key, *)
(* and bytes up to 9 are make codes of the row of digits.                  *)
AsScanCode(value) == CASE value.dev = "key" -> {value.code}
                       [] value.dev = "mouse" -> [key : Other, down : {TRUE}]
                       [] OTHER -> [key : Other, down : {FALSE}]

KeyboardInterrupt ==
  /\ at = "running" /\ 1 \in pending /\ 1 \notin inService
  /\ ReadPort
  /\ \E code \in AsScanCode(Value) :
       /\ keyboard_interrupt(code)
       /\ pending' = pending \ {1}
       /\ inService' = (inService \cup {1}) \ Acknowledged(code)
       /\ meant' = meant \o Intended(Value)
       /\ clean' = (clean /\ Value.dev # "mouse" /\ Len(meant') < Size)
  /\ disturbed' = IF port # <<>> /\ Value.dev = "mouse" THEN disturbed + 1 ELSE disturbed
  /\ UNCHANGED <<mouseVars, at, reply, keys, mouse, line, held, light, draft, configuration,
                 alike, moved, packets, lost>>

(* What the mouse's handler may make of a byte: 0xFA has bit 3 set, the    *)
(* bits of both overflows, and not that of the left button.                *)
AsMouseByte(value) ==
  CASE value.dev = "mouse" -> {value.byte}
    [] value.dev = "key" -> [packet : {0}, place : {1}, bit3 : BOOLEAN, overflow : BOOLEAN,
                             left : BOOLEAN]
    [] OTHER -> [packet : {0}, place : {1}, bit3 : {TRUE}, overflow : {TRUE}, left : {FALSE}]

(* Of two requests, that of the keyboard has priority.                     *)
MouseInterrupt ==
  /\ at = "running" /\ 12 \in pending /\ 1 \notin pending /\ inService = {}
  /\ ReadPort
  /\ \E value \in AsMouseByte(Value) : ps2mouse_interrupt(value)
  /\ pending' = pending \ {12}
  /\ clean' = (clean /\ ~(port # <<>> /\ Value.dev = "key"))
  /\ IF port # <<>> /\ Value.dev = "mouse"
     THEN /\ alike' = IF Value.byte.place # 1 /\ Value.byte.bit3 THEN alike + 1 ELSE alike
          /\ UNCHANGED disturbed
     ELSE disturbed' = disturbed + 1 /\ UNCHANGED alike
  /\ UNCHANGED <<ringVars, keyboardVars, at, reply, keys, mouse, inService, line, held, light,
                 meant, draft, configuration, moved, packets, lost>>
-----------------------------------------------------------------------------
(* The console's line after a character; Enter hands it to parse_and_exec. *)
Edit(text, c) ==
  IF c = Enter THEN <<>>
  ELSE IF c = Erase THEN IF text = <<>> THEN text ELSE Front(text)
  ELSE IF Len(text) < LineMax THEN Append(text, c) ELSE text

ReadInput ==
  /\ at = "running"
  /\ input_buffer_pop
  /\ line' = IF ret' THEN Edit(line, out') ELSE line
  /\ draft' = IF ~ret' \/ meant = <<>> THEN draft
              ELSE IF Head(meant) = Enter THEN <<>> ELSE Append(draft, Head(meant))
  /\ meant' = IF ret' /\ meant # <<>> THEN Tail(meant) ELSE meant
  /\ UNCHANGED <<keyboardVars, mouseVars, deviceVars, held, light, clean, configuration,
                 disturbed, alike, moved, packets, lost>>
-----------------------------------------------------------------------------
InputInit ==
  /\ input_buffer_init /\ keyboard_shift = FALSE /\ keyboard_capslock = FALSE
  /\ mouse_packet = <<>> /\ left_button = FALSE /\ packet_count = 0 /\ garbled = 0
  /\ at = "enable" /\ port = <<>> /\ last = [dev |-> "resend"] /\ reply = FALSE
  /\ keys = <<>> /\ mouse = <<>> /\ pending = {} /\ inService = {} /\ line = <<>>
  /\ held = {} /\ light = FALSE /\ meant = <<>> /\ draft = <<>> /\ clean = TRUE
  /\ configuration = "nobody" /\ disturbed = 0 /\ alike = 0 /\ moved = 0 /\ packets = 0 /\ lost = 0

InputNext == \/ KeyMoves \/ MouseMoves \/ MouseByteLost
             \/ Deliver \/ ps2mouse_init \/ TimesOut
             \/ KeyboardInterrupt \/ MouseInterrupt \/ ReadInput

InputSpec == InputInit /\ [][InputNext]_inputVars

(* Interrupts are let in, and the console has its turn, again and again:   *)
(* see module Scheduler.                                                   *)
FairInputSpec == /\ InputSpec
                 /\ WF_inputVars(KeyboardInterrupt) /\ WF_inputVars(MouseInterrupt)
                 /\ WF_inputVars(ReadInput /\ head # tail)
-----------------------------------------------------------------------------
(* What a line becomes whose characters are typed one after the other,     *)
(* with room for it: each Erase takes away the nearest one that is left.   *)
Edited(text) ==
  LET edited[n \in 0 .. Len(text)] ==
        IF n = 0 THEN <<>>
        ELSE IF text[n] = Erase
             THEN SubSeq(edited[n - 1], 1, Len(edited[n - 1]) - 1)
             ELSE Append(edited[n - 1], text[n])
  IN  edited[Len(text)]

(* The console's line is what the user meant, whatever the order in which  *)
(* keys, interrupts and readings come: as long as no scan code got lost,   *)
(* the second shift key stayed up, the line has room, and the user is      *)
(* never ahead of the console by more characters than the buffer takes,    *)
(* for keyboard.cpp drops without a word those that it refuses.            *)
LineAsTyped == /\ InputTypeOK
               /\ clean /\ Len(draft) <= LineMax => line = Edited(draft)

(* Three bytes taken together are a packet the mouse sent, as long as none *)
(* got lost or came in between.  Each that did garbles one packet, and     *)
(* then the handler finds the beginning of a packet again unless it takes  *)
(* a movement for one: each byte of a movement that has bit 3 set (one to  *)
(* eight steps to the left or down, eight to fifteen to the right or up)   *)
(* may cost another packet, acted on with its bytes out of place or thrown *)
(* away.                                                                   *)
PacketsAlign == garbled <= IF disturbed = 0 THEN 0 ELSE disturbed + alike

(* A byte that comes into the port leaves it again, through a handler: no  *)
(* interrupt is missed while another one is served, or while the port is   *)
(* polled, which would block both devices for ever.                        *)
BytesServed == (at = "running" /\ port # <<>>) ~> (port = <<>>)

(* ps2mouse_init takes the first byte that is not the mouse's for the      *)
(* controller's configuration, and writes it back.  Where that was a key   *)
(* pressed meanwhile, it does not succeed: the kernel halts, and does not  *)
(* run with another configuration.                                         *)
ConfigurationKept == at = "running" => configuration = "configuration"
=============================================================================
