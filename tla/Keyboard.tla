------------------------------ MODULE Keyboard ------------------------------
(***************************************************************************)
(* The keyboard's interrupt handler, kernel/devices/keyboard.cpp: scan     *)
(* codes in, characters out into the input buffer.  A scan code is a       *)
(* record: the key, and whether it went down (a make code) or up (a break  *)
(* code, which has bit 7 set).                                             *)
(***************************************************************************)
EXTENDS InputBuffer

CONSTANTS Letter,            \* the keys for which is_letter holds
          Other,             \* the other keys of the two tables
          Normal, Shifted,   \* sc1_normal and sc1_shifted; Nul stands for 0
          ShiftKeys,         \* 0x2A and 0x36
          CapsLock,          \* 0x3A
          BackspaceKey,      \* 0x0E
          Erase              \* the character 0x08

Key == Letter \cup Other \cup ShiftKeys \cup {CapsLock, BackspaceKey}
ScanCode == [key : Key, down : BOOLEAN]

ASSUME KeyboardAssumption ==
  /\ Erase \in Chars
  /\ Normal \in [Letter \cup Other -> Chars \cup {Nul}]
  /\ Shifted \in [Letter \cup Other -> Chars \cup {Nul}]
  /\ (ShiftKeys \cup {CapsLock, BackspaceKey}) \cap (Letter \cup Other) = {}
  /\ CapsLock \notin ShiftKeys /\ BackspaceKey \notin ShiftKeys \cup {CapsLock}

VARIABLES keyboard_shift, keyboard_capslock

ringVars == <<head, tail, data, ret, out>>
keyboardVars == <<keyboard_shift, keyboard_capslock>>

(* Caps lock turns shift around for letters, and means nothing to the rest.*)
CharOf(key) ==
  LET upper == IF key \in Letter THEN keyboard_shift # keyboard_capslock ELSE keyboard_shift
  IN  IF upper THEN Shifted[key] ELSE Normal[key]

(* What a scan code puts into the buffer: Nul for nothing.                 *)
Typed(code) == IF ~code.down \/ code.key \in ShiftKeys \cup {CapsLock} THEN Nul
               ELSE IF code.key = BackspaceKey THEN Erase
               ELSE CharOf(code.key)

(* Mutant: letting go of a shift key is overlooked.                        *)
ShiftStays(code) == keyboard_shift \/ (code.key \in ShiftKeys /\ code.down)

(* The flag follows whichever shift key moved last.                        *)
ShiftAfter(code) == IF code.key \in ShiftKeys THEN code.down ELSE keyboard_shift

CapsAfter(code) == keyboard_capslock # (code.key = CapsLock /\ code.down)

keyboard_interrupt(code) ==
  /\ keyboard_shift' = ShiftAfter(code)
  /\ keyboard_capslock' = CapsAfter(code)
  /\ IF Typed(code) = Nul THEN UNCHANGED ringVars ELSE input_buffer_push(Typed(code))
=============================================================================
