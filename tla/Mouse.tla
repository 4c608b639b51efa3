------------------------------- MODULE Mouse --------------------------------
(***************************************************************************)
(* The mouse's interrupt handler, kernel/devices/ps2mouse.cpp, which       *)
(* collects the three bytes of a packet.  Of a byte the model keeps what   *)
(* the handler looks at (bit 3, the two overflow bits, the left button)    *)
(* and where it came from: which byte of which packet it was.              *)
(***************************************************************************)
EXTENDS Naturals, Sequences

CONSTANTS MaxPackets   \* bound on the packets the mouse sends

(* Packet 0 stands for bytes that are not the mouse's.                     *)
MouseByte == [packet : 0 .. MaxPackets, place : 1 .. 3,
              bit3 : BOOLEAN, overflow : BOOLEAN, left : BOOLEAN]

VARIABLES mouse_packet,   \* the bytes collected, mouse_packet_index of them
          left_button,    \* mouse_state.left_button
          packet_count,   \* mouse_state.packet_count
          garbled         \* how often three bytes collected were no packet of the mouse's

mouseVars == <<mouse_packet, left_button, packet_count, garbled>>

(* Three bytes that the mouse sent as one packet.                          *)
Whole(packet) == \A i \in 1 .. 3 : packet[i].place = i /\ packet[i].packet = packet[1].packet
                                   /\ packet[i].packet # 0

(* Mutant: any byte begins a packet.                                       *)
AnyByteBegins(value) == TRUE

(* A byte can begin a packet if its bit 3 is set.  That of a first byte    *)
(* always is; that of a movement, a number in two's complement, may be.    *)
Begins(value) == value.bit3

ps2mouse_interrupt(value) ==
  LET packet == Append(mouse_packet, value) IN
  IF mouse_packet = <<>> /\ ~Begins(value)
  THEN UNCHANGED mouseVars
  ELSE /\ mouse_packet' = IF Len(packet) = 3 THEN <<>> ELSE packet
       /\ garbled' = IF Len(packet) = 3 /\ ~Whole(packet) THEN garbled + 1 ELSE garbled
       /\ IF Len(packet) = 3 /\ ~packet[1].overflow
          THEN left_button' = packet[1].left /\ packet_count' = packet_count + 1
          ELSE UNCHANGED <<left_button, packet_count>>
=============================================================================
