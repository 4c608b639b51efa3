------------------------------- MODULE Screen -------------------------------
(***************************************************************************)
(* The screen: the layer manager's task (layer_manager_main of             *)
(* kernel/graphics/layers.cpp), which draws frame after frame for ever and *)
(* looks at the mouse once in each; the programs that change the layers    *)
(* whenever it yields; and the mouse, whose interrupt moves the cursor and *)
(* changes the buttons between any two of its steps.                       *)
(***************************************************************************)
EXTENDS Cursor

CONSTANTS Layouts,      \* the layers before the first frame
          Boot,         \* the screen before the first pixel is drawn
          Owned,        \* the slots that programs have handles for
          Created,      \* the slot a program may create a layer in
          Orders,       \* the orders, positions and colours programs ask for
          Places,
          Paints,
          Packets,      \* the movement and the left button of a packet
          MaxPackets, MaxChanges   \* bounds on the packets, and on changes of the layers

ASSUME ScreenAssumption ==
  /\ Boot \in [Pixel -> Color]
  /\ \A table \in Layouts : /\ table = [i \in Slot |-> table[i]]
                            /\ \A i \in Slot : IsLayer(table[i])
  /\ Owned \subseteq Slot /\ Created \subseteq Slot
  /\ Orders \subseteq Int /\ Places \subseteq Int \X Int /\ Paints \subseteq Color
  /\ Packets \subseteq (Int \X Int) \X BOOLEAN
  /\ MaxPackets \in Nat /\ MaxChanges \in Nat

VARIABLES left_button,           \* of mouse_state
          was_left_button_down,  \* of layer_manager_main
          click_x,               \* cursor_x of layer_manager_main
          released,              \* history: the button was up since the last click was answered
          packets, changes

mouseVars == <<left_button, was_left_button_down, click_x, released>>
vars == <<layers, pictureVars, drawVars, mouseVars, packets, changes>>
-----------------------------------------------------------------------------
(* ps2mouse_interrupt, at the last byte of a packet (for the other bytes   *)
(* see module Mouse).                                                      *)
ps2mouse_interrupt ==
  /\ packets < MaxPackets /\ packets' = packets + 1
  /\ \E packet \in Packets : /\ graphics_move_cursor(packet[1])
                             /\ left_button' = packet[2]
                             /\ released' = (released \/ ~packet[2])
  /\ UNCHANGED <<layers, drawVars, was_left_button_down, click_x, changes>>

(* layer_compose draws a pixel.                                            *)
Compose == Draw /\ UNCHANGED <<mouseVars, packets, changes>>

(* Mutant: a button that is held is a new click in every frame.            *)
NoneBefore(button) == FALSE

Remembered(button) == button

(* layer_manager_main looks at the button, once in a frame; when it has    *)
(* gone down, it reads the cursor's position, coordinate by coordinate,    *)
(* and raises the layer found there.                                       *)
Look == /\ at = "look"
        /\ was_left_button_down' = Remembered(left_button)
        /\ at' = IF left_button /\ ~was_left_button_down THEN "clickColumn" ELSE "testColumn"
        /\ UNCHANGED <<layers, pictureVars, pixel, column, offset, left_button, click_x, released, packets, changes>>

ClickColumn == /\ at = "clickColumn"
               /\ click_x' = cursor[1]
               /\ at' = "clickRow"
               /\ UNCHANGED <<layers, pictureVars, pixel, column, offset, left_button,
                              was_left_button_down, released, packets, changes>>

ClickRow == /\ at = "clickRow"
            /\ raise_clicked_layer(<<click_x, cursor[2]>>)
            /\ click_x' = 0 /\ released' = ~left_button
            /\ at' = "testColumn"
            /\ UNCHANGED <<pictureVars, pixel, column, offset, left_button, was_left_button_down, packets, changes>>

(* Programs run where the layer manager yields: after each row, and after  *)
(* the frame.                                                              *)
Yielded == at = "look" \/ (at = "testColumn" /\ pixel[1] = 0 /\ pixel[2] > 0)

ProgramChanges ==
  /\ Yielded
  /\ changes < MaxChanges /\ changes' = changes + 1
  /\ \/ \E i \in Owned :
          \/ layer_destroy(i)
          \/ \E place \in Places : layer_set_position(i, place[1], place[2])
          \/ \E visible \in BOOLEAN : layer_set_visible(i, visible)
          \/ \E order \in Orders : layer_set_z_index(i, order)
          \/ layer_clear(i)
          \/ \E color \in Paints : layer_fill(i, color)
          \/ \E place \in Places, color \in Paints : layer_draw_pixel(i, place[1], place[2], color)
     \/ \E place \in Places, order \in Orders :
          /\ \E i \in Created : ~Active(i) /\ layer_create(place[1], place[2], 2, 1, order, TRUE)
  /\ UNCHANGED <<pictureVars, drawVars, mouseVars, packets>>
-----------------------------------------------------------------------------
(* ps2mouse_init has made the cursor appear, in the middle, and            *)
(* create_examples has made the layers, before the first frame.            *)
Center == <<Clamp(Width \div 2, Width - CursorWidth), Clamp(Height \div 2, Height - CursorHeight)>>

Init == /\ cursor = Center
        /\ background = [o \in Shape |-> Boot[Plus(Center, o)]]
        /\ frame = [p \in Pixel |-> IF Minus(p, Center) \in Shape THEN Ink ELSE Boot[p]]
        /\ layers \in Layouts
        /\ pixel = <<0, 0>> /\ at = "look" /\ column = 0 /\ offset = Outside
        /\ left_button = FALSE /\ was_left_button_down = FALSE /\ click_x = 0
        /\ released = TRUE
        /\ packets = 0 /\ changes = 0

Manager == Compose \/ Look \/ ClickColumn \/ ClickRow
Next == Manager \/ ps2mouse_interrupt \/ ProgramChanges

Spec == Init /\ [][Next]_vars

(* The layer manager gets its turn again and again, see module Scheduler.  *)
FairSpec == Spec /\ WF_vars(Manager)
-----------------------------------------------------------------------------
ScreenTypeOK == /\ CursorTypeOK
                /\ at \in {"look", "clickColumn", "clickRow",
                           "testColumn", "testRow", "column", "row", "store"}
                /\ left_button \in BOOLEAN /\ was_left_button_down \in BOOLEAN
                /\ click_x \in Int /\ released \in BOOLEAN
                /\ packets \in Nat /\ changes \in Nat

(* Moving the cursor leaves the picture as it is, whenever it happens; and *)
(* drawing a pixel changes it in no more than one place, even where the    *)
(* position that draw_pixel saw is no longer that of the cursor.           *)
OnePixelAtATime ==
  [][\/ Picture' = Picture
     \/ /\ packets' = packets
        /\ \E p \in Pixel : \A q \in Pixel \ {p} : Picture'[q] = Picture[q]]_vars

(* The cursor never loses more than one pixel of its shape, to a drawing   *)
(* that the last move overtook, however many pixels have been drawn since. *)
AtMostOneHole == /\ ScreenTypeOK
                 /\ \A o, q \in Shape : \/ frame[Plus(cursor, o)] = Ink
                                        \/ frame[Plus(cursor, q)] = Ink
                                        \/ o = q

(* Whatever the two have done to each other is made good: once the mouse   *)
(* rests and the layers stay as they are, the picture is what they show.   *)
PictureSettles == <>[](Picture = [p \in Pixel |-> layer_compose(p)])

(* A click is answered once, however many frames the button is held, and   *)
(* only the answer to a click changes the order of two layers: the one     *)
(* seen at the point comes to the front, if it may, and no layer but the   *)
(* one that was in front moves for it.                                     *)
ClickRaises ==
  [][packets' = packets /\ changes' = changes =>
       /\ layers' # layers => released
       /\ at = "clickRow" =>
            LET point == <<click_x, cursor[2]>>
            IN \A i \in Shown :
                 /\ (i \in Top(point) /\ layers[i].raise_on_click) =>
                      \A j \in Shown : layers'[j].z_index <= layers'[i].z_index
                 /\ layers'[i].z_index # layers[i].z_index =>
                      \/ i \in Top(point)
                      \/ \A j \in Shown : layers[j].z_index <= layers[i].z_index]_vars
=============================================================================
