------------------------------- MODULE Cursor -------------------------------
(***************************************************************************)
(* The mouse cursor over the composed screen: draw_pixel and               *)
(* graphics_move_cursor of kernel/graphics/basic.cpp.                      *)
(*                                                                         *)
(* What is drawn under the cursor goes to the cursor's background instead  *)
(* of the frame buffer.  The mouse's interrupt moves the cursor between    *)
(* any two instructions of that: draw_pixel looks at the position, and     *)
(* acts on what it saw.  Each time it reads the position is a step.        *)
(***************************************************************************)
EXTENDS Layers

CONSTANTS CursorWidth, CursorHeight,  \* of the cursor (12 and 16)
          Shape,                      \* the pixels of cursor_shape that are not '.'
          Ink                         \* the cursor's colour

Outside == <<-1, -1>>
Positions == (0 .. Width - CursorWidth) \X (0 .. Height - CursorHeight)

ASSUME CursorAssumption ==
  /\ CursorWidth \in Nat \ {0} /\ CursorHeight \in Nat \ {0}
  /\ Width >= CursorWidth /\ Height >= CursorHeight
  /\ Shape \subseteq Box(CursorWidth, CursorHeight)
  /\ Ink \in Color

VARIABLES frame,       \* the frame buffer
          cursor,      \* its position
          background,  \* what is beneath it
          pixel,       \* the pixel being drawn
          at,          \* where in draw_pixel, or in layer_manager_main
          column,      \* cursor_x
          offset       \* the place in background to write to, or Outside

pictureVars == <<frame, cursor, background>>
drawVars == <<pixel, at, column, offset>>

CursorTypeOK == /\ frame \in [Pixel -> Color]
                /\ cursor \in Positions
                /\ background \in [Shape -> Color]
                /\ pixel \in Pixel
                /\ column \in Int
                /\ offset \in Shape \cup {Outside}
-----------------------------------------------------------------------------
(* graphics_move_cursor, in the handler of the packet's last byte.         *)

(* The frame buffer once the old cursor is taken away.                     *)
Restored == [p \in Pixel |-> IF Minus(p, cursor) \in Shape THEN background[Minus(p, cursor)] ELSE frame[p]]

(* Mutant: what is beneath the new position is saved before the old cursor *)
(* is taken away.                                                          *)
BeneathUnrestored(position) == [o \in Shape |-> frame[Plus(position, o)]]

Beneath(position) == [o \in Shape |-> Restored[Plus(position, o)]]

Clamp(i, limit) == IF i < 0 THEN 0 ELSE IF i > limit THEN limit ELSE i

graphics_move_cursor(delta) ==
  LET moved == Plus(cursor, delta)
      position == <<Clamp(moved[1], Width - CursorWidth), Clamp(moved[2], Height - CursorHeight)>>
  IN /\ cursor' = position
     /\ background' = Beneath(position)
     /\ frame' = [p \in Pixel |-> IF Minus(p, position) \in Shape THEN Ink ELSE Restored[p]]
-----------------------------------------------------------------------------
(* draw_pixel, called with the colour the layers give the pixel: they do   *)
(* not change before the row is drawn.                                     *)

(* Line 62: a pixel left of the cursor, or above it, is drawn at once.     *)
(* A step for each coordinate: where the compiler reads the position once  *)
(* and keeps it, these are the behaviours in which nothing comes between.  *)
TestColumn == /\ at = "testColumn"
              /\ at' = IF pixel[1] >= cursor[1] THEN "testRow" ELSE "store"
              /\ UNCHANGED <<pictureVars, pixel, column, offset, layers>>

TestRow == /\ at = "testRow"
           /\ at' = IF pixel[2] >= cursor[2] THEN "column" ELSE "store"
           /\ UNCHANGED <<pictureVars, pixel, column, offset, layers>>

(* Lines 63 and 64 each read the position anew.                            *)
ReadColumn == /\ at = "column"
              /\ column' = pixel[1] - cursor[1]
              /\ at' = "row"
              /\ UNCHANGED <<pictureVars, pixel, offset, layers>>

(* Mutant: every pixel is taken for one outside the cursor.                *)
OffsetIgnored(o) == Outside

Offset(o) == IF o \in Shape THEN o ELSE Outside

ReadRow == /\ at = "row"
           /\ offset' = Offset(<<column, pixel[2] - cursor[2]>>)
           /\ at' = "store" /\ column' = 0
           /\ UNCHANGED <<pictureVars, pixel, layers>>

LastPixel == <<Width - 1, Height - 1>>
NextPixel == <<(pixel[1] + 1) % Width,
               IF pixel[1] + 1 < Width THEN pixel[2] ELSE (pixel[2] + 1) % Height>>

(* The pixel goes to the place found, and the loops of layer_compose to    *)
(* the next pixel, or back to layer_manager_main after the last.           *)
Store == /\ at = "store"
         /\ IF offset = Outside
            THEN frame' = [frame EXCEPT ![pixel] = layer_compose(pixel)] /\ UNCHANGED background
            ELSE background' = [background EXCEPT ![offset] = layer_compose(pixel)] /\ UNCHANGED frame
         /\ pixel' = NextPixel /\ offset' = Outside
         /\ at' = IF pixel = LastPixel THEN "look" ELSE "testColumn"
         /\ UNCHANGED <<cursor, column, layers>>

Draw == TestColumn \/ TestRow \/ ReadColumn \/ ReadRow \/ Store
-----------------------------------------------------------------------------
(* The picture: what one would see without the cursor.                     *)
Picture == [p \in Pixel |-> IF Minus(p, cursor) \in Shape THEN background[Minus(p, cursor)] ELSE frame[p]]
=============================================================================
