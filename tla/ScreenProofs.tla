---------------------------- MODULE ScreenProofs ----------------------------
(***************************************************************************)
(* Proofs about module Screen: what the mouse's interrupt can do to the    *)
(* picture and to a click, for every screen, every shape of the cursor,    *)
(* every table of layers, and at any moment of a drawing.                  *)
(***************************************************************************)
EXTENDS Screen, TLAPS

LayersTyped == /\ layers = [i \in Slot |-> layers[i]]
               /\ \A i \in Slot : IsLayer(layers[i])

NoHole == \A o \in Shape : frame[Plus(cursor, o)] = Ink

OneHole == \A o, q \in Shape : \/ frame[Plus(cursor, o)] = Ink
                               \/ frame[Plus(cursor, q)] = Ink
                               \/ o = q

(* What draw_pixel has read of the position is still the position, as far  *)
(* as the next pixel in the frame buffer depends on it.                    *)
UpToDate == /\ at = "row" => column = pixel[1] - cursor[1]
            /\ at = "store" /\ offset = Outside => Minus(pixel, cursor) \notin Shape

(* The position can be out of date only if it has changed, and then the    *)
(* whole cursor has been drawn anew: the drawing in progress can do harm,  *)
(* but it is the first to.                                                 *)
Holes == NoHole \/ (OneHole /\ UpToDate)

(* A click that is being answered has not been answered before, for the    *)
(* button was up since.                                                    *)
Clicks == /\ left_button \/ released
          /\ was_left_button_down \/ released
          /\ at \in {"clickColumn", "clickRow"} => was_left_button_down /\ released

Invariant == ScreenTypeOK /\ LayersTyped /\ Holes /\ Clicks
-----------------------------------------------------------------------------
(* Pixels, positions, and where one is seen from the other.                *)

LEMMA NextInRange ==
  ASSUME NEW w \in Nat \ {0}, NEW i \in 0 .. w - 1
  PROVE  (i + 1) % w \in 0 .. w - 1
  OBVIOUS

LEMMA ClampBounds ==
  ASSUME NEW i \in Int, NEW limit \in Nat
  PROVE  Clamp(i, limit) \in 0 .. limit
  BY DEF Clamp

LEMMA SeenFrom ==
  ASSUME NEW c \in Positions, NEW o \in Shape
  PROVE  Plus(c, o) \in Pixel /\ Minus(Plus(c, o), c) = o
  BY LayerAssumption, CursorAssumption DEF Positions, Pixel, Box, Plus, Minus

LEMMA SeenBack ==
  ASSUME NEW c \in Positions, NEW p \in Pixel, Minus(p, c) \in Shape
  PROVE  Plus(c, Minus(p, c)) = p
  BY LayerAssumption, CursorAssumption DEF Positions, Pixel, Box, Plus, Minus

LEMMA CenterIsPosition == Center \in Positions
  <1>1. Width \div 2 \in Int /\ Height \div 2 \in Int /\ Width - CursorWidth \in Nat /\ Height - CursorHeight \in Nat
    BY LayerAssumption, CursorAssumption
  <1> QED BY <1>1, ClampBounds DEF Center, Positions

LEMMA OutsideIsNoPlace == Outside \notin Shape
  BY LayerAssumption, CursorAssumption DEF Outside, Box

LEMMA NextIsPixel ==
  ASSUME pixel \in Pixel
  PROVE  NextPixel \in Pixel
  <1>1. /\ pixel[1] \in 0 .. Width - 1 /\ pixel[2] \in 0 .. Height - 1
        /\ Width \in Nat \ {0} /\ Height \in Nat \ {0}
    BY LayerAssumption DEF Pixel
  <1>2. (pixel[1] + 1) % Width \in 0 .. Width - 1 /\ (pixel[2] + 1) % Height \in 0 .. Height - 1
    BY <1>1, NextInRange
  <1> QED BY <1>1, <1>2 DEF NextPixel, Pixel
-----------------------------------------------------------------------------
(* The colour that the layers give a pixel, and what programs make of a    *)
(* layer.                                                                  *)

LEMMA ComposeIsColor ==
  ASSUME LayersTyped, NEW p
  PROVE  layer_compose(p) \in Color
  <1>1. CASE Top(p) = {}
    BY <1>1, LayerAssumption DEF layer_compose
  <1>2. CASE Top(p) # {}
    <2> DEFINE i == CHOOSE i \in Top(p) : TRUE
    <2>1. i \in Top(p) /\ layer_compose(p) = ColorOf(i, p)
      BY <1>2 DEF layer_compose
    <2>2. i \in Slot /\ Covers(i, p)
      BY <2>1 DEF Top
    <2>3. IsLayer(layers[i])
      BY <2>2 DEF LayersTyped
    <2> HIDE DEF i
    <2> QED BY <2>1, <2>2, <2>3 DEF Covers, ColorOf, IsLayer
  <1> QED BY <1>1, <1>2

(* A layer that the program has changed in one field.                      *)
LEMMA LayerChanged ==
  ASSUME NEW l, IsLayer(l)
  PROVE  /\ \A b \in BOOLEAN : IsLayer([l EXCEPT !.active = b]) /\ IsLayer([l EXCEPT !.visible = b])
         /\ \A p \in Int \X Int : IsLayer([l EXCEPT !.position = p])
         /\ \A z \in Int : IsLayer([l EXCEPT !.z_index = z])
  BY DEF IsLayer

LEMMA LayerPainted ==
  ASSUME NEW l, IsLayer(l), NEW pixels, NEW D, pixels = [o \in D |-> pixels[o]],
         \A o \in D : pixels[o] \in Color \cup {Transparent}
  PROVE  IsLayer([l EXCEPT !.pixels = pixels])
  BY DEF IsLayer

LEMMA LayerMade ==
  ASSUME NEW x \in Int, NEW y \in Int, NEW D, NEW z \in Int, NEW r \in BOOLEAN
  PROVE  IsLayer(layer_t(x, y, [o \in D |-> Transparent], z, r))
  BY DEF IsLayer, layer_t

(* The table when one slot has changed.                                    *)
LEMMA TableChanged ==
  ASSUME LayersTyped, NEW i \in Slot, NEW l, IsLayer(l), layers' = [layers EXCEPT ![i] = l]
  PROVE  LayersTyped'
  <1>1. layers' = [j \in Slot |-> layers'[j]]
    BY Zenon DEF LayersTyped
  <1>2. \A j \in Slot : layers'[j] = IF j = i THEN l ELSE layers[j]
    BY DEF LayersTyped
  <1>3. \A j \in Slot : IsLayer(layers'[j])
    BY <1>2 DEF LayersTyped
  <1> QED BY <1>1, <1>3 DEF LayersTyped

LEMMA PaintedIn ==
  ASSUME LayersTyped, NEW i \in Slot, NEW color \in Color \cup {Transparent}, NEW x, NEW y, NEW width, NEW height,
         layer_fill(i, color) \/ layer_fill_rect(i, x, y, width, height, color)
  PROVE  LayersTyped'
  <1> DEFINE l == layers[i]
             whole == [o \in DOMAIN l.pixels |-> color]
             part == [o \in DOMAIN l.pixels |-> IF Minus(o, <<x, y>>) \in Box(width, height)
                                                THEN color ELSE l.pixels[o]]
  <1>1. IsLayer(l)
    BY DEF LayersTyped
  <1>2. IsLayer([l EXCEPT !.pixels = whole]) /\ IsLayer([l EXCEPT !.pixels = part])
    <2>1. \A o \in DOMAIN l.pixels : l.pixels[o] \in Color \cup {Transparent}
      BY <1>1 DEF IsLayer
    <2> QED BY <1>1, <2>1, LayerPainted
  <1>3. \/ layers' = [layers EXCEPT ![i] = [l EXCEPT !.pixels = whole]]
        \/ layers' = [layers EXCEPT ![i] = [l EXCEPT !.pixels = part]]
    BY DEF layer_fill, layer_fill_rect
  <1> QED BY <1>2, <1>3, TableChanged

LEMMA ProgramsKeepTable ==
  ASSUME LayersTyped, ProgramChanges
  PROVE  LayersTyped'
  <1> USE ScreenAssumption, LayerAssumption
  <1>0. \A i \in Slot : IsLayer(layers[i])
    BY DEF LayersTyped
  <1>1. ASSUME NEW i \in Owned, layer_destroy(i)
        PROVE  LayersTyped'
    <2>1. layers' = [layers EXCEPT ![i] = [layers[i] EXCEPT !.active = FALSE]]
      BY <1>1 DEF layer_destroy
    <2> QED BY <1>0, <2>1, LayerChanged, TableChanged
  <1>2. ASSUME NEW i \in Owned, NEW place \in Places, layer_set_position(i, place[1], place[2])
        PROVE  LayersTyped'
    <2>1. layers' = [layers EXCEPT ![i] = [layers[i] EXCEPT !.position = <<place[1], place[2]>>]]
      BY <1>2 DEF layer_set_position
    <2>2. <<place[1], place[2]>> \in Int \X Int
      OBVIOUS
    <2> QED BY <1>0, <2>1, <2>2, LayerChanged, TableChanged
  <1>3. ASSUME NEW i \in Owned, NEW visible \in BOOLEAN, layer_set_visible(i, visible)
        PROVE  LayersTyped'
    <2>1. layers' = [layers EXCEPT ![i] = [layers[i] EXCEPT !.visible = visible]]
      BY <1>3 DEF layer_set_visible
    <2> QED BY <1>0, <2>1, LayerChanged, TableChanged
  <1>4. ASSUME NEW i \in Owned, NEW order \in Orders, layer_set_z_index(i, order)
        PROVE  LayersTyped'
    <2>1. layers' = [layers EXCEPT ![i] = [layers[i] EXCEPT !.z_index = order]]
      BY <1>4 DEF layer_set_z_index
    <2> QED BY <1>0, <2>1, LayerChanged, TableChanged
  <1>5. ASSUME NEW i \in Owned, layer_clear(i)
        PROVE  LayersTyped'
    BY <1>5, PaintedIn DEF layer_clear
  <1>6. ASSUME NEW i \in Owned, NEW color \in Paints, layer_fill(i, color)
        PROVE  LayersTyped'
    BY <1>6, PaintedIn
  <1>7. ASSUME NEW i \in Owned, NEW place \in Places, NEW color \in Paints,
               layer_draw_pixel(i, place[1], place[2], color)
        PROVE  LayersTyped'
    BY <1>7, PaintedIn DEF layer_draw_pixel
  <1>8. ASSUME NEW place \in Places, NEW order \in Orders, layer_create(place[1], place[2], 2, 1, order, TRUE)
        PROVE  LayersTyped'
    <2> DEFINE l == layer_t(place[1], place[2], [o \in Box(2, 1) |-> Transparent], order, TRUE)
    <2>1. PICK i \in Slot : layers' = [layers EXCEPT ![i] = l]
      BY <1>8 DEF layer_create
    <2>2. IsLayer(l)
      BY LayerMade
    <2> QED BY <2>1, <2>2, TableChanged
  <1> QED BY <1>1, <1>2, <1>3, <1>4, <1>5, <1>6, <1>7, <1>8 DEF ProgramChanges

(* Raising exchanges two orders.                                           *)
LEMMA RaisedOrders ==
  ASSUME LayersTyped, NEW i \in Slot, NEW j \in Slot, i # j,
         layers' = [layers EXCEPT ![i].z_index = layers[j].z_index, ![j].z_index = layers[i].z_index]
  PROVE  /\ LayersTyped'
         /\ \A k \in Slot : /\ layers'[k].active = layers[k].active
                            /\ layers'[k].visible = layers[k].visible
                            /\ layers'[k].z_index = IF k = i THEN layers[j].z_index
                                                    ELSE IF k = j THEN layers[i].z_index
                                                    ELSE layers[k].z_index
  <1> DEFINE a == [layers[i] EXCEPT !.z_index = layers[j].z_index]
             b == [layers[j] EXCEPT !.z_index = layers[i].z_index]
  <1>1. IsLayer(layers[i]) /\ IsLayer(layers[j])
    BY DEF LayersTyped
  <1>2. layers[i].z_index \in Int /\ layers[j].z_index \in Int
    BY <1>1 DEF IsLayer
  <1>3. IsLayer(a) /\ IsLayer(b)
    BY <1>1, <1>2, LayerChanged
  <1>4. /\ a.active = layers[i].active /\ a.visible = layers[i].visible /\ a.z_index = layers[j].z_index
        /\ b.active = layers[j].active /\ b.visible = layers[j].visible /\ b.z_index = layers[i].z_index
    BY <1>1 DEF IsLayer
  <1>5. layers = [k \in Slot |-> layers[k]]
    BY DEF LayersTyped
  <1>6. layers' = [k \in Slot |-> IF k = i THEN a ELSE IF k = j THEN b ELSE layers[k]]
    BY <1>5
  <1> HIDE DEF a, b
  <1>7. layers' = [k \in Slot |-> layers'[k]]
    BY <1>6
  <1>8. \A k \in Slot : layers'[k] = IF k = i THEN a ELSE IF k = j THEN b ELSE layers[k]
    BY <1>6
  <1>9. \A k \in Slot : IsLayer(layers'[k])
    BY <1>3, <1>8 DEF LayersTyped
  <1> QED BY <1>4, <1>7, <1>8, <1>9 DEF LayersTyped

LEMMA ClickKeepsTable ==
  ASSUME LayersTyped, NEW p, raise_clicked_layer(p)
  PROVE  LayersTyped'
  <1>1. CASE UNCHANGED layers
    BY <1>1 DEF LayersTyped, IsLayer
  <1>2. ASSUME NEW i \in Top(p), NEW j \in Highest(p), i # j,
               layers' = [layers EXCEPT ![i].z_index = layers[j].z_index, ![j].z_index = layers[i].z_index]
        PROVE  LayersTyped'
    <2>1. i \in Slot /\ j \in Slot
      BY DEF Top, Highest, Shown
    <2> QED BY <1>2, <2>1, RaisedOrders
  <1> QED BY <1>1, <1>2 DEF raise_clicked_layer

LEMMA TableKept ==
  ASSUME LayersTyped, [Next]_vars
  PROVE  LayersTyped'
  <1>1. CASE UNCHANGED layers
    BY <1>1 DEF LayersTyped, IsLayer
  <1>2. CASE ClickRow
    BY <1>2, ClickKeepsTable DEF ClickRow
  <1>3. CASE ProgramChanges
    BY <1>3, ProgramsKeepTable
  <1>4. \/ UNCHANGED layers \/ ClickRow \/ ProgramChanges
    BY DEF Next, Manager, Compose, Draw, TestColumn, TestRow, ReadColumn, ReadRow, Store, Look, ClickColumn,
           ps2mouse_interrupt, vars
  <1> QED BY <1>1, <1>2, <1>3, <1>4
-----------------------------------------------------------------------------
(* Types.                                                                  *)

(* The picture with the cursor at another place.                           *)
LEMMA MovedTypes ==
  ASSUME CursorTypeOK, NEW delta \in Int \X Int, graphics_move_cursor(delta)
  PROVE  frame' \in [Pixel -> Color] /\ cursor' \in Positions /\ background' \in [Shape -> Color]
  <1>1. cursor' \in Positions
    <2>1. cursor[1] + delta[1] \in Int /\ cursor[2] + delta[2] \in Int
      BY LayerAssumption, CursorAssumption DEF CursorTypeOK, Positions
    <2>2. Width - CursorWidth \in Nat /\ Height - CursorHeight \in Nat
      BY LayerAssumption, CursorAssumption
    <2> QED BY <2>1, <2>2, ClampBounds DEF graphics_move_cursor, Positions, Plus
  <1>2. \A p \in Pixel : Restored[p] \in Color
    BY DEF Restored, CursorTypeOK
  <1>3. \A o \in Shape : Restored[Plus(cursor', o)] \in Color
    BY <1>1, <1>2, SeenFrom
  <1>4. background' = [o \in Shape |-> Restored[Plus(cursor', o)]]
    BY DEF graphics_move_cursor, Beneath
  <1>5. frame' = [p \in Pixel |-> IF Minus(p, cursor') \in Shape THEN Ink ELSE Restored[p]]
    BY DEF graphics_move_cursor
  <1> QED BY <1>1, <1>2, <1>3, <1>4, <1>5, CursorAssumption

LEMMA StoredTypes ==
  ASSUME CursorTypeOK, LayersTyped, Store
  PROVE  CursorTypeOK'
  <1>1. layer_compose(pixel) \in Color
    BY ComposeIsColor
  <1>2. frame' \in [Pixel -> Color] /\ background' \in [Shape -> Color]
    <2>1. CASE offset = Outside
      BY <1>1, <2>1 DEF Store, CursorTypeOK
    <2>2. CASE offset # Outside
      BY <1>1, <2>2 DEF Store, CursorTypeOK
    <2> QED BY <2>1, <2>2
  <1>3. pixel' \in Pixel
    BY NextIsPixel DEF Store, CursorTypeOK
  <1> QED BY <1>2, <1>3 DEF Store, CursorTypeOK

LEMMA TypesKept ==
  ASSUME ScreenTypeOK, LayersTyped, [Next]_vars
  PROVE  ScreenTypeOK'
  <1> USE DEF ScreenTypeOK
  <1>1. ASSUME ps2mouse_interrupt
        PROVE  ScreenTypeOK'
    <2>1. PICK packet \in Packets : /\ graphics_move_cursor(packet[1])
                                    /\ left_button' = packet[2]
                                    /\ released' = (released \/ ~packet[2])
      BY <1>1 DEF ps2mouse_interrupt
    <2>2. packet[1] \in Int \X Int /\ packet[2] \in BOOLEAN
      BY ScreenAssumption
    <2>3. frame' \in [Pixel -> Color] /\ cursor' \in Positions /\ background' \in [Shape -> Color]
      BY <2>1, <2>2, MovedTypes
    <2>4. CursorTypeOK'
      BY <1>1, <2>3 DEF CursorTypeOK, ps2mouse_interrupt, drawVars
    <2> QED BY <1>1, <2>1, <2>2, <2>4 DEF ps2mouse_interrupt, drawVars
  <1>2. ASSUME Compose
        PROVE  ScreenTypeOK'
    <2>1. CASE Store
      <3>1. at' \in {"look", "testColumn"}
        BY <2>1 DEF Store
      <3> QED BY <1>2, <2>1, <3>1, StoredTypes DEF Compose, mouseVars
    <2>2. CASE ReadColumn
      <3>1. pixel[1] \in Int /\ cursor[1] \in Int
        BY LayerAssumption, CursorAssumption DEF CursorTypeOK, Pixel, Positions
      <3> QED BY <1>2, <2>2, <3>1 DEF Compose, mouseVars, ReadColumn, pictureVars, CursorTypeOK
    <2>3. CASE ReadRow
      BY <1>2, <2>3 DEF Compose, mouseVars, ReadRow, Offset, pictureVars, CursorTypeOK
    <2>4. CASE TestColumn \/ TestRow
      BY <1>2, <2>4 DEF Compose, mouseVars, TestColumn, TestRow, pictureVars, CursorTypeOK
    <2> QED BY <1>2, <2>1, <2>2, <2>3, <2>4 DEF Compose, Draw
  <1>3. ASSUME Look \/ ClickColumn \/ ClickRow
        PROVE  ScreenTypeOK'
    <2>1. cursor[1] \in Int
      BY LayerAssumption, CursorAssumption DEF CursorTypeOK, Positions
    <2>2. CursorTypeOK'
      BY <1>3 DEF Look, ClickColumn, ClickRow, pictureVars, CursorTypeOK
    <2>3. CASE Look
      BY <2>2, <2>3 DEF Look, Remembered
    <2>4. CASE ClickColumn
      BY <2>1, <2>2, <2>4 DEF ClickColumn
    <2>5. CASE ClickRow
      <3>1. released' \in BOOLEAN
        BY <2>5 DEF ClickRow
      <3> QED BY <2>2, <2>5, <3>1 DEF ClickRow
    <2> QED BY <1>3, <2>3, <2>4, <2>5
  <1>4. ASSUME ProgramChanges
        PROVE  ScreenTypeOK'
    BY <1>4 DEF ProgramChanges, pictureVars, drawVars, mouseVars, CursorTypeOK
  <1>5. ASSUME UNCHANGED vars
        PROVE  ScreenTypeOK'
    BY <1>5 DEF vars, pictureVars, drawVars, mouseVars, CursorTypeOK
  <1> QED BY <1>1, <1>2, <1>3, <1>4, <1>5 DEF Next, Manager
-----------------------------------------------------------------------------
(* The cursor's pixels.                                                    *)

LEMMA MoveDrawsAll ==
  ASSUME CursorTypeOK, NEW delta \in Int \X Int, graphics_move_cursor(delta)
  PROVE  NoHole'
  <1>1. cursor' \in Positions
    BY MovedTypes
  <1>2. frame' = [p \in Pixel |-> IF Minus(p, cursor') \in Shape THEN Ink ELSE Restored[p]]
    BY DEF graphics_move_cursor
  <1>3. \A o \in Shape : Plus(cursor', o) \in Pixel /\ Minus(Plus(cursor', o), cursor') = o
    BY <1>1, SeenFrom
  <1> QED BY <1>2, <1>3 DEF NoHole

LEMMA StoreSparesCursor ==
  ASSUME CursorTypeOK, Holes, Store
  PROVE  Holes'
  <1>1. cursor' = cursor /\ at' \in {"look", "testColumn"}
    BY DEF Store
  <1>2. UpToDate'
    BY <1>1 DEF UpToDate
  <1>3. CASE offset # Outside
    <2>1. frame' = frame
      BY <1>3 DEF Store
    <2>2. OneHole
      BY DEF Holes, NoHole, OneHole
    <2> QED BY <1>1, <1>2, <2>1, <2>2 DEF Holes, OneHole
  <1>4. CASE offset = Outside
    <2>1. \A p \in Pixel : p # pixel => frame'[p] = frame[p]
      BY <1>4 DEF Store, CursorTypeOK
    <2>2. \A o \in Shape : Plus(cursor, o) \in Pixel /\ Minus(Plus(cursor, o), cursor) = o
      BY SeenFrom DEF CursorTypeOK
    <2>3. ASSUME NoHole
          PROVE  OneHole'
      <3>1. \A o \in Shape : Plus(cursor, o) # pixel => frame'[Plus(cursor, o)] = Ink
        BY <2>1, <2>2, <2>3 DEF NoHole
      <3>2. \A o, q \in Shape : Plus(cursor, o) = pixel /\ Plus(cursor, q) = pixel => o = q
        BY <2>2
      <3> QED BY <1>1, <3>1, <3>2 DEF OneHole
    <2>4. ASSUME OneHole, UpToDate
          PROVE  OneHole'
      <3>1. Minus(pixel, cursor) \notin Shape
        BY <1>4, <2>4 DEF UpToDate, Store
      <3>2. \A o \in Shape : Plus(cursor, o) # pixel
        BY <2>2, <3>1
      <3>3. \A o \in Shape : frame'[Plus(cursor, o)] = frame[Plus(cursor, o)]
        BY <2>1, <2>2, <3>2
      <3> QED BY <1>1, <2>4, <3>3 DEF OneHole
    <2> QED BY <1>2, <2>3, <2>4 DEF Holes
  <1> QED BY <1>3, <1>4

LEMMA ReadingKeepsUpToDate ==
  ASSUME CursorTypeOK, UpToDate, TestColumn \/ TestRow \/ ReadColumn \/ ReadRow
  PROVE  UpToDate'
  <1>1. /\ pixel[1] \in Int /\ pixel[2] \in Int /\ cursor[1] \in Int /\ cursor[2] \in Int
        /\ pixel' = pixel /\ cursor' = cursor
    BY LayerAssumption, CursorAssumption
    DEF CursorTypeOK, Pixel, Positions, TestColumn, TestRow, ReadColumn, ReadRow, pictureVars
  <1>2. Minus(pixel, cursor) \in Shape => pixel[1] >= cursor[1] /\ pixel[2] >= cursor[2]
    BY <1>1, CursorAssumption, LayerAssumption DEF Minus, Box
  <1>3. CASE TestColumn \/ TestRow
    BY <1>1, <1>2, <1>3 DEF TestColumn, TestRow, UpToDate
  <1>4. CASE ReadColumn
    BY <1>1, <1>4 DEF ReadColumn, UpToDate
  <1>5. CASE ReadRow
    <2>1. <<column, pixel[2] - cursor[2]>> = Minus(pixel, cursor)
      BY <1>5 DEF ReadRow, UpToDate, Minus
    <2>2. offset' = Outside => Minus(pixel, cursor) \notin Shape
      BY <1>5, <2>1, OutsideIsNoPlace DEF ReadRow, Offset
    <2> QED BY <1>1, <1>5, <2>2 DEF ReadRow, UpToDate
  <1> QED BY <1>3, <1>4, <1>5

LEMMA HolesKept ==
  ASSUME ScreenTypeOK, Holes, [Next]_vars
  PROVE  Holes'
  <1>0. CursorTypeOK
    BY DEF ScreenTypeOK
  <1>1. ASSUME ps2mouse_interrupt
        PROVE  Holes'
    <2>1. PICK packet \in Packets : graphics_move_cursor(packet[1])
      BY <1>1 DEF ps2mouse_interrupt
    <2>2. packet[1] \in Int \X Int
      BY ScreenAssumption
    <2> QED BY <1>0, <2>1, <2>2, MoveDrawsAll DEF Holes
  <1>2. ASSUME UNCHANGED pictureVars, UpToDate => UpToDate'
        PROVE  Holes'
    BY <1>2 DEF pictureVars, Holes, NoHole, OneHole
  <1>3. CASE Compose
    <2>1. CASE Store
      BY <1>0, <2>1, StoreSparesCursor
    <2>2. CASE TestColumn \/ TestRow \/ ReadColumn \/ ReadRow
      <3>1. UNCHANGED pictureVars
        BY <2>2 DEF TestColumn, TestRow, ReadColumn, ReadRow
      <3> QED BY <1>0, <1>2, <2>2, <3>1, ReadingKeepsUpToDate
    <2> QED BY <1>3, <2>1, <2>2 DEF Compose, Draw
  <1>4. CASE Look \/ ClickColumn \/ ClickRow
    BY <1>2, <1>4 DEF Look, ClickColumn, ClickRow, UpToDate
  <1>5. CASE ProgramChanges \/ UNCHANGED vars
    BY <1>2, <1>5 DEF ProgramChanges, vars, pictureVars, drawVars, UpToDate
  <1> QED BY <1>1, <1>3, <1>4, <1>5 DEF Next, Manager

LEMMA ClicksKept ==
  ASSUME ScreenTypeOK, Clicks, [Next]_vars
  PROVE  Clicks'
  <1>1. CASE ps2mouse_interrupt
    BY <1>1 DEF ps2mouse_interrupt, drawVars, Clicks
  <1>2. CASE Compose
    BY <1>2 DEF Compose, mouseVars, Clicks, Draw, TestColumn, TestRow, ReadColumn, ReadRow, Store
  <1>3. CASE Look
    BY <1>3 DEF Look, Remembered, Clicks
  <1>4. CASE ClickColumn
    BY <1>4 DEF ClickColumn, Clicks
  <1>5. CASE ClickRow
    BY <1>5 DEF ClickRow, Clicks
  <1>6. CASE ProgramChanges \/ UNCHANGED vars
    BY <1>6 DEF ProgramChanges, vars, mouseVars, drawVars, Clicks
  <1> QED BY <1>1, <1>2, <1>3, <1>4, <1>5, <1>6 DEF Next, Manager

LEMMA InvariantInit ==
  ASSUME Init
  PROVE  Invariant
  <1>1. Center \in Positions /\ cursor = Center
    BY CenterIsPosition DEF Init
  <1>2. \A o \in Shape : Plus(Center, o) \in Pixel /\ Minus(Plus(Center, o), Center) = o
    BY <1>1, SeenFrom
  <1>3. LayersTyped
    <2>1. layers \in Layouts
      BY DEF Init
    <2> QED BY <2>1, ScreenAssumption DEF LayersTyped
  <1>4. frame \in [Pixel -> Color]
    BY CursorAssumption, ScreenAssumption DEF Init
  <1>5. background \in [Shape -> Color]
    BY <1>2, ScreenAssumption DEF Init
  <1>6. pixel \in Pixel /\ column \in Int /\ offset = Outside
    BY LayerAssumption DEF Init, Pixel
  <1>7. CursorTypeOK
    BY <1>1, <1>4, <1>5, <1>6 DEF CursorTypeOK
  <1>8. ScreenTypeOK
    <2>1. left_button \in BOOLEAN /\ was_left_button_down \in BOOLEAN /\ released \in BOOLEAN
      BY Zenon DEF Init
    <2>2. click_x \in Int /\ packets \in Nat /\ changes \in Nat /\ at = "look"
      BY DEF Init
    <2> QED BY <1>7, <2>1, <2>2 DEF ScreenTypeOK
  <1>9. NoHole
    <2>1. frame = [p \in Pixel |-> IF Minus(p, Center) \in Shape THEN Ink ELSE Boot[p]]
      BY DEF Init
    <2> QED BY <1>1, <1>2, <2>1 DEF NoHole
  <1>10. Clicks
    BY DEF Init, Clicks
  <1> QED BY <1>3, <1>8, <1>9, <1>10 DEF Invariant, Holes

LEMMA InvariantAlways == Spec => []Invariant
  <1>1. Init => Invariant
    BY InvariantInit
  <1>2. Invariant /\ [Next]_vars => Invariant'
    BY TypesKept, TableKept, HolesKept, ClicksKept DEF Invariant
  <1> QED BY <1>1, <1>2, PTL DEF Spec

(* The cursor never loses more than one pixel of its shape, however often  *)
(* it is moved in the middle of a drawing.                                 *)
THEOREM ScreenAtMostOneHole == Spec => []AtMostOneHole
  <1>1. Invariant => AtMostOneHole
    BY Zenon DEF Invariant, Holes, NoHole, OneHole, AtMostOneHole
  <1> QED BY <1>1, InvariantAlways, PTL
-----------------------------------------------------------------------------
(* The picture beneath the cursor.                                         *)

LEMMA MoveKeepsPicture ==
  ASSUME CursorTypeOK, NEW delta \in Int \X Int, graphics_move_cursor(delta)
  PROVE  Picture' = Picture
  <1>1. cursor' \in Positions
    BY MovedTypes
  <1>2. /\ background' = [o \in Shape |-> Restored[Plus(cursor', o)]]
        /\ frame' = [p \in Pixel |-> IF Minus(p, cursor') \in Shape THEN Ink ELSE Restored[p]]
    BY DEF graphics_move_cursor, Beneath
  <1>3. \A p \in Pixel : Minus(p, cursor') \in Shape => Plus(cursor', Minus(p, cursor')) = p
    BY <1>1, SeenBack
  <1>4. \A p \in Pixel : (IF Minus(p, cursor') \in Shape THEN background'[Minus(p, cursor')] ELSE frame'[p])
                         = Restored[p]
    BY <1>2, <1>3
  <1>5. Picture' = [p \in Pixel |-> IF Minus(p, cursor') \in Shape THEN background'[Minus(p, cursor')] ELSE frame'[p]]
    BY DEF Picture
  <1>6. Picture = [p \in Pixel |-> Restored[p]]
    BY DEF Picture, Restored
  <1> QED BY <1>4, <1>5, <1>6

LEMMA StoreTouchesOne ==
  ASSUME CursorTypeOK, Store
  PROVE  \E p \in Pixel : \A q \in Pixel \ {p} : Picture'[q] = Picture[q]
  <1>0. cursor' = cursor
    BY DEF Store
  <1>1. /\ \A q \in Pixel : Picture[q] = IF Minus(q, cursor) \in Shape THEN background[Minus(q, cursor)] ELSE frame[q]
        /\ \A q \in Pixel : Picture'[q] = IF Minus(q, cursor) \in Shape THEN background'[Minus(q, cursor)] ELSE frame'[q]
    BY <1>0 DEF Picture
  <1>2. CASE offset = Outside
    <2>1. background' = background /\ \A q \in Pixel : q # pixel => frame'[q] = frame[q]
      BY <1>2 DEF Store, CursorTypeOK
    <2>2. \A q \in Pixel \ {pixel} : Picture'[q] = Picture[q]
      BY <1>1, <2>1
    <2>3. pixel \in Pixel
      BY DEF CursorTypeOK
    <2> QED BY <2>2, <2>3
  <1>3. CASE offset # Outside
    <2> DEFINE p == Plus(cursor, offset)
    <2>1. offset \in Shape /\ cursor \in Positions
      BY <1>3 DEF CursorTypeOK
    <2>2. p \in Pixel
      BY <2>1, SeenFrom
    <2>3. frame' = frame /\ \A o \in Shape : o # offset => background'[o] = background[o]
      BY <1>3 DEF Store, CursorTypeOK
    <2>4. \A q \in Pixel : Minus(q, cursor) \in Shape => Plus(cursor, Minus(q, cursor)) = q
      BY <2>1, SeenBack
    <2>5. \A q \in Pixel : Minus(q, cursor) = offset => q = p
      BY <2>1, <2>4
    <2> HIDE DEF p
    <2>6. \A q \in Pixel \ {p} : Picture'[q] = Picture[q]
      BY <1>1, <2>3, <2>5
    <2> QED BY <2>2, <2>6
  <1> QED BY <1>2, <1>3

(* Moving the cursor leaves the picture as it is, and drawing a pixel      *)
(* changes it in no more than one place, whatever position it was drawn    *)
(* for.                                                                    *)
THEOREM ScreenOnePixelAtATime == Spec => OnePixelAtATime
  <1> DEFINE A == \/ Picture' = Picture
                  \/ /\ packets' = packets
                     /\ \E p \in Pixel : \A q \in Pixel \ {p} : Picture'[q] = Picture[q]
  <1>1. ASSUME Invariant, [Next]_vars
        PROVE  A
    <2>0. CursorTypeOK
      BY <1>1 DEF Invariant, ScreenTypeOK
    <2>1. CASE UNCHANGED pictureVars
      BY <2>1 DEF pictureVars, Picture
    <2>2. CASE ps2mouse_interrupt
      <3>1. PICK packet \in Packets : graphics_move_cursor(packet[1])
        BY <2>2 DEF ps2mouse_interrupt
      <3>2. packet[1] \in Int \X Int
        BY ScreenAssumption
      <3> QED BY <2>0, <3>1, <3>2, MoveKeepsPicture
    <2>3. CASE Compose /\ Store
      BY <2>0, <2>3, StoreTouchesOne DEF Compose
    <2>4. UNCHANGED pictureVars \/ ps2mouse_interrupt \/ (Compose /\ Store)
      BY <1>1 DEF Next, Manager, Compose, Draw, TestColumn, TestRow, ReadColumn, ReadRow, Look, ClickColumn, ClickRow,
                  ProgramChanges, vars
    <2> QED BY <2>1, <2>2, <2>3, <2>4
  <1>2. Invariant /\ [Next]_vars => A
    BY <1>1
  <1>3. Invariant /\ [Next]_vars => [A]_vars
    BY <1>2
  <1> HIDE DEF A
  <1>4. Spec => [][A]_vars
    BY <1>3, InvariantAlways, PTL DEF Spec
  <1> QED BY <1>4 DEF A, OnePixelAtATime

-----------------------------------------------------------------------------
(* Clicks.                                                                 *)

(* At most one layer is seen at a point: of those with the same order, the *)
(* last in the table.                                                      *)
LEMMA OneTop ==
  ASSUME LayersTyped, NEW p, NEW i \in Top(p), NEW j \in Top(p)
  PROVE  i = j
  <1>1. i \in Slot /\ j \in Slot /\ Above(i, j) /\ Above(j, i)
    BY DEF Top
  <1>2. layers[i].z_index \in Int /\ layers[j].z_index \in Int /\ i \in Nat /\ j \in Nat
    BY <1>1, LayerAssumption DEF LayersTyped, IsLayer
  <1> QED BY <1>1, <1>2 DEF Above

(* What ClickRaises asks of the layers shown, of which S is the set.       *)
Answered(point, S) ==
  \A i \in S :
    /\ (i \in Top(point) /\ layers[i].raise_on_click) => \A j \in S : layers'[j].z_index <= layers'[i].z_index
    /\ layers'[i].z_index # layers[i].z_index =>
         \/ i \in Top(point)
         \/ \A j \in S : layers[j].z_index <= layers[i].z_index

LEMMA ClickAnswered ==
  ASSUME LayersTyped, NEW point, raise_clicked_layer(point)
  PROVE  Answered(point, Shown)
  <1>1. \A k \in Shown : k \in Slot /\ layers[k].z_index \in Int
    BY DEF Shown, LayersTyped, IsLayer
  <1>2. ASSUME NEW i \in Top(point), NEW j \in Highest(point), i # j,
               layers' = [layers EXCEPT ![i].z_index = layers[j].z_index, ![j].z_index = layers[i].z_index]
        PROVE  Answered(point, Shown)
    <2>1. i \in Shown /\ j \in Shown /\ \A k \in Shown : layers[k].z_index <= layers[j].z_index
      BY <1>1 DEF Top, Covers, Highest
    <2>2. \A k \in Slot : layers'[k].z_index = IF k = i THEN layers[j].z_index
                                               ELSE IF k = j THEN layers[i].z_index
                                               ELSE layers[k].z_index
      <3>1. i \in Slot /\ j \in Slot
        BY <1>1, <2>1
      <3> HIDE <1>1
      <3> QED BY <1>2, <3>1, RaisedOrders
    <2>3. \A k \in Shown : layers'[k].z_index <= layers'[i].z_index
      BY <1>1, <2>1, <2>2
    <2>4. \A k \in Top(point) : k = i
      BY OneTop
    <2>5. \A k \in Shown : layers'[k].z_index # layers[k].z_index => k = i \/ k = j
      BY <1>1, <2>2
    <2> QED BY <2>1, <2>3, <2>4, <2>5 DEF Answered
  <1>3. CASE /\ \A i \in Top(point) : ~layers[i].raise_on_click \/ i \in Highest(point)
             /\ UNCHANGED layers
    <2>1. \A i \in Highest(point), k \in Shown : layers[k].z_index <= layers[i].z_index
      BY <1>1 DEF Highest
    <2> QED BY <1>3, <2>1 DEF Answered
  <1> QED BY <1>2, <1>3 DEF raise_clicked_layer

(* A press is answered once, however long the button is held, and the      *)
(* answer brings the layer seen at the point to the front, if it may, and  *)
(* moves no other but the one that was in front.                           *)
THEOREM ScreenClickRaises == Spec => ClickRaises
  <1> DEFINE A == packets' = packets /\ changes' = changes =>
                    /\ layers' # layers => released
                    /\ at = "clickRow" => Answered(<<click_x, cursor[2]>>, Shown)
  <1>1. ASSUME Invariant, Next
        PROVE  A
    <2>1. packets \in Nat /\ changes \in Nat /\ LayersTyped /\ Clicks
      BY <1>1 DEF Invariant, ScreenTypeOK
    <2>2. CASE ps2mouse_interrupt
      BY <2>1, <2>2 DEF ps2mouse_interrupt
    <2>3. CASE ProgramChanges
      BY <2>1, <2>3 DEF ProgramChanges
    <2>4. CASE ClickRow
      <3>1. released
        BY <2>1, <2>4 DEF Clicks, ClickRow
      <3>2. Answered(<<click_x, cursor[2]>>, Shown)
        BY <2>1, <2>4, ClickAnswered DEF ClickRow
      <3> QED BY <3>1, <3>2
    <2>5. CASE Compose \/ Look \/ ClickColumn
      <3>1. layers' = layers /\ at # "clickRow"
        BY <2>5 DEF Compose, Draw, TestColumn, TestRow, ReadColumn, ReadRow, Store, Look, ClickColumn
      <3> QED BY <3>1
    <2> QED BY <1>1, <2>2, <2>3, <2>4, <2>5 DEF Next, Manager
  <1>2. Invariant /\ [Next]_vars => [A]_vars
    BY <1>1
  <1> HIDE DEF A
  <1>3. Spec => [][A]_vars
    BY <1>2, InvariantAlways, PTL DEF Spec
  <1> QED BY <1>3 DEF A, ClickRaises, Answered
=============================================================================
