------------------------------- MODULE Layers -------------------------------
(***************************************************************************)
(* The table of layers, kernel/graphics/layers.cpp: what the system calls  *)
(* of programs do to a layer, which colour the layers together give a      *)
(* pixel, and which layer a click raises.  The pages behind the pixels are *)
(* in module Programs.                                                     *)
(***************************************************************************)
EXTENDS Integers, FiniteSets

CONSTANTS Width, Height,    \* of the screen
          Slot,             \* the slots of the table, 0 .. layer_max_count - 1
          Color,            \* what pixels can be
          Black,            \* COLOR_BLACK
          Transparent       \* layer_transparent

Pixel == (0 .. Width - 1) \X (0 .. Height - 1)
Box(width, height) == (0 .. width - 1) \X (0 .. height - 1)
Plus(p, o) == <<p[1] + o[1], p[2] + o[2]>>
Minus(p, q) == <<p[1] - q[1], p[2] - q[2]>>

ASSUME LayerAssumption ==
  /\ Width \in Nat \ {0} /\ Height \in Nat \ {0}
  /\ Slot \subseteq Nat
  /\ Black \in Color /\ Transparent \notin Color

VARIABLE layers    \* the table

layer_t(x, y, pixels, z_index, raise_on_click) ==
  [active |-> TRUE, visible |-> TRUE, position |-> <<x, y>>, pixels |-> pixels,
   z_index |-> z_index, raise_on_click |-> raise_on_click]
Unused == [layer_t(0, 0, <<>>, 0, FALSE) EXCEPT !.active = FALSE]

(* Each pixel of a layer is transparent, or has a colour.                  *)
IsLayer(l) ==
  /\ l \in [active : BOOLEAN, visible : BOOLEAN, position : Int \X Int, pixels : {l.pixels},
            z_index : Int, raise_on_click : BOOLEAN]
  /\ \A o \in DOMAIN l.pixels : l.pixels[o] \in Color \cup {Transparent}

Shown == {i \in Slot : layers[i].active /\ layers[i].visible}
-----------------------------------------------------------------------------
(* What programs do.  The program's handle has been turned into slot i.    *)

Active(i) == layers[i].active

(* The first slot not in use; its pixels are transparent.                  *)
layer_create(x, y, width, height, z_index, raise_on_click) ==
  \E i \in {j \in Slot : ~Active(j) /\ \A k \in Slot : k < j => Active(k)} :
    layers' = [layers EXCEPT ![i] =
                 layer_t(x, y, [o \in Box(width, height) |-> Transparent], z_index, raise_on_click)]

layer_destroy(i) == Active(i) /\ layers' = [layers EXCEPT ![i].active = FALSE]

layer_set_position(i, x, y) == Active(i) /\ layers' = [layers EXCEPT ![i].position = <<x, y>>]
layer_set_visible(i, visible) == Active(i) /\ layers' = [layers EXCEPT ![i].visible = visible]
layer_set_z_index(i, z_index) == Active(i) /\ layers' = [layers EXCEPT ![i].z_index = z_index]

(* layer_draw_pixel: what lies outside the layer is left out, here as for  *)
(* every pixel of a rectangle.                                             *)
layer_fill_rect(i, x, y, width, height, color) ==
  /\ Active(i)
  /\ layers' = [layers EXCEPT ![i].pixels =
       [o \in DOMAIN @ |-> IF Minus(o, <<x, y>>) \in Box(width, height) THEN color ELSE @[o]]]
layer_draw_pixel(i, x, y, color) == layer_fill_rect(i, x, y, 1, 1, color)
layer_fill(i, color) ==
  Active(i) /\ layers' = [layers EXCEPT ![i].pixels = [o \in DOMAIN @ |-> color]]
layer_clear(i) == layer_fill(i, Transparent)
-----------------------------------------------------------------------------
(* layer_compose, one pixel: of the layers that show something there, the  *)
(* one of the highest order, the last of them in the table.                *)

Local(i, p) == Minus(p, layers[i].position)
Covers(i, p) == /\ i \in Shown
                /\ Local(i, p) \in DOMAIN layers[i].pixels
                /\ layers[i].pixels[Local(i, p)] # Transparent
ColorOf(i, p) == layers[i].pixels[Local(i, p)]

Above(i, j) == \/ layers[i].z_index > layers[j].z_index
               \/ layers[i].z_index = layers[j].z_index /\ i >= j
Top(p) == {i \in Slot : Covers(i, p) /\ \A j \in Slot : Covers(j, p) => Above(i, j)}

layer_compose(p) == IF Top(p) = {} THEN Black ELSE ColorOf(CHOOSE i \in Top(p) : TRUE, p)
-----------------------------------------------------------------------------
(* raise_clicked_layer.                                                    *)

(* The layer of the highest order on the screen, the first of them in the  *)
(* table.                                                                  *)
Highest(p) == {i \in Shown : \A j \in Shown : /\ layers[i].z_index >= layers[j].z_index
                                              /\ layers[i].z_index = layers[j].z_index => i <= j}

(* The layer under the point and the highest one change places.            *)
raise_clicked_layer(p) ==
  \/ \E i \in Top(p), j \in Highest(p) :
       /\ layers[i].raise_on_click /\ i # j
       /\ layers' = [layers EXCEPT ![i].z_index = layers[j].z_index,
                                   ![j].z_index = layers[i].z_index]
  \/ /\ \A i \in Top(p) : ~layers[i].raise_on_click \/ i \in Highest(p)
     /\ UNCHANGED layers
=============================================================================
