------------------------------ MODULE MCScreen ------------------------------
(***************************************************************************)
(* A cursor of three pixels in a box of two by two, on a screen of three   *)
(* by three: four positions, which overlap one another in all ways.  A     *)
(* desktop that a click does not raise, a window with a transparent pixel, *)
(* and a slot that is a program's window in front of it, or free.  A click *)
(* may hit each of them, and the program may take the front again while    *)
(* the button is held.                                                     *)
(***************************************************************************)
EXTENDS Screen

CONSTANTS Red, Blue, Green

MCShape == {<<0, 0>>, <<0, 1>>, <<1, 1>>}
MCColor == {Red, Blue, Green, Black, Ink}
MCBoot == [p \in Pixel |-> Black]
MCPackets == {<<<<0, -1>>, TRUE>>, <<<<-1, 1>>, FALSE>>}
Desktop == layer_t(0, 0, [o \in Box(3, 3) |-> Red], 0, FALSE)
Window == layer_t(1, 0, [o \in Box(2, 2) |-> IF o = <<0, 1>> THEN Transparent ELSE Blue], 1, TRUE)
Program == layer_t(1, 1, [o \in Box(1, 2) |-> Green], 2, TRUE)
MCLayouts == {<<Desktop, Window, last>> : last \in {Program, Unused}}
MCPlaces == {<<0, 1>>}
=============================================================================
