CONSTANTS
  Width = 3
  Height = 3
  CursorWidth = 2
  CursorHeight = 2
  Slot = {1, 2, 3}
  Red = Red
  Blue = Blue
  Green = Green
  Black = Black
  Ink = Ink
  Transparent = Transparent
  Shape <- MCShape
  Color <- MCColor
  Layouts <- MCLayouts
  Boot <- MCBoot
  Owned = {3}
  Created = {3}
  Orders = {3}
  Places <- MCPlaces
  Paints = {Blue}
  Packets <- MCPackets
  MaxPackets = 2
  MaxChanges = 1
SPECIFICATION FairSpec
INVARIANTS
  AtMostOneHole
PROPERTIES
  OnePixelAtATime
  PictureSettles
  ClickRaises
