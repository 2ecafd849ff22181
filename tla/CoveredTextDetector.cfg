SPECIFICATION FairSpec
CONSTANTS
  Boxes <- MCBoxes
  MaxChars = 4
  MaxGraphics = 1
INVARIANTS
  TypeOK
  NothingPaintedOverText
  CallsDescend
PROPERTIES
  ImplementsPaintLayers
  CallsReturn
