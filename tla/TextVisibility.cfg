SPECIFICATION Spec
CONSTANTS
  Boxes <- MCBoxes
  Kinds = {"text", "space", "image", "graphic"}
  Params <- MCParams
  MaxItems = 3
  MaxPages = 2
INVARIANTS
  TypeOK
  EachCharOnce
  PaintOrderKept
CHECK_DEADLOCK FALSE
