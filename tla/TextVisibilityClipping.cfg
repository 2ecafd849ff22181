SPECIFICATION Spec
CONSTANTS
  Boxes <- MCBoxes
  Kinds = {"text", "clipping", "graphic"}
  Params <- DetectParams
  MaxItems = 3
  MaxPages = 1
INVARIANTS
  CoveredTextMoves
CHECK_DEADLOCK FALSE
