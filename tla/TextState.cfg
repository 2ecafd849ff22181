SPECIFICATION Spec
CONSTANTS
  MaxOps = 5
  MaxPages = 2
  Moves <- MCMoves
  TextMats <- MCTextMats
  Concats = {2}
  Fonts = {1, 2}
  FontSizes = {1, 2}
  CharSpaces = {2}
  WordSpaces = {2}
  HorizScalings = {2}
  Rises = {1}
  Shifts <- MCShifts
  Fills = {2}
  Clips = {2}
  Images = {2}
  Strings <- MCStrings
  OptimizeText = TRUE
  SpaceAsOffset = FALSE
  Fallback = FALSE
INVARIANTS
  TypeOK
  PlaceKept
  StyleKept
  ClipKept
  MarksComplete
  OffsetsHaveLine
CHECK_DEADLOCK FALSE
