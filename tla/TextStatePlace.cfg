SPECIFICATION Spec
CONSTANTS
  MaxOps = 5
  MaxPages = 1
  Moves <- MCMoves
  TextMats <- MCTextMats
  Concats = {}
  Fonts = {1}
  FontSizes = {1, 2}
  CharSpaces = {}
  WordSpaces = {}
  HorizScalings = {2}
  Rises = {}
  Shifts <- MCShifts
  Fills = {}
  Clips = {}
  Images = {}
  Strings <- MCStrings
  OptimizeText = TRUE
  SpaceAsOffset = FALSE
  Fallback = FALSE
INVARIANT TextInPlace
CHECK_DEADLOCK FALSE
