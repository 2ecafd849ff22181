SPECIFICATION Spec
CONSTANTS
  MaxChars = 4
  Styles <- MCStyles
  Widths <- MCWidths
  CoveredSets <- MCCovered
  Params <- MCParams
  HEps = 1
  VEps = 1
  HashClasses = 2
INVARIANTS
  TypeOK
  CharsPlaced
  CharsStyled
  LineWhole
