SPECIFICATION Spec
CONSTANTS
  MaxPage = 3
  MaxDraws = 2
  Bitmaps = {1, 2}
  Fonts = {1}
  Params <- MCParams
INVARIANTS
  TypeOK
  RefsExist
  OnlyOutputRemains
