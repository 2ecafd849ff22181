CONSTANTS
  Files = 2
  MaxPages = 2
  FirstLayouts <- MCFirstLayouts
  Layouts <- MCLayouts
  Tolerance = 6
  OldTexts = 3
  MaxRuns = 3
SPECIFICATION Spec
INVARIANTS
  TypeOK
  OutputOfOneRun
  NoGaps
  DuplicatesDropped
  PageWhole
  GroupsInOrder
CHECK_DEADLOCK FALSE
