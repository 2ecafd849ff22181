SPECIFICATION FairSpec
CONSTANTS
  PageCount = 3
  Scales <- MCScales
  Reach <- MCReach
  preload_pages = 3
  MaxEvents = 2
  MaxFailures = 1
INVARIANTS
  TypeOK
  LoadedOnce
  ScaleUniform
PROPERTY
  Settles
CHECK_DEADLOCK FALSE
