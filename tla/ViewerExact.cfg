SPECIFICATION Spec
CONSTANTS
  PageCount = 3
  Scales <- MCScales
  Reach <- MCReach
  preload_pages = 3
  MaxEvents = 1
  MaxFailures = 0
INVARIANT
  ExactOnceLoaded
CHECK_DEADLOCK FALSE
