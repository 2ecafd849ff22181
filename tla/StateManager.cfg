SPECIFICATION Spec
CONSTANTS
  Values <- MCValues
  Eps = 2
INVARIANTS
  TypeOK
  Separated
  IdsDense
  EmittedFaithful
PROPERTY
  ClassesStable
