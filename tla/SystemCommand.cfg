CONSTANTS
  Capacity = 2
  MaxOutput = 3
SPECIFICATION FairCommandSpec
INVARIANTS CommandTypeOK OutputWhole ReadsOnlyWhatFits
PROPERTY FitsReturns
CHECK_DEADLOCK FALSE
