CONSTANTS
  None = None
  Record <- MCRecord
  TimeOf <- MCTimeOf
  Newer <- MCNewer
  MaxTime = 4
  MinWindow = 1
  InitialWindow = 3
  PageLimit = 2
  MaxPages = 2
  MaxInserts = 2
SPECIFICATION FairSpec
CHECK_DEADLOCK FALSE
INVARIANT Inv
PROPERTIES ImplementsCompleteRead ReadEnds
