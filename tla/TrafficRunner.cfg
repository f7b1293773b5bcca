CONSTANTS
  c1 = c1
  None = None
  Config = {c1}
  MaxCycles = 3
  MaxTicks = 2
  MaxEdits = 1
  MaxKills = 1
  MaxCommands = 2
  MaxReaders = 1
  Spent <- MCSpent
SPECIFICATION FairSpec
CHECK_DEADLOCK FALSE
INVARIANTS Inv QuietAfterStop VerdictHonest
PROPERTIES HistoryAppendOnly FailureSurfaces
