SPECIFICATION MCSpec
CONSTANTS
  Errors <- MCErrors
  MaxAttempts = 3
  Budget = 900
  ReceiptAttempts = 2
  ReceiptBudget = 60
  Jitters <- MCJitters
  Resets <- MCResets
  Modes = {"get", "dispatch"}
  MaxStarts = 2
  MaxRuns = 3
  MaxPages = 2
INVARIANTS Inv UsableRunOnce ReportCovered
PROPERTY CommandEnds
CHECK_DEADLOCK FALSE
