SPECIFICATION Spec
CONSTANTS
  Errors <- MCErrors
  MaxAttempts = 3
  Budget = 900
  ReceiptAttempts = 2
  ReceiptBudget = 60
  Jitters <- MCJitters
  Resets <- MCResets
  Modes = {"dispatch"}
  MaxStarts = 1
  MaxRuns = 2
  MaxPages = 2
INVARIANT RateLimitRead
CHECK_DEADLOCK FALSE
