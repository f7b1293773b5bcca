CONSTANTS
  p1 = p1
  p2 = p2
  rg = rg
  vm = vm
  waf = waf
  None = None
  Operator <- MCOperator
  Azure <- MCAzure
  XC <- MCXC
  Group = rg
  Generator = vm
  Requires <- MCRequires
  MaxRuns = 3
  MaxFaults = 1
  MaxUid = 2
SPECIFICATION Spec
SYMMETRY Controllers
CHECK_DEADLOCK FALSE
INVARIANT TypeOK
INVARIANT LedgerNamesPinnedNamespace
INVARIANT DestroyDeletesLedgered
INVARIANT VerifiedDestroyIsComplete
INVARIANT VerifiedDeployLedger
INVARIANT ReadyFailureStopsTraffic
INVARIANT FixtureProved
PROPERTY UidPinned
PROPERTY VerifyMutatesNothing
