CONSTANTS
  None = None
  host = host
  second = second
  a1 = a1
  p1 = p1
  ns = ns
  u1 = u1
  u2 = u2
  w1 = w1
  w2 = w2
  d1 = d1
  d2 = d2
  Azure = {a1}
  Path = {p1}
  Namespace = ns
  Uid = {u1, u2}
  Budget = 3
  MaxOwned = 2
  MaxChanges = 2
  Applications = {"a.example"}
  ReadyTimeout = 4
  ReadyPoll = 2
  ReadTime = 1
  MaxFlips = 1
  Warnings = {"none", "azure"}
  Hosts <- MCHosts
  TwoHosts <- MCTwoHosts
  Ordinary = {"schema"}
  Burst = 2
  Window = 2
  AcceptPoll = 3
  Deadline = 5
  MaxStrangers = 1
  Scripts = {"a", "b"}
  PollMin = 3
  Pause = 2
  MaxTime = 1
  MaxTelemetry = 2
  Sites <- MCSites
  Sequences <- MCOffsets
  Deviations <- MCDeviations
  Manifests <- MCManifests
  RmFailures <- MCRmFailures
  Gated = {"waf", "api_discovery"}
  Ranged = {"waf", "api_discovery", "api_definition"}
  Truncates = {"mud", "api_definition"}
  MaxRuns = 2
  MaxKills = 1
  Writers = {w1, w2}
  Documents = {d1, d2}
  MaxSaves = 4
  MaxCrashes = 2
SPECIFICATION ToolsSpec
CHECK_DEADLOCK FALSE
INVARIANTS Types AbsenceHonest ReadinessHonest ControlsEnforced CsdHonest
INVARIANTS MitigationFollowsDetection HarnessHonest BudgetsKept JudgementsAgree  MatrixCovers FileSafe
