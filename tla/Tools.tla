------------------------------- MODULE Tools -------------------------------
(***************************************************************************)
(* The small tools beside the lifecycle, together: the phases of           *)
(* demo-verify.sh (readiness, acceptance, absence), the judgement of an    *)
(* attempt of the traffic generator, which acceptance rests on,            *)
(* csd-verify.sh, the generators of the coverage matrices and their live   *)
(* harnesses, and processes that save one file, the private state or the   *)
(* evidence. They share no state: a behaviour is one of the chosen tool,   *)
(* and the others' variables are idle. The sizes and tables of the tools   *)
(* are constants; MCTools gives them values.                               *)
(***************************************************************************)
EXTENDS AbsenceProof, Integers

CONSTANTS
  \* readiness
  Applications, ReadyTimeout, ReadyPoll, ReadTime, MaxFlips, Warnings,
  \* acceptance: of some domains with all controls, of others with the last two
  Hosts, TwoHosts, Ordinary, Burst, Window, AcceptPoll, Deadline, MaxStrangers,
  \* csd-verify.sh
  Scripts, PollMin, Pause, MaxTime, MaxTelemetry,
  \* the attempts of the traffic generator
  Sites, Sequences, Deviations,
  \* the live harnesses
  Manifests, RmFailures, Gated, Ranged, Truncates, MaxRuns, MaxKills,
  \* the files
  Writers, Documents, MaxSaves, MaxCrashes

VARIABLES
  tool,        \* the tool that is run
  boot, warned, broken, unit, up, flips, seen, rcheck, rclock, rverdict,
  apc, atodo, now, probe, attacked, mitigation, events, detected, read, gates, traffic,
  strangers,
  phase, enabled, cdetected, scripts, blocked, mitigated, cchanges, cclock, part, snapshot,
  polled, complete, cverdict,
  at, sequence, deviation, records, summary, failures,
  matrix, ppc, uncovered, rows, variants,
  harness, hpc, hat, last, addrs, imported, skipped, objects, lb, recorded, kept, report,
  since, touched, runs, kills,
  tmp, file, content, creator, writer, holder, saves, crashes

absences == vars
readinesses == <<boot, warned, broken, unit, up, flips, seen, rcheck, rclock, rverdict>>
acceptances == <<apc, atodo, now, probe, attacked, mitigation, events, detected, read, gates,
                 traffic, strangers>>
csds == <<phase, enabled, cdetected, scripts, blocked, mitigated, cchanges, cclock, part,
          snapshot, polled, complete, cverdict>>
attempts == <<at, sequence, deviation, records, summary, failures>>
matrices == <<matrix, ppc, uncovered, rows, variants>>
harnesses == <<harness, hpc, hat, last, addrs, imported, skipped, objects, lb, recorded, kept,
               report, since, touched, runs, kills>>
files == <<tmp, file, content, creator, writer, holder, saves, crashes>>

Readiness == INSTANCE Readiness WITH
  Domains <- Applications, Timeout <- ReadyTimeout, Poll <- ReadyPoll,
  check <- rcheck, clock <- rclock, verdict <- rverdict

Acceptance(Domains, Singles, Others) == INSTANCE Acceptance WITH
  Ordinary <- Singles, MaxStrangers <- Others, Poll <- AcceptPoll,
  pc <- apc, todo <- atodo

Csd == INSTANCE CsdVerify WITH
  MaxChanges <- MaxTelemetry,
  detected <- cdetected, changes <- cchanges, clock <- cclock, verdict <- cverdict

Traffic == INSTANCE TrafficBudget WITH Domains <- Sites

(* The matrices made from pairs whose rows lose nothing by reconciliation. *)
Independent == {"app_protection", "client_access", "header_manipulation", "jwt_graphql",
  "origin_pool", "service_policy", "service_policy_action", "service_policy_matcher",
  "service_policy_matcher2", "service_policy_request", "waf_exclusion"}

(* The matrices that list their variants.                                  *)
Enumerated == {"challenge", "csd", "custom_routes", "ddos", "healthcheck", "lb_algorithm",
  "route_object", "waf_exclusion_policy"}

Exercising == Independent \cup (Enumerated \ {"ddos"})

(* The matrices that lose pairs, though every value is in force somewhere; *)
(* those that lose values.                                                 *)
Reconciled == {"api_definition", "api_testing", "service_policy_ref_matcher", "waf"}
Losing == {"api_discovery", "api_protection", "ddos"}

Pair == INSTANCE PairMatrix WITH
  Matrix <- Independent \cup Reconciled \cup Losing \cup Enumerated, pc <- ppc

Live == INSTANCE MatrixHarness WITH
  Harness <- DOMAIN Manifests, Manifest <- Manifests, RmFailure <- RmFailures,
  pc <- hpc, at <- hat

(* save_json: O_EXCL, under the lock of the operation.                     *)
File == INSTANCE AtomicFile WITH
  Writer <- Writers, Value <- Documents, Exclusive <- TRUE, Locked <- TRUE

(* atomic of the traffic generator: the one temporary name is opened again, *)
(* under run.lock.                                                         *)
Publication == INSTANCE AtomicFile WITH
  Writer <- Writers, Value <- Documents, Exclusive <- FALSE, Locked <- TRUE

ASSUME FileAssumption == File!BoundsAreNumbers /\ File!NoneIsNothing

(* An application is named after its domain, and is neither a guest nor    *)
(* one of the other things that readiness looks at and may fail with.      *)
ASSUME ReadinessAssumption ==
  /\ {ReadyTimeout, ReadyPoll, ReadTime, MaxFlips} \subseteq Nat
  /\ IsFiniteSet(Applications) /\ Warnings \subseteq {"none", "azure", "other"}
  /\ Applications \cap (Readiness!Guests \cup Readiness!Controls) = {}
  /\ Applications \cap {"origin-services", "catalog", "none", "verified", "deadline",
                        "unavailable", "cloud-init", "final-unit"} = {}

(* Acceptance has domains; None is not a moment.                           *)
ASSUME AcceptanceAssumption ==
  /\ {Window, AcceptPoll, Deadline} \subseteq Nat /\ None \notin Nat
  /\ Hosts # <<>> /\ Hosts \in Seq(Elements(Hosts))
  /\ TwoHosts # <<>> /\ TwoHosts \in Seq(Elements(TwoHosts))

ASSUME CsdAssumption == {PollMin, Pause, MaxTime, MaxTelemetry} \subseteq Nat /\ Pause # 0

(* The attempts go to two domains, and have a number of requests.          *)
ASSUME TrafficAssumption ==
  /\ Sites = <<Sites[1], Sites[2]>> /\ Sites[1] # Sites[2]
  /\ \A d \in Deviations : Traffic!TARGET_COUNT + d.extra \in Nat

(* Every harness has a manifest, which lists variants.                     *)
ASSUME HarnessAssumption ==
  /\ {MaxRuns, MaxKills} \subseteq Nat
  /\ \A h \in DOMAIN Manifests :
       /\ Manifests[h] \in Seq(Live!Variant) /\ Manifests[h] # <<>>
       /\ RmFailures[h] \in [Live!Address -> {"fail", "import", "pass"}]

-----------------------------------------------------------------------------
NoAbsence ==
  /\ manifest = None /\ azure = None /\ xc = None /\ pc = None /\ todo = None
  /\ attempt = None /\ left = None /\ outcome = None /\ witness = None
  /\ reads = None /\ changes = None
NoReadiness ==
  /\ boot = None /\ warned = None /\ broken = None /\ unit = None /\ up = None
  /\ flips = None /\ seen = None /\ rcheck = None /\ rclock = None
  /\ rverdict = None
NoAcceptance ==
  /\ apc = None /\ atodo = None /\ now = None /\ probe = None
  /\ attacked = None /\ mitigation = None /\ events = None /\ detected = None
  /\ read = None /\ gates = None /\ traffic = None /\ strangers = None
NoCsd ==
  /\ phase = None /\ enabled = None /\ cdetected = None /\ scripts = None
  /\ blocked = None /\ mitigated = None /\ cchanges = None /\ cclock = None
  /\ part = None /\ snapshot = None /\ polled = None /\ complete = None
  /\ cverdict = None
NoTraffic ==
  /\ at = None /\ sequence = None /\ deviation = None /\ records = None
  /\ summary = None /\ failures = None
NoMatrix ==
  /\ matrix = None /\ ppc = None /\ uncovered = None /\ rows = None
  /\ variants = None
NoHarness ==
  /\ harness = None /\ hpc = None /\ hat = None /\ last = None /\ addrs = None
  /\ imported = None /\ skipped = None /\ objects = None /\ lb = None /\ recorded = None /\ kept = None
  /\ report = None /\ since = None /\ touched = None /\ runs = None /\ kills = None
NoFile ==
  /\ tmp = None /\ file = None /\ content = None /\ creator = None
  /\ writer = None /\ holder = None /\ saves = None /\ crashes = None

ToolsInit ==
  \/ /\ tool = "absence" /\ Init
     /\ NoReadiness /\ NoAcceptance /\ NoCsd
     /\ NoTraffic /\ NoMatrix /\ NoHarness /\ NoFile
  \/ /\ tool = "readiness" /\ Readiness!Init
     /\ NoAbsence /\ NoAcceptance /\ NoCsd
     /\ NoTraffic /\ NoMatrix /\ NoHarness /\ NoFile
  \/ /\ tool = "acceptance" /\ Acceptance(Hosts, Ordinary, MaxStrangers)!Init
     /\ NoAbsence /\ NoReadiness /\ NoCsd
     /\ NoTraffic /\ NoMatrix /\ NoHarness /\ NoFile
  \/ /\ tool = "acceptance of two" /\ Acceptance(TwoHosts, {}, 0)!Init
     /\ NoAbsence /\ NoReadiness /\ NoCsd
     /\ NoTraffic /\ NoMatrix /\ NoHarness /\ NoFile
  \/ /\ tool = "csd" /\ Csd!Init
     /\ NoAbsence /\ NoReadiness /\ NoAcceptance
     /\ NoTraffic /\ NoMatrix /\ NoHarness /\ NoFile
  \/ /\ tool = "traffic" /\ Traffic!Init
     /\ NoAbsence /\ NoReadiness /\ NoAcceptance
     /\ NoCsd /\ NoMatrix /\ NoHarness /\ NoFile
  \/ /\ tool = "matrix" /\ Pair!Init
     /\ NoAbsence /\ NoReadiness /\ NoAcceptance
     /\ NoCsd /\ NoTraffic /\ NoHarness /\ NoFile
  \/ /\ tool \in {"file", "publication"} /\ File!Init
     /\ NoAbsence /\ NoReadiness /\ NoAcceptance
     /\ NoCsd /\ NoTraffic /\ NoMatrix /\ NoHarness
  \/ /\ tool = "harness" /\ Live!Init
     /\ NoAbsence /\ NoReadiness /\ NoAcceptance
     /\ NoCsd /\ NoTraffic /\ NoMatrix /\ NoFile

ToolsNext ==
  /\ UNCHANGED tool
  /\ \/ tool = "absence" /\ Next
        /\ UNCHANGED <<readinesses, acceptances, csds, attempts, matrices, harnesses, files>>
     \/ tool = "readiness" /\ Readiness!Next
        /\ UNCHANGED <<absences, acceptances, csds, attempts, matrices, harnesses, files>>
     \/ tool = "acceptance" /\ Acceptance(Hosts, Ordinary, MaxStrangers)!Next
        /\ UNCHANGED <<absences, readinesses, csds, attempts, matrices, harnesses, files>>
     \/ tool = "acceptance of two" /\ Acceptance(TwoHosts, {}, 0)!Next
        /\ UNCHANGED <<absences, readinesses, csds, attempts, matrices, harnesses, files>>
     \/ tool = "csd" /\ Csd!Next
        /\ UNCHANGED <<absences, readinesses, acceptances, attempts, matrices, harnesses, files>>
     \/ tool = "traffic" /\ Traffic!Next
        /\ UNCHANGED <<absences, readinesses, acceptances, csds, matrices, harnesses, files>>
     \/ tool = "matrix" /\ Pair!Next
        /\ UNCHANGED <<absences, readinesses, acceptances, csds, attempts, harnesses, files>>
     \/ tool = "file" /\ File!Next
        /\ UNCHANGED <<absences, readinesses, acceptances, csds, attempts, matrices, harnesses>>
     \/ tool = "publication" /\ Publication!Next
        /\ UNCHANGED <<absences, readinesses, acceptances, csds, attempts, matrices, harnesses>>
     \/ tool = "harness" /\ Live!Next
        /\ UNCHANGED <<absences, readinesses, acceptances, csds, attempts, matrices, files>>

allvars == <<tool, absences, readinesses, acceptances, csds, attempts, matrices, harnesses,
             files>>
ToolsSpec == ToolsInit /\ [][ToolsNext]_allvars

-----------------------------------------------------------------------------
(* The properties of the tools, each for the behaviours of its own tool.   *)

(* Every tool keeps the types of its variables.                            *)
Types ==
  /\ tool = "absence" => TypeOK
  /\ tool = "readiness" => Readiness!TypeOK
  /\ tool = "acceptance" => Acceptance(Hosts, Ordinary, MaxStrangers)!TypeOK
  /\ tool = "acceptance of two" => Acceptance(TwoHosts, {}, 0)!TypeOK
  /\ tool = "csd" => Csd!TypeOK
  /\ tool = "matrix" => Pair!TypeOK
  /\ tool = "harness" => Live!TypeOK
  /\ tool \in {"file", "publication"} => File!TypeOK

(* Absence is proved object by object, and a pending absence rests on an   *)
(* object, not on a failed read (absence of demo_verify_scope.py).         *)
AbsenceHonest == tool = "absence" => VerifiedProved /\ PendingProved

(* A verified readiness rests on what was seen in this run, and a guest is *)
(* not rejected for being in the middle of a sound boot.                   *)
ReadinessHonest ==
  tool = "readiness" => Readiness!VerifiedObserved /\ Readiness!BootNeverRejected

(* A verified acceptance had every control stop a request of this run.     *)
ControlsEnforced ==
  /\ tool = "acceptance" => Acceptance(Hosts, Ordinary, MaxStrangers)!VerifiedControlsEnforced
  /\ tool = "acceptance of two" => Acceptance(TwoHosts, {}, 0)!VerifiedControlsEnforced

(* The accepted mitigation of each domain came after its detection.        *)
MitigationFollowsDetection ==
  /\ tool = "acceptance" => Acceptance(Hosts, Ordinary, MaxStrangers)!MitigationFollowsDetection
  /\ tool = "acceptance of two" => Acceptance(TwoHosts, {}, 0)!MitigationFollowsDetection

(* csd-verify.sh proves a detection by one fresh script of the expected    *)
(* domain, and gives up neither early nor over complete evidence.          *)
CsdHonest == tool = "csd" => Csd!OneScriptProves /\ Csd!PendingHonest

(* No tool overspends: the reads of the absence phase are bounded by the   *)
(* manifest, readiness begins nothing after its deadline, csd-verify.sh at *)
(* most one snapshot, the one that its last sleep takes past it, and the   *)
(* 1500 requests of an attempt keep their shares at every offset of the    *)
(* rotation.                                                               *)
BudgetsKept ==
  /\ tool = "absence" => ReadsBounded
  /\ tool = "readiness" => Readiness!ReadinessBounded
  /\ tool = "csd" => Csd!PollsBounded
  /\ tool = "traffic" => Traffic!BudgetKept

(* The verifier and the guest judge the same attempt alike: one that is    *)
(* answered as expected is verified, one with an attack that got through   *)
(* is not.                                                                 *)
JudgementsAgree ==
  tool = "traffic" =>
    Traffic!VerifierAgrees /\ Traffic!VerifiedMeasured /\ Traffic!ExpectedVerified


(* Every feasible pair of arms is in a variant of the matrices Exercising, *)
(* and every value in force in some variant of all but those that lose it. *)
MatrixCovers ==
  tool = "matrix" =>
    /\ matrix \in Exercising => Pair!PairsCovered
    /\ matrix \notin Losing => Pair!ArmsExercised

(* A PASS of a live harness was earned, and a load balancer that was left  *)
(* outside the state is reported, through failures, kills and restarts.    *)
HarnessHonest ==
  tool = "harness" => Live!PassManaged /\ Live!PassImported /\ Live!LostReported

(* A state file and a published file hold a whole document at every        *)
(* moment, and no temporary file of the state outlives the saves where     *)
(* nothing was killed.                                                     *)
FileSafe ==
  /\ tool \in {"file", "publication"} => File!FileWhole
  /\ tool = "file" => File!NothingLeftBehind
=============================================================================
