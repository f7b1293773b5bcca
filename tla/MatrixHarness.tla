--------------------------- MODULE MatrixHarness ---------------------------
(***************************************************************************)
(* The live harnesses of the coverage matrices (scripts/*-matrix.sh):      *)
(* every variant of the manifest is applied to the one live load balancer, *)
(* planned again, taken out of the Terraform state, imported and planned   *)
(* once more, and gets a line in the report; the last variant restores the *)
(* canonical configuration. Terraform's commands fail at any time, an      *)
(* apply after some of its work; `state list`, which decides whether the   *)
(* objects besides the load balancer are imported, then shows none of them *)
(* and nobody is told. A harness is killed anywhere and started again, on  *)
(* all variants or on a range of them, and adds to the report or begins it *)
(* anew. The tenant never returns a write-only secret, so what is imported *)
(* lacks it. "lb" is the object under test, for waf-matrix.sh the          *)
(* application firewall of the load balancer; "ref" stands for the objects *)
(* of a variant besides it, among them the one with the secret.            *)
(***************************************************************************)
EXTENDS Integers, Sequences

CONSTANTS
  Harness,     \* the scripts
  Manifest,    \* [Harness -> Seq(Variant)]: the order of the manifest
  RmFailure,   \* [Harness -> [Address -> what a failed `state rm` leads to]]
  Gated,       \* harnesses that record a gated arm as skipped
  Ranged,      \* harnesses that take a range of variants
  Truncates,   \* harnesses that begin the report anew when given no range
  MaxRuns,     \* bound: starts of a harness
  MaxKills     \* bound: kills

Address == {"lb", "ref"}

(* A variant: the objects it has besides the load balancer, whether it     *)
(* carries a write-only secret, and whether it is only planned.            *)
Variant == [name : STRING, refs : SUBSET {"ref"}, secret : BOOLEAN, skip : BOOLEAN]

VARIABLES
  harness,
  pc,          \* the command that comes next, "off" when no harness runs
  at, last,    \* the variant at work, and the last one of the range
  addrs,       \* the addresses still to be taken out and imported
  imported,    \* the addresses imported for this variant,
  skipped,     \* and those that a failed command left out without a word
  objects,     \* the addresses whose object exists
  lb,          \* the variant the load balancer is configured as
  recorded,    \* the addresses in the Terraform state
  kept,        \* the state has the write-only secret
  report,      \* the lines of the report
  since,       \* the lines of earlier runs in it
  touched,     \* this run applied a variant
  runs, kills

place == <<harness, last, since>>
tenant == <<objects, lb, recorded, kept>>
bounds == <<runs, kills>>
vars == <<place, pc, at, addrs, imported, skipped, tenant, report, touched, bounds>>

Now == Manifest[harness][at]
Wanted(v) == {"lb"} \cup v.refs

Canonical(h) == Manifest[h][Len(Manifest[h])]

Init ==
  /\ harness \in Harness
  /\ pc = "off" /\ at = 1 /\ last = 0 /\ addrs = <<>> /\ imported = {} /\ skipped = {}
  /\ objects = {"lb"} /\ lb = Canonical(harness).name /\ recorded = {"lb"} /\ kept = FALSE
  /\ report = <<>> /\ since = 0 /\ touched = FALSE
  /\ runs = 0 /\ kills = 0

-----------------------------------------------------------------------------
(* Terraform                                                               *)

(* An object that exists but is not recorded cannot be created.            *)
Conflicts(A) == \E a \in A : a \in objects \ recorded

(* What an apply leaves that reaches the addresses A.                      *)
Reaches(A) ==
  /\ ~Conflicts(A)
  /\ objects' = objects \cup A /\ recorded' = recorded \cup A
  /\ lb' = IF "lb" \in A THEN Now.name ELSE lb
  /\ kept' = IF "ref" \in A THEN Now.secret ELSE kept

Applies ==
  /\ ~Conflicts(Wanted(Now))
  /\ recorded' = Wanted(Now) /\ objects' = (objects \ recorded) \cup Wanted(Now)
  /\ lb' = Now.name /\ kept' = Now.secret

ApplyFails == \E A \in SUBSET Wanted(Now) : Reaches(A)

(* plan -detailed-exitcode: 0 without changes, 2 with some, 1 for an error.*)
(* A provider may propose changes where nothing differs.                   *)
Clean(v) ==
  recorded = Wanted(v) /\ recorded \subseteq objects /\ lb = v.name /\ (v.secret => kept)

PlanCodes == {1, 2} \cup (IF Clean(Now) THEN {0} ELSE {})

-----------------------------------------------------------------------------
(* The harness                                                             *)

Report(verdict) ==
  /\ report' = Append(report, [variant |-> at, verdict |-> verdict,
                               imported |-> imported, skipped |-> skipped])
  /\ pc' = "next" /\ at' = at + 1 /\ addrs' = <<>> /\ imported' = {} /\ skipped' = {}

Go(next) == pc' = next /\ UNCHANGED <<at, addrs, imported, skipped, report>>

(* A run given a range adds to the report, even if it is the whole one.    *)
start ==
  /\ pc = "off" /\ runs < MaxRuns
  /\ \E i, j \in 1..Len(Manifest[harness]), range \in BOOLEAN :
       /\ i <= j /\ at' = i /\ last' = j
       /\ IF range THEN harness \in Ranged ELSE i = 1 /\ j = Len(Manifest[harness])
       /\ report' = IF ~range /\ harness \in Truncates THEN <<>> ELSE report
       /\ since' = Len(report')
  /\ pc' = "next" /\ runs' = runs + 1 /\ touched' = FALSE
  /\ UNCHANGED <<harness, addrs, imported, skipped, tenant, kills>>

(* prep_varfile fails when a secret is not sealed, or a document not       *)
(* uploaded; a variant that is skipped is only planned, which may fail.    *)
prepare ==
  /\ pc = "next" /\ at <= last
  /\ \/ (Now.secret \/ Now.skip) /\ Report("FAIL")
     \/ Now.skip /\ Report("SKIP")
     \/ ~Now.skip /\ Go("apply")
  /\ UNCHANGED <<place, tenant, touched, bounds>>

(* An apply that fails is a failure, or a gated arm by what it says. The   *)
(* conflict with an object that exists says nothing of the kind.           *)
apply ==
  /\ pc = "apply"
  /\ touched' = TRUE
  /\ \/ Applies /\ Go("plan")
     \/ ApplyFails /\ Report("FAIL")
     \/ ApplyFails /\ ~Conflicts(Wanted(Now)) /\ harness \in Gated /\ Report("SKIP")
  /\ UNCHANGED <<place, bounds>>

(* `terraform state list 2>/dev/null | grep -q`, under pipefail: an address *)
(* that is recorded is found, unless the list fails.                       *)
StateLists == {{}, recorded}

(* The plan right after the apply: no changes, or not idempotent. What the *)
(* list shows is imported, before or after the load balancer.              *)
plan ==
  /\ pc = "plan"
  /\ \E code \in PlanCodes, list \in StateLists :
       IF code = 0
       THEN /\ pc' = "remove"
            /\ addrs' = IF "ref" \in list THEN <<"lb", "ref">> ELSE <<"lb">>
            /\ skipped' = (recorded \ list) \cap {"ref"}
            /\ UNCHANGED <<at, imported, report>>
       ELSE Report("FAIL")
  /\ UNCHANGED <<place, tenant, touched, bounds>>

(* round_trip, import_one: what a `state rm` that fails leads to differs:  *)
(* the variant fails, the import is tried all the same, or the address is  *)
(* taken for one that is not there.                                        *)
state_rm ==
  /\ pc = "remove" /\ addrs # <<>>
  /\ \/ recorded' = recorded \ {Head(addrs)} /\ Go("import")
     \/ UNCHANGED recorded /\ CASE RmFailure[harness][Head(addrs)] = "fail" -> Report("FAIL")
                                [] RmFailure[harness][Head(addrs)] = "import" -> Go("import")
                                [] OTHER -> /\ addrs' = Tail(addrs)
                                            /\ skipped' = skipped \cup {Head(addrs)}
                                            /\ UNCHANGED <<pc, at, imported, report>>
  /\ UNCHANGED <<place, objects, lb, kept, touched, bounds>>

import ==
  /\ pc = "import"
  /\ \/ /\ Head(addrs) \in objects \ recorded
        /\ recorded' = recorded \cup {Head(addrs)} /\ kept' = (kept /\ Head(addrs) # "ref")
        /\ imported' = imported \cup {Head(addrs)} /\ addrs' = Tail(addrs)
        /\ pc' = "remove" /\ UNCHANGED <<at, skipped, report>>
     \/ Report("FAIL") /\ UNCHANGED <<recorded, kept>>
  /\ UNCHANGED <<place, objects, lb, touched, bounds>>

(* Mutant: what is applied again is not planned again.                     *)
round_trip_trusting ==
  /\ pc = "remove" /\ addrs = <<>>
  /\ \E code \in PlanCodes :
       CASE code = 0 -> Report("PASS")
         [] code = 2 /\ Now.secret -> Report("PASS")
         [] OTHER -> Report("FAIL")
  /\ UNCHANGED <<place, tenant, touched, bounds>>

(* The plan of what was imported. Only a variant with a write-only secret  *)
(* may be applied again, to set it.                                        *)
round_trip ==
  /\ pc = "remove" /\ addrs = <<>>
  /\ \E code \in PlanCodes :
       CASE code = 0 -> Report("PASS")
         [] code = 2 /\ Now.secret -> Go("again")
         [] OTHER -> Report("FAIL")
  /\ UNCHANGED <<place, tenant, touched, bounds>>

(* The exit status of this apply is not looked at, that of the plan is.    *)
apply_again ==
  /\ pc = "again"
  /\ Applies \/ ApplyFails
  /\ Go("plan again")
  /\ UNCHANGED <<place, touched, bounds>>

plan_again ==
  /\ pc = "plan again"
  /\ \E code \in PlanCodes : IF code = 0 THEN Report("PASS") ELSE Report("FAIL")
  /\ UNCHANGED <<place, tenant, touched, bounds>>

finish ==
  /\ pc = "next" /\ at > last
  /\ pc' = "off"
  /\ UNCHANGED <<place, at, addrs, imported, skipped, tenant, report, touched, bounds>>

(* The harness is killed; Terraform ends the command it is in or not.      *)
kill ==
  /\ pc \notin {"off", "next"} /\ kills < MaxKills
  /\ kills' = kills + 1 /\ pc' = "off" /\ at' = 1
  /\ addrs' = <<>> /\ imported' = {} /\ skipped' = {}
  /\ IF pc \in {"apply", "again"} THEN Applies \/ ApplyFails ELSE UNCHANGED tenant
  /\ UNCHANGED <<place, report, touched, runs>>

Next ==
  \/ start \/ prepare \/ apply \/ plan \/ state_rm \/ import \/ round_trip
  \/ apply_again \/ plan_again \/ finish \/ kill

Spec == Init /\ [][Next]_vars

-----------------------------------------------------------------------------
TypeOK ==
  /\ harness \in Harness
  /\ pc \in {"off", "next", "apply", "plan", "remove", "import", "again", "plan again"}
  /\ at \in 1..(Len(Manifest[harness]) + 1) /\ last \in 0..Len(Manifest[harness])
  /\ \A i \in DOMAIN addrs : addrs[i] \in Address
  /\ imported \subseteq Address /\ skipped \subseteq Address
  /\ objects \subseteq Address /\ recorded \subseteq Address
  /\ lb \in {Manifest[harness][i].name : i \in DOMAIN Manifest[harness]}
  /\ kept \in BOOLEAN /\ touched \in BOOLEAN
  /\ \A i \in DOMAIN report : report[i].verdict \in {"PASS", "FAIL", "SKIP"}
  /\ since \in 0..Len(report) /\ runs \in 0..MaxRuns /\ kills \in 0..MaxKills

Mine == {report[i] : i \in (since + 1)..Len(report)}

(* A PASS is written only while the tenant, the state and the var-file     *)
(* agree: a canonical variant that passed last left the load balancer      *)
(* healthy and managed, whatever failed before it.                         *)
PassManaged ==
  (pc = "next" /\ Len(report) > since /\ report[Len(report)].verdict = "PASS") =>
    Clean(Manifest[harness][report[Len(report)].variant])

(* A PASS means that everything the variant has was imported, but for what *)
(* a failed command left out without a word: the objects a failed          *)
(* `state list` did not show; and the load balancer only by a harness that *)
(* takes a failed `state rm` for an address that is not there.             *)
PassImported ==
  \A i \in DOMAIN report :
    report[i].verdict = "PASS" =>
      /\ Wanted(Manifest[harness][report[i].variant]) \subseteq
           report[i].imported \cup report[i].skipped
      /\ "lb" \in report[i].skipped => RmFailure[harness]["lb"] = "pass"

(* Whoever left an object outside the state, this run or a killed one, a   *)
(* run that applies something over it reports a failure.                   *)
LostReported ==
  (pc = "off" /\ at > last /\ touched /\ "lb" \in objects \ recorded) =>
    \E line \in Mine : line.verdict = "FAIL"
=============================================================================
