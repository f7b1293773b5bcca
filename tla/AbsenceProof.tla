---------------------------- MODULE AbsenceProof ----------------------------
(***************************************************************************)
(* The absence phase of the live verifier: absence() and validate_manifest *)
(* of scripts/demo_verify_scope.py with Client.azure_exists and api of     *)
(* demo_verify_client.py. The manifest is checked as a whole, then every   *)
(* object it names is read once; an ARM read that met a transient failure  *)
(* is repeated once. Objects come and go while the reads are made. Time is *)
(* counted in back-offs.                                                   *)
(***************************************************************************)
EXTENDS Naturals, Sequences, FiniteSets

CONSTANTS
  Azure,       \* ARM identities
  Path,        \* paths of XC objects
  Namespace,   \* the path of the namespace
  Uid,         \* uids of XC objects
  Budget,      \* bound: the time of the phase
  MaxOwned,    \* bound: entries of each list of a manifest
  MaxChanges,  \* bound: objects that come or go during the phase
  None         \* no object

ASSUME NumbersAssumption == {Budget, MaxOwned, MaxChanges} \subseteq Nat
ASSUME NamesAssumption ==
  /\ Azure \cap (Path \cup {Namespace}) = {} /\ Namespace \notin Path /\ None \notin Uid
  /\ {"present", "unread"} \cap (Uid \cup {None}) = {}

VARIABLES
  manifest,       \* the ownership receipt
  azure, xc,      \* the ARM identities there are; the uid at each XC path
  pc, todo,       \* where the phase is; the checks it has left
  attempt, left,  \* of azure_exists; the time that remains
  outcome,        \* all outcomes so far
  witness,        \* ghost: what was there when each object was read
  reads, changes

vars == <<manifest, azure, xc, pc, todo, attempt, left, outcome, witness, reads, changes>>
world == <<azure, xc>>

XcPath == Path \cup {Namespace}
Lists(S) == UNION {[1..n -> S] : n \in 0..MaxOwned}
Entry == [path : XcPath, uid : Uid]
Elements(s) == {s[i] : i \in DOMAIN s}
Owned(m) == Elements(m.azure) \cup {e.path : e \in Elements(m.xc_owned)}
Preserved(m) == {e.path : e \in Elements(m.xc_preserved)}

(* The receipts there can be: private files that somebody may have edited. *)
Manifest == [azure : Lists(Azure), versions : SUBSET Azure,
             xc_owned : Lists(Entry), xc_preserved : Lists(Entry)]

Init ==
  /\ manifest \in Manifest
  /\ azure \in SUBSET Azure /\ xc \in [XcPath -> Uid \cup {None}]
  /\ pc = "validate" /\ todo = <<>> /\ attempt = 0 /\ left = Budget
  /\ outcome = TRUE /\ witness = [o \in Azure \cup XcPath |-> "unread"]
  /\ reads = 0 /\ changes = 0

-----------------------------------------------------------------------------
Distinct(s) == Cardinality(Elements(s)) = Len(s)
PathsOf(s) == [i \in DOMAIN s |-> s[i].path]

(* _manifest_shape, _azure_checks and _xc_checks: nonempty lists, a pinned *)
(* API version for exactly the named identities, no path named twice, and  *)
(* one namespace, which only the preserved list may name.                  *)
validate_manifest(m) ==
  /\ m.azure # <<>> /\ m.xc_owned # <<>> /\ m.xc_preserved # <<>>
  /\ Distinct(m.azure) /\ m.versions = Elements(m.azure)
  /\ Namespace \notin {e.path : e \in Elements(m.xc_owned)}
  /\ Distinct(PathsOf(m.xc_owned) \o PathsOf(m.xc_preserved))
  /\ Cardinality({i \in DOMAIN m.xc_preserved : m.xc_preserved[i].path = Namespace}) = 1

(* A check for each identity of the manifest, in its order.                *)
Checks(m) ==
  [i \in DOMAIN m.azure |-> [object |-> m.azure[i], uid |-> None, present |-> FALSE]]
  \o [i \in DOMAIN m.xc_owned |->
       [object |-> m.xc_owned[i].path, uid |-> m.xc_owned[i].uid, present |-> FALSE]]
  \o [i \in DOMAIN m.xc_preserved |->
       [object |-> m.xc_preserved[i].path, uid |-> m.xc_preserved[i].uid, present |-> TRUE]]

validate ==
  /\ pc = "validate"
  /\ IF validate_manifest(manifest)
     THEN pc' = "read" /\ todo' = Checks(manifest)
     ELSE pc' = "failure" /\ UNCHANGED todo
  /\ UNCHANGED <<manifest, world, attempt, left, outcome, witness, reads, changes>>

Check == Head(todo)
Reading(S) == pc = "read" /\ todo # <<>> /\ Check.object \in S /\ left > 0

There(o) == IF o \in Azure THEN (IF o \in azure THEN "present" ELSE None) ELSE xc[o]

(* The answers of ARM: the object, a not-found that names it, one that     *)
(* names something else, 429, 503 or no answer in time, any other failure. *)
Answers(o) ==
  {"other_absent", "transient", "failure"} \cup
    (IF o \in azure THEN {"present"} ELSE {"absent"})

(* A request and the time it takes.                                        *)
Request == reads' = reads + 1 /\ left' \in {left, left - 1}

Settle(result) ==
  /\ outcome' = (outcome /\ result)
  /\ witness' = [witness EXCEPT ![Check.object] = There(Check.object)]
  /\ todo' = Tail(todo) /\ attempt' = 0
  /\ UNCHANGED <<manifest, world, pc, changes>>

Fails ==
  /\ pc' = "failure"
  /\ UNCHANGED <<manifest, world, todo, attempt, outcome, witness, changes>>

(* _arm_absent: a not-found proves absence when it names the identity.     *)
arm_absent(answer) == answer = "absent"

(* A transient answer is asked again once, with more than the back-off left.*)
may_retry(after) == attempt = 0 /\ after > 1

azure_exists ==
  /\ Reading(Azure)
  /\ \E answer \in Answers(Check.object) :
       \/ answer = "present" /\ Request /\ Settle(Check.present)
       \/ arm_absent(answer) /\ Request /\ Settle(~Check.present)
       \/ /\ answer = "transient" /\ reads' = reads + 1
          /\ \E after \in {left, left - 1} :
               IF may_retry(after)
               THEN attempt' = attempt + 1 /\ left' = after - 1
                    /\ UNCHANGED <<manifest, world, pc, todo, outcome, witness, changes>>
               ELSE left' = after /\ Fails
       \/ /\ answer \notin {"present", "transient"} /\ ~arm_absent(answer)
          /\ Request /\ Fails

(* Mutant: an object that is there is taken for the captured one.          *)
xc_outcome_any_uid ==
  /\ Reading(XcPath)
  /\ Request
  /\ \/ Settle(IF Check.present THEN xc[Check.object] # None ELSE xc[Check.object] = None)
     \/ Fails

(* _xc_outcome: the object with its uid, a 404, or a failure.              *)
xc_outcome ==
  /\ Reading(XcPath)
  /\ Request
  /\ \/ Settle(IF Check.present THEN xc[Check.object] = Check.uid ELSE xc[Check.object] = None)
     \/ Fails

(* remaining(): the time is over before a request.                         *)
deadline ==
  /\ pc = "read" /\ todo # <<>> /\ left = 0
  /\ Fails /\ UNCHANGED <<left, reads>>

verdict ==
  /\ pc = "read" /\ todo = <<>>
  /\ pc' = IF outcome THEN "verified" ELSE "pending"
  /\ UNCHANGED <<manifest, world, todo, attempt, left, outcome, witness, reads, changes>>

absence == validate \/ azure_exists \/ xc_outcome \/ deadline \/ verdict

-----------------------------------------------------------------------------
(* Objects come and go: a deletion that was still running, a new object.   *)
Changed ==
  /\ pc = "read" /\ changes < MaxChanges
  /\ changes' = changes + 1
  /\ \/ \E a \in Azure :
          /\ azure' = (azure \ {a}) \cup ({a} \ azure)
          /\ xc' = xc
     \/ \E p \in XcPath, u \in Uid \cup {None} :
          /\ u # xc[p]
          /\ xc' = [xc EXCEPT ![p] = u]
          /\ azure' = azure
  /\ UNCHANGED <<manifest, pc, todo, attempt, left, outcome, witness, reads>>

Next == absence \/ Changed

Spec == Init /\ [][Next]_vars

-----------------------------------------------------------------------------
TypeOK ==
  /\ manifest \in Manifest
  /\ azure \subseteq Azure /\ xc \in [XcPath -> Uid \cup {None}]
  /\ pc \in {"validate", "read", "verified", "pending", "failure"}
  /\ \A i \in DOMAIN todo : todo[i].object \in Azure \cup XcPath
  /\ attempt \in {0, 1} /\ left \in 0..Budget /\ outcome \in BOOLEAN
  /\ witness \in [Azure \cup XcPath -> Uid \cup {None, "present", "unread"}]
  /\ reads \in Nat /\ changes \in 0..MaxChanges

(* Absence is proved: every owned object of the manifest was seen absent   *)
(* and every preserved one with the uid that was captured, whatever comes  *)
(* and goes meanwhile and whichever requests fail; nothing is both.        *)
VerifiedProved ==
  pc = "verified" =>
    /\ \A o \in Owned(manifest) : witness[o] = None
    /\ \A e \in Elements(manifest.xc_preserved) : witness[e.path] = e.uid
    /\ Namespace \in Preserved(manifest)

(* A pending result rests on an object too: one that was seen to be there, *)
(* or a preserved one seen to be gone or replaced. Transient answers, and  *)
(* answers about something else, end in a failure.                         *)
PendingProved ==
  pc = "pending" =>
    \/ \E o \in Owned(manifest) : witness[o] \notin {None, "unread"}
    \/ \E e \in Elements(manifest.xc_preserved) : witness[e.path] \notin {e.uid, "unread"}

(* Nothing is read for a manifest whose scopes overlap ("validate all      *)
(* receipt entries before permitting exact absence reads"), and no object  *)
(* is asked for more than twice.                                           *)
ReadsBounded ==
  /\ reads > 0 => Owned(manifest) \cap Preserved(manifest) = {}
  /\ reads <= 2 * Len(manifest.azure) + Len(manifest.xc_owned) + Len(manifest.xc_preserved)
=============================================================================
