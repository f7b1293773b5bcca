-------------------------- MODULE DemoLedger_proof --------------------------
(***************************************************************************)
(* What a demo operation leaves behind: the ledger after a deploy, the     *)
(* traffic after a failure, what a destroy deletes and proves, and what a  *)
(* verify leaves alone.  Each property gets the invariant it needs beside  *)
(* the order of the steps.                                                 *)
(***************************************************************************)
EXTENDS DemoLifecycle_proof

(* Controllers whose evidence still counts.                                *)
Shown(p) == run[p].stage \in {"running", "verified"}

(* Traffic runs only on a recorded generator that exists, and a fresh plan *)
(* of a controller that started it knows the generator.                    *)
TrafficOwned ==
  /\ traffic => live[Generator] # "absent" /\ Generator \in appState
  /\ \A p \in fresh : traffic /\ Shown(p) => Generator \in run[p].plan.prior

(* The invariant behind ReadyFailureStopsTraffic.                          *)
TrafficInv == TrafficOwned /\ ReadyFailureStopsTraffic

(* From the inventory on, a deploy holds what the state records, and from  *)
(* its save on the ledger says so.                                         *)
Captured ==
  \A p \in Operator : Shown(p) =>
    /\ InDeploy(p, 24, 31) => run[p].resources = appState
    /\ InDeploy(p, 25, 31) => manifest # None /\ manifest.owned = run[p].resources

(* The last plan and the last apply of a deploy change nothing.            *)
NothingLeft ==
  \A p \in Operator : run[p].stage = "running" =>
    /\ InDeploy(p, 29, 29) /\ p \in fresh =>
         run[p].plan.change = NothingToDo /\ run[p].plan.prior = appState
    /\ InDeploy(p, 30, 30) /\ tf.owner = p => tf.change = NothingToDo /\ tf.made = {}

(* The invariant behind VerifiedDeployLedger.                              *)
CaptureInv == Captured /\ NothingLeft

Deletes(change) == {r \in Resource : change[r] = "delete"}

(* What a running controller saved is what the ledger names.               *)
SavedIsOwned ==
  \A p \in Operator : run[p].stage = "running" /\ run[p].owned # None =>
    manifest # None /\ manifest.owned = run[p].owned

(* A destroy has saved its inventory long before it plans.                 *)
CaptureFirst ==
  \A p \in Operator : run[p].stage = "running" =>
    /\ run[p].op = "destroy" /\ run[p].at >= 17 => run[p].owned # None
    /\ run[p].op = "rebuild" /\ run[p].at >= 9 => run[p].owned # None

(* A fresh destroy plan deletes only what was saved and is recorded.       *)
PlannedDeletes ==
  \A p \in fresh : run[p].stage = "running" /\ run[p].plan.mode = "destroy" =>
    /\ run[p].owned # None
    /\ Deletes(run[p].plan.change) \subseteq run[p].owned \cap run[p].plan.prior

(* A controller about to save an inventory.                                *)
AtSave(p) ==
  \/ InDeploy(p, 24, 24) \/ InDestroy(p, 16, 16) \/ InVerify(p, 17, 17)
  \/ run[p].op = "rebuild" /\ run[p].at = 8

(* What a destroy at work deletes is in the ledger, and stays in it        *)
(* whatever inventory is saved next.                                       *)
RunningDeletes ==
  tf.mode = "destroy" =>
    /\ manifest # None
    /\ Deletes(tf.change) \subseteq manifest.owned \cap appState
    /\ \A p \in Operator : run[p].stage = "running" /\ AtSave(p) =>
         Deletes(tf.change) \subseteq run[p].resources

(* The invariant behind DestroyDeletesLedgered.                            *)
DeleteInv == SavedIsOwned /\ CaptureFirst /\ PlannedDeletes /\ RunningDeletes

(* A destroy or rebuild that began with an altered schema object stops at  *)
(* the latest where it verifies the object.                                *)
FixtureInv ==
  \A p \in Operator : Shown(p) /\ run[p].op \in {"destroy", "rebuild"} /\ run[p].began = "altered" =>
    /\ run[p].stage = "running"
    /\ fixture = "altered"
    /\ run[p].at <= IF run[p].op = "destroy" THEN 34 ELSE 9

(* A verify is past its gate only with the namespace in the state, and     *)
(* never at the import.                                                    *)
VerifyInv ==
  \A p \in Operator : run[p].stage = "running" /\ run[p].op = "verify" =>
    /\ run[p].at > 3 => namespaceState
    /\ run[p].at \notin {7, 8, 9}

(* Nothing is in the resource group without the group.                     *)
GroupHolds ==
  \A r \in Azure : live[r] # "absent" => live[Group] # "absent"

(* A destroy past its empty state holds an empty state; past its absence   *)
(* proof, an absence of all the ledger names.                              *)
AbsenceShown ==
  \A p \in Operator : Shown(p) /\ run[p].op = "destroy" =>
    /\ run[p].at \in 23..36 => appState = {}
    /\ run[p].at \in 24..36 =>
         /\ manifest # None
         /\ manifest.owned \cap Azure # {}
         /\ \A r \in manifest.owned : live[r] # "ours"
         /\ Group \in manifest.owned => \A r \in Azure : live[r] # "ours"

(* The invariant behind LedgeredIsGone.                                    *)
AbsenceInv == GroupHolds /\ AbsenceShown

(* A record of something in the group also names the group.                *)
GroupRecorded(resources) == resources \cap Azure # {} => Group \in resources

(* What these resources refer to is recorded and exists.                   *)
Supported(resources) ==
  \A s \in resources : \A r \in Requires[s] : r \in appState /\ live[r] # "absent"

(* Without drift a destroy only deletes, and the others only create.       *)
PlanOfMode(mode, change) ==
  /\ mode = "destroy" => \A r \in Resource : change[r] \in {"no-op", "delete"}
  /\ mode # "destroy" => \A r \in Resource : change[r] \in {"no-op", "create"}

(* What a Terraform child and the state keep to when nothing but the       *)
(* lifecycle changes the tenant.                                           *)
TfUndisturbed ==
  /\ drift = {}
  /\ PlanOfMode(tf.mode, tf.change)
  /\ tf.mode = "destroy" => tf.made = {}
  /\ Supported(appState) /\ Supported(tf.made)
  /\ GroupRecorded(appState)

(* What the controllers and the ledger keep to in that case.               *)
RunUndisturbed ==
  /\ \A p \in Operator : run[p].stage = "running" /\ run[p].resources # None =>
       GroupRecorded(run[p].resources)
  /\ manifest # None => GroupRecorded(manifest.owned)
  /\ \A p \in fresh : run[p].stage = "running" =>
       PlanOfMode(run[p].plan.mode, run[p].plan.change) /\ run[p].plan.prior = Refreshed

(* The invariant behind UndisturbedDestroyIsComplete.                      *)
Undisturbed == faults = 0 => TfUndisturbed /\ RunUndisturbed

-----------------------------------------------------------------------------
(* Every change of the system, seen by what it may touch.                  *)
Passes(p, s) == At(p, s) /\ s # "complete" /\ Step(p) /\ Moves(p, s) /\ Writes(s)

(* A controller ends its program.                                          *)
Completes(p) ==
  /\ \A q \in Operator \ {p} : run'[q] = run[q]
  /\ run'[p].stage = "verified" /\ run'[p].op = run[p].op /\ run'[p].at = run[p].at
  /\ run'[p].resources = run[p].resources /\ run'[p].owned = run[p].owned
  /\ run'[p].plan = run[p].plan /\ run'[p].began = run[p].began
  /\ run[p].stage = "running" /\ run[p].at = Length[run[p].op]
  /\ UNCHANGED <<namespaceState, manifest, appState, lock, tf, fresh, live, drift,
                 fixture, traffic, faults>>

(* Something changes the tenant from outside.                              *)
Meddles ==
  /\ UNCHANGED <<run, tf, fresh, lock, namespaceState, manifest, appState>>
  /\ faults' = faults + 1
  /\ \A r \in Resource : live'[r] = live[r] \/ live'[r] \in {"absent", "foreign"}
  /\ \A r \in Azure \ {Group} :
       live'[r] # "absent" => live[r] # "absent" \/ live[Group] # "absent"
  /\ live'[Group] = "absent" => live[Group] = "absent" \/ \A r \in Azure : live'[r] = "absent"
  /\ traffic' => traffic
  /\ traffic' /\ live[Generator] # "absent" => live'[Generator] # "absent"
  /\ fixture # "intact" => fixture' = fixture

(* A Terraform child works on r.                                           *)
Works(r) == TfDelete(r) \/ TfForget(r) \/ TfCreate(r) \/ TfRecord(r) \/ TfUpdate(r)

Unmoved == UNCHANGED <<run, tf, fresh, lock, namespaceState, manifest, appState, live, drift,
                       fixture, traffic, faults>>

(* All that can happen.                                                    *)
Move ==
  \/ \E p \in Operator : \/ \E op \in Operation : Starts(p, op)
                         \/ \E s : Passes(p, s)
                         \/ Completes(p) \/ Stops(p) \/ Ends(p)
  \/ \E r \in Resource : TfWorks(r) /\ Works(r)
  \/ TfEnds \/ Meddles \/ Unmoved

(* A change from outside is no more than Meddles says.                     *)
LEMMA OutsideMoves ==
  ASSUME TypeOK, OutsideNext
  PROVE  Meddles
  <1>0. /\ UNCHANGED <<run, tf, fresh, lock, namespaceState, manifest, appState>>
        /\ faults' = faults + 1
    BY DEF OutsideNext, Outside, disk, control
  <1>1. /\ traffic \in BOOLEAN /\ live \in [Resource -> {"absent", "ours", "foreign"}]
        /\ Azure \cap XC = {} /\ Group \in Azure /\ Generator \in Azure
        /\ Azure \subseteq Resource
    BY StateAssumption DEF TypeOK, Resource
  <1>2. CASE NamespaceDeleted \/ NamespaceReplaced
    <2>1. /\ live' = [r \in Resource |-> IF r \in XC THEN "absent" ELSE live[r]]
          /\ UNCHANGED <<fixture, traffic>>
      BY <1>2 DEF NamespaceDeleted, NamespaceReplaced
    <2> QED
      BY <1>0, <1>1, <2>1 DEF Meddles
  <1>3. CASE NamespaceCreated \/ StrangerCreated \/ FixtureChanged
    <2>1. /\ live' = live /\ traffic' = traffic
          /\ fixture # "intact" => fixture' = fixture
      BY <1>3 DEF NamespaceCreated, StrangerCreated, FixtureChanged
    <2> QED
      BY <1>0, <1>1, <2>1 DEF Meddles
  <1>4. ASSUME NEW r \in Resource, ObjectDeleted(r)
        PROVE  Meddles
    <2> DEFINE gone == IF r = Group THEN Azure ELSE {r}
    <2>1. /\ live' = [s \in Resource |-> IF s \in gone THEN "absent" ELSE live[s]]
          /\ traffic' = (traffic /\ Generator \notin gone)
          /\ fixture' = fixture
      BY <1>4 DEF ObjectDeleted
    <2>2. traffic' => traffic
      BY <1>1, <2>1, Zenon
    <2>3. traffic' /\ live[Generator] # "absent" => live'[Generator] # "absent"
      BY <1>1, <2>1
    <2>4. /\ \A s \in Resource : live'[s] = live[s] \/ live'[s] \in {"absent", "foreign"}
          /\ \A s \in Azure \ {Group} :
               live'[s] # "absent" => live[s] # "absent" \/ live[Group] # "absent"
      BY <1>1, <2>1
    <2>5. live'[Group] = "absent" => live[Group] = "absent" \/ \A s \in Azure : live'[s] = "absent"
      BY <1>1, <2>1
    <2> QED
      BY <1>0, <2>1, <2>2, <2>3, <2>4, <2>5 DEF Meddles
  <1>5. ASSUME NEW r \in Resource, ObjectCreated(r)
        PROVE  Meddles
    <2>1. /\ live[r] = "absent" /\ live' = [live EXCEPT ![r] = "foreign"]
          /\ r \in Azure \ {Group} => live[Group] # "absent"
          /\ UNCHANGED <<fixture, traffic>>
      BY <1>5 DEF ObjectCreated
    <2> QED
      BY <1>0, <1>1, <2>1 DEF Meddles
  <1>6. ASSUME NEW r \in Resource, ObjectDrifts(r)
        PROVE  Meddles
    BY <1>0, <1>1, <1>6 DEF Meddles, ObjectDrifts
  <1> QED
    BY <1>2, <1>3, <1>4, <1>5, <1>6 DEF OutsideNext

(* Every step of the system is one of these moves.                         *)
LEMMA Moved ==
  ASSUME OrderInv, [Next]_vars
  PROVE  Move
  <1>0. TypeOK
    BY DEF OrderInv, PinInv
  <1>1. ASSUME NEW p \in Operator, ControllerNext(p)
        PROVE  Move
    <2>1. ASSUME Step(p)
          PROVE  Move
      <3>1. PICK s : At(p, s)
        BY <2>1 DEF Step
      <3>2. CASE s # "complete"
        <4>1. Passes(p, s)
          BY <1>0, <2>1, <3>1, <3>2, StepMoves DEF Passes
        <4> QED
          BY <4>1 DEF Move
      <3>3. CASE s = "complete"
        <4>1. /\ \A q \in Operator \ {p} : run'[q] = run[q]
              /\ run'[p] = [run[p] EXCEPT !.stage = "verified"]
              /\ run[p] \in Run /\ run[p].stage = "running" /\ run[p].at = Length[run[p].op]
              /\ UNCHANGED <<namespaceState, manifest, appState, lock, tf, fresh, live, drift,
                             fixture, traffic, faults>>
          BY <1>0, <2>1, <3>1, <3>3, CompleteMoves
        <4>2. /\ run'[p].stage = "verified" /\ run'[p].op = run[p].op /\ run'[p].at = run[p].at
              /\ run'[p].resources = run[p].resources /\ run'[p].owned = run[p].owned
              /\ run'[p].plan = run[p].plan /\ run'[p].began = run[p].began
          BY <4>1 DEF Run
        <4>3. Completes(p)
          BY <4>1, <4>2 DEF Completes
        <4> QED
          BY <4>3 DEF Move
      <3> QED
        BY <3>2, <3>3
    <2> QED
      BY <1>1, <2>1, OtherMoves DEF Move
  <1>2. CASE TerraformNext
    BY <1>2, TerraformMoves DEF Move, Works
  <1>3. CASE OutsideNext
    BY <1>0, <1>3, OutsideMoves DEF Move
  <1>4. CASE UNCHANGED vars
    BY <1>4 DEF Move, Unmoved, vars, disk, control, tenant
  <1> QED
    BY <1>1, <1>2, <1>3, <1>4 DEF Next

(* What every step finds.                                                  *)
LEMMA Setting ==
  ASSUME OrderInv, NEW p \in Operator, Active(p)
  PROVE  /\ TypeOK /\ run[p] \in Run /\ run[p].op \in Operation /\ run[p].at \in Nat
         /\ \A q \in Operator \ {p} : ~Shown(q) /\ run[q] = Idle
         /\ \A q \in Operator : run[q] = Idle => ~Shown(q) /\ run[q].stage = "idle"
         /\ fresh \subseteq {p}
  <1>1. TypeOK /\ run[p] \in Run
    BY DEF OrderInv, PinInv, TypeOK
  <1> QED
    BY <1>1, Alone, IdleFields DEF Shown, Run

(* Past its plan and not waiting, a controller has no child and no orphan  *)
(* beside it.                                                              *)
LEMMA Childless ==
  ASSUME OrderInv, NEW p \in Operator, Shown(p), PastPlan(p),
         run[p].stage = "running" => ~Waiting(p)
  PROVE  tf.owner = None
  <1>1. TypeOK /\ Active(p)
    BY DEF OrderInv, PinInv, Shown, Active
  <1>2. tf.owner # "orphan"
    BY DEF OrderInv, NoOrphan, Shown
  <1>3. tf.owner # p
    BY DEF OrderInv, ChildWaited
  <1>4. tf.owner \notin Operator
    BY <1>1, <1>3, Alone
  <1> QED
    BY <1>1, <1>2, <1>4 DEF TypeOK, Terraform

(* Positions reached by one step.                                          *)
LEMMA Before ==
  ASSUME OrderInv, NEW p \in Operator, NEW s, Passes(p, s)
  PROVE  /\ \A i \in 11..31, j \in 11..31 :
              InDeploy(p, i, j)' => InDeploy(p, i - 1, j - 1) /\ s # "namespace_exists"
         /\ \A i \in 11..25, j \in 11..25 :
              InDestroy(p, i, j)' => InDestroy(p, i - 1, j - 1) /\ s # "namespace_exists"
  <1>1. run[p].op \in Operation /\ run[p].at \in Nat /\ At(p, s)
    <2>1. Active(p) /\ At(p, s)
      BY DEF Passes, At, Active
    <2> QED
      BY <2>1, Setting
  <1>2. /\ run'[p].op = run[p].op
        /\ \/ run'[p].at = run[p].at + 1 /\ s # "namespace_exists"
           \/ run'[p].at = run[p].at + 1
           \/ s = "namespace_exists" /\ run'[p].at = run[p].at + 4
    BY DEF Passes, Moves
  <1>3. s = "namespace_exists" <=>
              \/ InDestroy(p, 6, 6) \/ InDestroy(p, 27, 27) \/ InVerify(p, 6, 6)
              \/ InDeploy(p, 6, 6)
    BY <1>1, Where
  <1>4. ASSUME NEW i \in 11..31, NEW j \in 11..31, InDeploy(p, i, j)'
        PROVE  InDeploy(p, i - 1, j - 1) /\ s # "namespace_exists"
    BY <1>1, <1>2, <1>3, <1>4 DEF InDeploy, InDestroy, InVerify
  <1>5. ASSUME NEW i \in 11..25, NEW j \in 11..25, InDestroy(p, i, j)'
        PROVE  InDestroy(p, i - 1, j - 1) /\ s # "namespace_exists"
    BY <1>1, <1>2, <1>3, <1>5 DEF InDeploy, InDestroy, InVerify
  <1> QED
    BY <1>4, <1>5

(* A controller that passes a step.                                        *)
LEMMA Passing ==
  ASSUME OrderInv, NEW p \in Operator, NEW s, Passes(p, s)
  PROVE  /\ TypeOK /\ run[p] \in Run /\ run[p].op \in Operation /\ run[p].at \in Nat
         /\ \A q \in Operator \ {p} : ~Shown(q) /\ run[q] = Idle
         /\ Idle.stage = "idle" /\ At(p, s) /\ Step(p)
         /\ run[p].stage = "running" /\ Shown(p)
         /\ Moves(p, s) /\ Writes(s)
         /\ \A q \in Operator : q # p => ~Shown(q)' /\ run'[q] = Idle
         /\ fresh \subseteq {p} /\ fresh' \subseteq {p}
  <1>1. Active(p) /\ At(p, s) /\ Step(p) /\ run[p].stage = "running" /\ Shown(p)
    BY DEF Passes, At, Active, Shown
  <1>2. /\ \A q \in Operator \ {p} : ~Shown(q) /\ run[q] = Idle
        /\ fresh \subseteq {p} /\ Idle.stage = "idle"
    BY <1>1, Setting, IdleFields
  <1>3. Moves(p, s) /\ Writes(s)
    BY DEF Passes
  <1>4. \A q \in Operator : q # p => ~Shown(q)' /\ run'[q] = Idle
    BY <1>2, <1>3 DEF Moves, Shown
  <1>5. fresh' \subseteq {p}
    <2>1. /\ s = "apply" => fresh' = {}
          /\ s \in {"plan_application", "plan_noop", "plan_destroy"} => fresh' = fresh \cup {p}
      BY <1>1, StepIs DEF apply_start, plan
    <2> QED
      BY <1>2, <1>3, <2>1 DEF Writes
  <1> QED
    BY <1>1, <1>2, <1>3, <1>4, <1>5, Setting

(* The operation is over, or dead.                                         *)
LEMMA Gone ==
  ASSUME OrderInv, NEW p \in Operator, Stops(p) \/ Ends(p)
  PROVE  \A q \in Operator : run'[q].stage \notin {"running", "verified"} /\ ~Shown(q)'
  <1>1. Active(p)
    BY DEF Stops, Ends, Active
  <1>2. \A q \in Operator \ {p} : run[q] = Idle
    BY <1>1, Setting
  <1>3. \A q \in Operator : run'[q].stage \notin {"running", "verified"}
    BY <1>2, IdleFields DEF Stops, Ends
  <1> QED
    BY <1>3 DEF Shown

(* While the state is locked no plan is fresh.                             *)
LEMMA NothingFresh == ASSUME OrderInv, StateLocked PROVE fresh = {}
  BY DEF OrderInv, PinInv, FreshPlanned, StateLocked, TypeOK

(* What a plan saves.                                                      *)
LEMMA PlanRecord ==
  ASSUME TypeOK, NEW p \in Operator, NEW mode \in Mode, NEW owned, plan(p, mode, owned)
  PROVE  \E replaced \in SUBSET drift :
           /\ run'[p].plan.mode = mode /\ run'[p].plan.prior = Refreshed
           /\ run'[p].plan.change = Proposed(mode, replaced)
           /\ guard_plan(Proposed(mode, replaced), mode, owned)
  <1>1. PICK replaced \in SUBSET drift :
          /\ guard_plan(Proposed(mode, replaced), mode, owned)
          /\ Advance(p, [run[p] EXCEPT !.plan =
               [mode |-> mode, change |-> Proposed(mode, replaced), prior |-> Refreshed]])
    BY DEF plan
  <1> DEFINE new == [mode |-> mode, change |-> Proposed(mode, replaced), prior |-> Refreshed]
  <1>2. Advance(p, [run[p] EXCEPT !.plan = new])
    BY <1>1
  <1>3. new.mode = mode /\ new.change = Proposed(mode, replaced) /\ new.prior = Refreshed
    OBVIOUS
  <1> HIDE DEF new
  <1>4. run'[p].plan = new
    BY <1>2 DEF Advance, TypeOK, Run
  <1> QED
    BY <1>1, <1>3, <1>4

-----------------------------------------------------------------------------
(* The ledger of a verified deploy.                                        *)

(* A plan that nothing may change was made for a state that holds all.     *)
LEMMA NoopPlan ==
  ASSUME TypeOK, NEW p \in Operator, plan(p, "noop", None)
  PROVE  run'[p].plan.change = NothingToDo /\ run'[p].plan.prior = appState
  <1>1. PICK replaced \in SUBSET drift :
          /\ run'[p].plan.prior = Refreshed /\ run'[p].plan.change = Proposed("noop", replaced)
          /\ guard_plan(Proposed("noop", replaced), "noop", None)
    BY PlanRecord DEF Mode
  <1>2. \A r \in Resource : Proposed("noop", replaced)[r] = "no-op"
    BY <1>1 DEF guard_plan, guard_change, Proposed
  <1>3. Proposed("noop", replaced) = NothingToDo
    BY <1>2 DEF Proposed, NothingToDo
  <1>4. Resource \subseteq Refreshed
    BY <1>2 DEF Proposed
  <1>5. Refreshed = appState
    BY <1>4 DEF Refreshed, TypeOK
  <1> QED
    BY <1>1, <1>3, <1>5

(* What an apply starts is the plan it was given.                          *)
LEMMA ApplyRecord ==
  ASSUME NEW p, apply_start(p)
  PROVE  /\ tf'.owner = p /\ tf'.mode = run[p].plan.mode /\ tf'.change = run[p].plan.change
         /\ tf'.made = {}
         /\ appState' = run[p].plan.prior /\ p \in fresh /\ fresh' = {} /\ tf.owner = None
  <1> DEFINE mode == run[p].plan.mode  change == run[p].plan.change
  <1>1. /\ tf' = [owner |-> p, mode |-> mode, change |-> change, made |-> {}]
        /\ appState' = run[p].plan.prior /\ p \in fresh /\ fresh' = {} /\ tf.owner = None
    BY DEF apply_start, StateLocked
  <1> HIDE DEF mode, change
  <1>2. tf'.owner = p /\ tf'.mode = mode /\ tf'.change = change /\ tf'.made = {}
    BY <1>1
  <1> QED
    BY <1>1, <1>2 DEF mode, change

(* A step keeps what was captured.                                         *)
LEMMA PassCapture ==
  ASSUME OrderInv, CaptureInv, NEW p \in Operator, NEW s, Passes(p, s)
  PROVE  CaptureInv'
  <1>0. /\ TypeOK /\ run[p] \in Run /\ run[p].op \in Operation /\ run[p].at \in Nat
        /\ At(p, s) /\ Step(p) /\ run[p].stage = "running" /\ Shown(p)
    BY Passing
  <1>1. Moves(p, s) /\ Writes(s)
    BY Passing
  <1>2. \A q \in Operator : q # p => ~Shown(q)' /\ run'[q].stage # "running"
    BY Passing, IdleFields
  <1>3. /\ s = "apply" => apply_start(p)
        /\ s = "plan_noop" => plan(p, "noop", None)
        /\ s = "inventory_save" => inventory_save(p)
    BY <1>0, StepIs
  <1>4. InDeploy(p, 24, 31)' => run'[p].resources = appState'
    <2> SUFFICES ASSUME InDeploy(p, 24, 31)'
                 PROVE  run'[p].resources = appState'
      OBVIOUS
    <2>1. InDeploy(p, 23, 30)
      BY Before
    <2>2. CASE InDeploy(p, 23, 23)
      <3>1. s = "inventory_read"
        BY <1>0, <2>2, WhereLedger
      <3> QED
        BY <1>1, <3>1 DEF Moves, Writes
    <2>3. CASE ~InDeploy(p, 23, 23)
      <3>1. InDeploy(p, 24, 30) /\ InDeploy(p, 24, 31)
        BY <1>0, <2>1, <2>3 DEF InDeploy
      <3>2. run[p].resources = appState
        BY <1>0, <3>1 DEF CaptureInv, Captured
      <3>3. s # "inventory_read"
        BY <1>0, <3>1, WhereLedger DEF InDeploy, InDestroy, InVerify
      <3>4. s = "apply" => appState' = appState
        <4>1. s = "apply" => InDeploy(p, 29, 29)
          BY <1>0, <3>1, Where DEF InDeploy, InDestroy
        <4> QED
          BY <1>0, <1>3, <4>1, ApplyRecord DEF CaptureInv, NothingLeft
      <3> QED
        BY <1>1, <3>2, <3>3, <3>4 DEF Moves, Writes
    <2> QED
      BY <2>2, <2>3
  <1>5. InDeploy(p, 25, 31)' => manifest' # None /\ manifest'.owned = run'[p].resources
    <2> SUFFICES ASSUME InDeploy(p, 25, 31)'
                 PROVE  manifest' # None /\ manifest'.owned = run'[p].resources
      OBVIOUS
    <2>1. InDeploy(p, 24, 30)
      BY Before
    <2>2. s # "inventory_read"
      BY <1>0, <2>1, WhereLedger DEF InDeploy, InDestroy, InVerify
    <2>3. CASE s = "inventory_save"
      <3>1. /\ manifest' = [uid |-> run[p].uid, owned |-> run[p].resources]
            /\ run[p].resources # None
        BY <1>3, <2>3 DEF inventory_save
      <3>2. manifest' \in [uid : Nat, owned : SUBSET Resource]
        BY <1>0, <3>1 DEF Run
      <3> QED
        BY <1>1, <2>2, <3>1, <3>2, StateAssumption DEF Moves
    <2>4. CASE s # "inventory_save"
      <3>1. InDeploy(p, 25, 31)
        BY <1>0, <2>1, <2>4, WhereLedger DEF InDeploy, InDestroy, InVerify
      <3> QED
        BY <1>0, <1>1, <2>2, <2>4, <3>1 DEF CaptureInv, Captured, Moves, Writes
    <2> QED
      BY <2>3, <2>4
  <1>6. InDeploy(p, 29, 29)' => run'[p].plan.change = NothingToDo /\ run'[p].plan.prior = appState'
    <2> SUFFICES ASSUME InDeploy(p, 29, 29)'
                 PROVE  run'[p].plan.change = NothingToDo /\ run'[p].plan.prior = appState'
      OBVIOUS
    <2>1. InDeploy(p, 28, 28)
      BY Before
    <2>2. s = "plan_noop"
      BY <1>0, <2>1, Where
    <2> QED
      BY <1>0, <1>1, <1>3, <2>2, NoopPlan DEF Writes
  <1>7. InDeploy(p, 30, 30)' => tf'.change = NothingToDo /\ tf'.made = {}
    <2> SUFFICES ASSUME InDeploy(p, 30, 30)'
                 PROVE  tf'.change = NothingToDo /\ tf'.made = {}
      OBVIOUS
    <2>1. InDeploy(p, 29, 29)
      BY Before
    <2>2. s = "apply"
      BY <1>0, <2>1, Where
    <2> QED
      BY <1>0, <1>3, <2>1, <2>2, ApplyRecord DEF CaptureInv, NothingLeft
  <1> QED
    BY <1>2, <1>4, <1>5, <1>6, <1>7 DEF CaptureInv, Captured, NothingLeft, Shown

(* Every step of the system keeps what was captured.                       *)
LEMMA CaptureNext == OrderInv /\ CaptureInv /\ [Next]_vars => CaptureInv'
  <1> SUFFICES ASSUME OrderInv, CaptureInv, [Next]_vars
               PROVE  CaptureInv'
    OBVIOUS
  <1>0. Move
    BY Moved
  <1>1. ASSUME NEW p \in Operator, NEW op \in Operation, Starts(p, op)
        PROVE  CaptureInv'
    <2>1. run'[p].at = 1 /\ run'[p].op = op
      BY <1>1 DEF Starts, NewRun, Idle
    <2>2. ~InDeploy(p, 24, 31)' /\ ~InDeploy(p, 25, 31)' /\ ~InDeploy(p, 29, 29)' /\ ~InDeploy(p, 30, 30)'
      BY <2>1 DEF InDeploy
    <2>3. /\ \A q \in Operator \ {p} : run'[q] = run[q]
          /\ UNCHANGED <<appState, manifest, fresh, tf>>
      BY <1>1 DEF Starts
    <2> QED
      BY <2>2, <2>3 DEF CaptureInv, Captured, NothingLeft, Shown, InDeploy
  <1>2. ASSUME NEW p \in Operator, Completes(p)
        PROVE  CaptureInv'
    <2>1. /\ \A q \in Operator \ {p} : ~Shown(q) /\ run[q] = Idle /\ Idle.stage = "idle"
          /\ run[p].stage = "running" /\ Shown(p)
      <3>1. Active(p) /\ run[p].stage = "running" /\ Shown(p)
        BY <1>2 DEF Completes, Active, Shown
      <3> QED
        BY <3>1, Setting, IdleFields
    <2>2. \A i \in Nat, j \in Nat : InDeploy(p, i, j)' <=> InDeploy(p, i, j)
      BY <1>2 DEF Completes, InDeploy
    <2> QED
      BY <1>2, <2>1, <2>2 DEF Completes, CaptureInv, Captured, NothingLeft, Shown
  <1>3. ASSUME NEW p \in Operator, Stops(p) \/ Ends(p)
        PROVE  CaptureInv'
    BY <1>3, Gone DEF CaptureInv, Captured, NothingLeft
  <1>4. ASSUME NEW r \in Resource, TfWorks(r), Works(r)
        PROVE  CaptureInv'
    <2>1. ASSUME NEW p \in Operator, Shown(p), InDeploy(p, 24, 31)
          PROVE  FALSE
      <3>1. tf.owner # None
        BY <1>4 DEF TfWorks, StateLocked
      <3>2. PastPlan(p)
        BY <2>1 DEF PastPlan, InDeploy
      <3>3. run[p].stage = "running" /\ Waiting(p) /\ Active(p)
        BY <2>1, <3>1, <3>2, Childless DEF Shown, Active
      <3>4. InDeploy(p, 30, 30)
        BY <2>1, <3>3 DEF Waiting, InDeploy, InDestroy
      <3>5. tf.owner = p
        <4>1. TypeOK /\ tf.owner \in Operator \cup {None, "orphan"}
          BY DEF OrderInv, PinInv, TypeOK, Terraform
        <4>2. tf.owner # "orphan"
          BY <2>1, <3>2 DEF OrderInv, NoOrphan, Shown
        <4> QED
          BY <3>1, <3>3, <4>1, <4>2, Alone
      <3>6. tf.change = NothingToDo /\ tf.made = {}
        BY <3>3, <3>4, <3>5 DEF CaptureInv, NothingLeft
      <3> QED
        BY <1>4, <3>6 DEF Works, TfDelete, TfForget, TfCreate, TfRecord, TfUpdate, Pending, NothingToDo
    <2>2. \A p \in Operator : Shown(p)' => ~InDeploy(p, 24, 31)'
      BY <1>4, <2>1 DEF TfWorks, Shown, InDeploy
    <2> QED
      BY <2>2 DEF CaptureInv, Captured, NothingLeft, Shown, InDeploy
  <1>5. CASE TfEnds
    <2>1. tf'.owner = None /\ UNCHANGED <<fresh, appState, manifest>>
      BY <1>5 DEF TfEnds, NoTf
    <2>2. CASE UNCHANGED run
      BY <2>1, <2>2, StateAssumption DEF CaptureInv, Captured, NothingLeft, Shown, InDeploy
    <2>3. ASSUME NEW p \in Operator, tf.owner = p,
                 run' = [run EXCEPT ![p] = [run[p] EXCEPT !.at = @ + 1]]
          PROVE  CaptureInv'
      <3>1. run[p].stage = "running" /\ Waiting(p) /\ Active(p) /\ Shown(p)
        BY <2>3 DEF OrderInv, ChildWaited, Active, Shown
      <3>2. /\ TypeOK /\ run[p] \in Run /\ run[p].op \in Operation /\ run[p].at \in Nat
            /\ \A q \in Operator \ {p} : ~Shown(q) /\ run[q] = Idle
        BY <3>1, Setting
      <3>3. /\ \A q \in Operator \ {p} : run'[q] = run[q]
            /\ run'[p].at = run[p].at + 1 /\ run'[p].op = run[p].op
            /\ run'[p].resources = run[p].resources
        BY <2>3, <3>2 DEF TypeOK, Run
      <3>4. InDeploy(p, 24, 31)' => InDeploy(p, 30, 30) /\ InDeploy(p, 31, 31)'
        BY <3>1, <3>2, <3>3 DEF Waiting, InDeploy, InDestroy
      <3>5. InDeploy(p, 30, 30) => InDeploy(p, 24, 31) /\ InDeploy(p, 25, 31)
        BY DEF InDeploy
      <3>6. InDeploy(p, 30, 30) =>
              run[p].resources = appState /\ manifest # None /\ manifest.owned = run[p].resources
        BY <3>1, <3>5 DEF CaptureInv, Captured
      <3>7. InDeploy(p, 31, 31)' => ~InDeploy(p, 29, 29)' /\ ~InDeploy(p, 30, 30)'
        BY DEF InDeploy
      <3>8. InDeploy(p, 25, 31)' \/ InDeploy(p, 29, 29)' \/ InDeploy(p, 30, 30)' => InDeploy(p, 24, 31)'
        BY DEF InDeploy
      <3> QED
        BY <2>1, <3>2, <3>3, <3>4, <3>6, <3>7, <3>8, IdleFields DEF CaptureInv, Captured, NothingLeft, Shown
    <2> QED
      BY <1>5, <2>2, <2>3 DEF TfEnds
  <1>6. CASE Meddles \/ Unmoved
    BY <1>6 DEF Meddles, Unmoved, CaptureInv, Captured, NothingLeft, Shown, InDeploy
  <1> QED
    BY <1>0, <1>1, <1>2, <1>3, <1>4, <1>5, <1>6, PassCapture DEF Move

(* Nothing is captured at first.                                           *)
LEMMA CaptureInit == Init => CaptureInv
  BY IdleFields DEF Init, CaptureInv, Captured, NothingLeft, Shown

(* What was captured is what the property asks for.                        *)
LEMMA CaptureShows == OrderInv /\ CaptureInv => VerifiedDeployLedger
  <1> SUFFICES ASSUME OrderInv, CaptureInv, NEW p \in Operator, Verified(p, {"deploy", "rebuild"})
               PROVE  manifest # None /\ manifest.owned = appState
    BY DEF VerifiedDeployLedger
  <1>1. run[p].at = Length[run[p].op] /\ Shown(p)
    BY DEF Verified, OrderInv, EndReached, Shown
  <1>2. InDeploy(p, 24, 31) /\ InDeploy(p, 25, 31)
    BY <1>1 DEF Verified, InDeploy, Length
  <1> QED
    BY <1>1, <1>2 DEF CaptureInv, Captured

(* After a verified deploy or rebuild the ledger names what the application *)
(* state records, exactly.                                                 *)
THEOREM VerifiedDeployIsLedgered == Spec => []VerifiedDeployLedger
  BY OrderInit, OrderNext, CaptureInit, CaptureNext, CaptureShows, PTL DEF Spec

-----------------------------------------------------------------------------
(* Traffic after a failure.                                                *)

(* A step keeps traffic on a recorded generator.                           *)
LEMMA PassTraffic ==
  ASSUME OrderInv, CaptureInv, TrafficOwned, NEW p \in Operator, NEW s, Passes(p, s)
  PROVE  TrafficOwned'
  <1>0. /\ TypeOK /\ run[p] \in Run /\ run[p].op \in Operation /\ run[p].at \in Nat
        /\ At(p, s) /\ Step(p) /\ run[p].stage = "running" /\ Shown(p)
        /\ Moves(p, s) /\ Writes(s) /\ fresh' \subseteq {p}
    BY Passing
  <1>1. s = "traffic_start" /\ traffic' => live[Generator] # "absent" /\ Generator \in appState
    <2> SUFFICES ASSUME s = "traffic_start", traffic', ~traffic
                 PROVE  live[Generator] # "absent" /\ Generator \in appState
      BY DEF TrafficOwned
    <2>1. traffic_start(p)
      BY <1>0, StepIs
    <2>2. Generator \in run[p].resources /\ live[Generator] # "absent"
      BY <2>1 DEF traffic_start, owned_guest, guest_records, live_guest_matches
    <2>3. InDeploy(p, 24, 31)
      BY <1>0, Where DEF InDeploy
    <2> QED
      BY <1>0, <2>2, <2>3 DEF CaptureInv, Captured
  <1>2. traffic' => s = "traffic_start" \/ traffic
    BY <1>0 DEF Writes
  <1>3. traffic' => live'[Generator] # "absent" /\ Generator \in appState'
    <2>1. CASE s = "apply"
      <3>1. apply_start(p)
        BY <1>0, <2>1, StepIs
      <3>2. appState' = run[p].plan.prior /\ p \in fresh
        BY <3>1, ApplyRecord
      <3> QED
        BY <1>0, <1>2, <2>1, <3>2 DEF TrafficOwned, Moves
    <2>2. CASE s # "apply"
      BY <1>0, <1>1, <1>2, <2>2 DEF TrafficOwned, Moves, Writes
    <2> QED
      BY <2>1, <2>2
  <1>4. p \in fresh' /\ traffic' => Generator \in run'[p].plan.prior
    <2> SUFFICES ASSUME p \in fresh', traffic'
                 PROVE  Generator \in run'[p].plan.prior
      OBVIOUS
    <2>1. CASE s \in {"plan_application", "plan_noop", "plan_destroy"}
      <3>1. PICK mode \in Mode, owned \in {None, run[p].owned} : plan(p, mode, owned)
        BY <1>0, <2>1, StepIs, Zenon DEF Mode
      <3>2. run'[p].plan.prior = Refreshed
        BY <1>0, <3>1, PlanRecord
      <3> QED
        BY <1>2, <2>1, <3>2 DEF TrafficOwned, Refreshed
    <2>2. CASE s = "apply"
      <3>1. apply_start(p)
        BY <1>0, <2>2, StepIs
      <3> QED
        BY <3>1, ApplyRecord
    <2>3. CASE s \notin {"plan_application", "plan_noop", "plan_destroy", "apply"}
      <3>1. p \in fresh /\ run'[p].plan = run[p].plan
        BY <1>0, <2>3 DEF Moves, Writes
      <3>2. Planned(p)
        BY <1>0, <3>1 DEF OrderInv, FreshPlanned
      <3>3. s # "traffic_start"
        BY <1>0, <3>2, Where DEF Planned, InDeploy, InDestroy, InVerify
      <3> QED
        BY <1>0, <1>2, <3>1, <3>3 DEF TrafficOwned
    <2> QED
      BY <2>1, <2>2, <2>3
  <1> QED
    BY <1>0, <1>3, <1>4 DEF TrafficOwned

(* Every step of the system keeps traffic on a recorded generator.         *)
LEMMA TrafficOwnedNext ==
  ASSUME OrderInv, CaptureInv, TrafficOwned, [Next]_vars
  PROVE  TrafficOwned'
  <1>0. Move /\ TypeOK
    BY Moved DEF OrderInv, PinInv
  <1>1. ASSUME NEW p \in Operator, NEW op \in Operation, Starts(p, op)
        PROVE  TrafficOwned'
    <2>1. \A q \in fresh : q \in Operator /\ q # p
      BY <1>0, <1>1 DEF OrderInv, FreshPlanned, Active, Starts, TypeOK
    <2> QED
      BY <1>1, <2>1 DEF Starts, TrafficOwned, Shown
  <1>2. ASSUME NEW p \in Operator, Completes(p)
        PROVE  TrafficOwned'
    <2>1. \A q \in Operator : run'[q].plan = run[q].plan /\ (Shown(q)' => Shown(q))
      BY <1>2 DEF Completes, Shown
    <2> QED
      BY <1>0, <1>2, <2>1 DEF Completes, TrafficOwned, TypeOK
  <1>3. ASSUME NEW p \in Operator, Stops(p) \/ Ends(p)
        PROVE  TrafficOwned'
    <2>1. \A q \in Operator : ~Shown(q)'
      BY <1>3, Gone
    <2>2. fresh' \subseteq Operator
      BY <1>0, <1>3 DEF Stops, Ends, TypeOK
    <2> QED
      BY <1>3, <2>1, <2>2 DEF Stops, Ends, TrafficOwned
  <1>4. ASSUME NEW r \in Resource, TfWorks(r), Works(r)
        PROVE  TrafficOwned'
    <2>1. fresh' = {}
      BY <1>4, NothingFresh DEF TfWorks
    <2>2. traffic' => live'[Generator] # "absent" /\ Generator \in appState'
      <3>1. live \in [Resource -> {"absent", "ours", "foreign"}] /\ Generator \in Resource
        BY <1>0, StateAssumption DEF TypeOK, Resource
      <3> QED
        BY <1>4, <3>1 DEF TrafficOwned, Works, TfDelete, TfForget, TfCreate, TfRecord, TfUpdate
    <2> QED
      BY <2>1, <2>2 DEF TrafficOwned
  <1>5. CASE TfEnds
    BY <1>5, NothingFresh DEF TfEnds, TrafficOwned
  <1>6. CASE Meddles \/ Unmoved
    BY <1>6 DEF Meddles, Unmoved, TrafficOwned, Shown
  <1> QED
    BY <1>0, <1>1, <1>2, <1>3, <1>4, <1>5, <1>6, PassTraffic DEF Move

(* The cleanup finds the access of a generator that runs traffic.          *)
LEMMA CleanupStops ==
  ASSUME TypeOK, TrafficOwned, NEW p \in Operator, cleanup_traffic(p)
  PROVE  run'[p].stage = "closing" /\ (run'[p].appReady \/ run'[p].outputs # "none") /\ traffic'
           => run'[p].note
  <1>0. run[p] \in Run
    BY DEF TypeOK
  <1>1. CASE cleanup_skips(p)
    <2>1. run'[p].appReady = run[p].appReady /\ run'[p].outputs = run[p].outputs /\ traffic' = traffic
      BY <1>0, <1>1 DEF cleanup_skips, TypeOK, Run
    <2>2. traffic => Generator \in appState
      BY DEF TrafficOwned
    <2> QED
      BY <1>1, <2>1, <2>2 DEF cleanup_skips, CleanupOutputs, AccessTo
  <1>2. CASE cleanup_stops(p)
    BY <1>2 DEF cleanup_stops
  <1>3. CASE cleanup_fails(p)
    <2>1. run' = [run EXCEPT ![p] = [run[p] EXCEPT !.stage = "closing", !.note = TRUE]]
      BY <1>3 DEF cleanup_fails
    <2>2. run'[p].note = TRUE
      BY <1>0, <2>1 DEF TypeOK, Run
    <2> QED
      BY <2>2
  <1> QED
    BY <1>1, <1>2, <1>3 DEF cleanup_traffic

(* Every step of the system keeps TrafficInv.                              *)
LEMMA TrafficNext == OrderInv /\ CaptureInv /\ TrafficInv /\ [Next]_vars => TrafficInv'
  <1> SUFFICES ASSUME OrderInv, CaptureInv, TrafficInv, [Next]_vars
               PROVE  TrafficInv'
    OBVIOUS
  <1>0. Move /\ TypeOK /\ TrafficOwned /\ TrafficOwned'
    BY Moved, TrafficOwnedNext DEF TrafficInv, OrderInv, PinInv
  <1>1. ASSUME NEW q \in Operator, run'[q] = run[q], traffic' => traffic
        PROVE  run'[q].stage = "closing" /\ (run'[q].appReady \/ run'[q].outputs # "none") /\ traffic'
                 => run'[q].note
    BY <1>1 DEF TrafficInv, ReadyFailureStopsTraffic
  <1>2. ASSUME NEW p \in Operator, run'[p].stage # "closing", traffic' => traffic,
               \A q \in Operator \ {p} : run'[q] = run[q]
        PROVE  ReadyFailureStopsTraffic'
    BY <1>1, <1>2 DEF ReadyFailureStopsTraffic
  <1>10. ASSUME traffic' => traffic,
                \A q \in Operator : run'[q].stage = "closing" => run'[q] = run[q]
         PROVE  ReadyFailureStopsTraffic'
    <2> SUFFICES ASSUME NEW q \in Operator, run'[q].stage = "closing",
                        run'[q].appReady \/ run'[q].outputs # "none", traffic'
                 PROVE  run'[q].note
      BY DEF ReadyFailureStopsTraffic
    <2> QED
      BY <1>1, <1>10
  <1>3. ASSUME NEW p \in Operator, NEW s, Passes(p, s)
        PROVE  ReadyFailureStopsTraffic'
    <2>1. run'[p].stage = "running" /\ \A q \in Operator : q # p => run'[q] = Idle
      BY <1>3, Passing DEF Moves
    <2> QED
      BY <2>1, IdleFields DEF ReadyFailureStopsTraffic
  <1>4. ASSUME NEW p \in Operator, NEW op \in Operation, Starts(p, op)
        PROVE  ReadyFailureStopsTraffic'
    <2>1. run'[p].stage = "running"
      BY <1>4 DEF Starts, NewRun, Idle
    <2> QED
      BY <1>2, <1>4, <2>1 DEF Starts
  <1>5. ASSUME NEW p \in Operator, Completes(p) \/ Ends(p)
        PROVE  ReadyFailureStopsTraffic'
    BY <1>2, <1>5, IdleFields DEF Completes, Ends
  <1>6. ASSUME NEW p \in Operator, Stops(p)
        PROVE  ReadyFailureStopsTraffic'
    <2>1. CASE run'[p].stage = "cleanup"
      BY <1>2, <1>6, <2>1 DEF Stops
    <2>2. CASE run'[p].stage = "closing" /\ cleanup_traffic(p)
      <3>1. run'[p].stage = "closing" /\ (run'[p].appReady \/ run'[p].outputs # "none") /\ traffic'
              => run'[p].note
        BY <1>0, <2>2, CleanupStops
      <3> QED
        BY <1>1, <1>6, <3>1 DEF Stops, ReadyFailureStopsTraffic
    <2> QED
      BY <1>6, <2>1, <2>2 DEF Stops
  <1>7. ASSUME NEW r \in Resource, TfWorks(r), Works(r)
        PROVE  ReadyFailureStopsTraffic'
    <2>1. UNCHANGED run /\ (traffic' = (traffic /\ r # Generator) \/ traffic' = traffic)
      BY <1>7 DEF TfWorks, Works, TfDelete, TfForget, TfCreate, TfRecord, TfUpdate
    <2>2. traffic' => traffic
      BY <2>1
    <2> QED
      BY <1>10, <2>1, <2>2
  <1>8. CASE TfEnds
    <2>1. \A q \in Operator : run'[q].stage = "closing" => run'[q] = run[q]
      <3>1. ASSUME NEW p \in Operator, tf.owner = p,
                   run' = [run EXCEPT ![p] = [run[p] EXCEPT !.at = @ + 1]]
            PROVE  run'[p].stage = "running" /\ \A q \in Operator \ {p} : run'[q] = run[q]
        <4>1. run[p].stage = "running" /\ run[p] \in Run
          BY <1>0, <3>1 DEF OrderInv, ChildWaited, TypeOK
        <4> QED
          BY <1>0, <3>1, <4>1 DEF TypeOK, Run
      <3> QED
        BY <1>8, <3>1 DEF TfEnds
    <2>2. traffic' => traffic
      BY <1>8 DEF TfEnds
    <2> QED
      BY <1>0, <1>10, <2>1, <2>2 DEF TrafficInv
  <1>9. CASE Meddles \/ Unmoved
    <2>1. UNCHANGED run /\ (traffic' => traffic)
      BY <1>9 DEF Meddles, Unmoved
    <2> QED
      BY <1>0, <1>10, <2>1 DEF TrafficInv
  <1> QED
    BY <1>0, <1>3, <1>4, <1>5, <1>6, <1>7, <1>8, <1>9 DEF Move, TrafficInv

(* No traffic runs at first.                                               *)
LEMMA TrafficInit == Init => TrafficInv
  BY IdleFields DEF Init, TrafficInv, TrafficOwned, ReadyFailureStopsTraffic

(* An operation that fails with the backend ready, or with outputs, leaves  *)
(* no traffic running unless its receipt says that the stop failed.        *)
THEOREM FailureStopsTraffic == Spec => []ReadyFailureStopsTraffic
  <1>1. TrafficInv => ReadyFailureStopsTraffic
    BY DEF TrafficInv
  <1> QED
    BY <1>1, OrderInit, OrderNext, CaptureInit, CaptureNext, TrafficInit, TrafficNext, PTL DEF Spec

-----------------------------------------------------------------------------
(* What a destroy deletes.                                                 *)

(* The position of the step before a ledger is saved, and after a plan.     *)
LEMMA SaveFollows ==
  ASSUME OrderInv, NEW p \in Operator, NEW s, Passes(p, s)
  PROVE  /\ AtSave(p)' => s = "inventory_read"
         /\ AtSave(p) <=> s = "inventory_save"
  <1>0. /\ run[p].op \in Operation /\ run[p].at \in Nat /\ At(p, s) /\ Moves(p, s)
    BY Passing
  <1>1. /\ run'[p].op = run[p].op
        /\ run'[p].at = run[p].at + (IF s = "namespace_exists" /\ namespaceState THEN 4 ELSE 1)
    BY <1>0 DEF Moves
  <1>2. /\ s = "namespace_exists" <=>
              \/ InDestroy(p, 6, 6) \/ InDestroy(p, 27, 27) \/ InVerify(p, 6, 6)
              \/ InDeploy(p, 6, 6)
    BY <1>0, Where
  <1>3. /\ s = "inventory_read" <=>
              \/ InDeploy(p, 23, 23) \/ InDestroy(p, 15, 15) \/ InVerify(p, 16, 16)
              \/ run[p].op = "rebuild" /\ run[p].at = 7
        /\ s = "inventory_save" <=>
              \/ InDeploy(p, 24, 24) \/ InDestroy(p, 16, 16) \/ InVerify(p, 17, 17)
              \/ run[p].op = "rebuild" /\ run[p].at = 8
    BY <1>0, WhereLedger
  <1>4. AtSave(p)' => s = "inventory_read"
    <2>1. CASE s = "namespace_exists"
      BY <1>0, <1>1, <1>2, <2>1 DEF AtSave, InDeploy, InDestroy, InVerify
    <2>2. CASE s # "namespace_exists"
      <3>1. run'[p].at = run[p].at + 1
        BY <1>1, <2>2
      <3> QED
        BY <1>0, <1>1, <1>3, <3>1 DEF AtSave, InDeploy, InDestroy, InVerify
    <2> QED
      BY <2>1, <2>2
  <1> QED
    BY <1>3, <1>4 DEF AtSave

(* A step keeps the saved inventory and the ledger equal.                  *)
LEMMA PassOwned ==
  ASSUME OrderInv, DeleteInv, NEW p \in Operator, NEW s, Passes(p, s)
  PROVE  SavedIsOwned' /\ CaptureFirst'
  <1>0. /\ TypeOK /\ run[p] \in Run /\ run[p].op \in Operation /\ run[p].at \in Nat
        /\ At(p, s) /\ Step(p) /\ run[p].stage = "running"
        /\ Moves(p, s) /\ Writes(s)
        /\ \A q \in Operator : q # p => run'[q].stage = "idle"
    BY Passing
  <1>1. s = "inventory_save" =>
          /\ manifest' = [uid |-> run[p].uid, owned |-> run[p].resources]
          /\ run[p].resources # None
    BY <1>0, StepIs DEF inventory_save
  <1>2. SavedIsOwned'
    <2>1. CASE s = "inventory_save"
      <3>1. manifest' \in [uid : Nat, owned : SUBSET Resource]
        BY <1>0, <1>1, <2>1 DEF Run
      <3> QED
        BY <1>0, <1>1, <2>1, <3>1, StateAssumption DEF SavedIsOwned, Moves
    <2>2. CASE s # "inventory_save"
      BY <1>0, <2>2 DEF DeleteInv, SavedIsOwned, Moves, Writes
    <2> QED
      BY <2>1, <2>2
  <1>3. /\ run'[p].op = run[p].op
        /\ run'[p].at = run[p].at + (IF s = "namespace_exists" /\ namespaceState THEN 4 ELSE 1)
        /\ run'[p].owned = IF s = "inventory_save" THEN run[p].resources ELSE run[p].owned
    BY <1>0 DEF Moves
  <1>4. s = "inventory_save" => run'[p].owned # None
    BY <1>1, <1>3
  <1>5. s = "namespace_exists" <=>
              \/ InDestroy(p, 6, 6) \/ InDestroy(p, 27, 27) \/ InVerify(p, 6, 6)
              \/ InDeploy(p, 6, 6)
    BY <1>0, Where
  <1>6. s = "inventory_save" <=>
              \/ InDeploy(p, 24, 24) \/ InDestroy(p, 16, 16) \/ InVerify(p, 17, 17)
              \/ run[p].op = "rebuild" /\ run[p].at = 8
    BY <1>0, WhereLedger
  <1>7. /\ run[p].op = "destroy" /\ run'[p].at >= 17 => run[p].at >= 17 \/ s = "inventory_save"
        /\ run[p].op = "rebuild" /\ run'[p].at >= 9 => run[p].at >= 9 \/ s = "inventory_save"
    BY <1>0, <1>3, <1>5, <1>6 DEF InDeploy, InDestroy, InVerify
  <1>8. CaptureFirst'
    <2>1. /\ run[p].op = "destroy" /\ run'[p].at >= 17 => run'[p].owned # None
          /\ run[p].op = "rebuild" /\ run'[p].at >= 9 => run'[p].owned # None
      BY <1>0, <1>3, <1>4, <1>7 DEF DeleteInv, CaptureFirst
    <2> QED
      BY <1>0, <1>3, <2>1 DEF CaptureFirst
  <1> QED
    BY <1>2, <1>8

(* A step keeps a fresh destroy plan within the saved inventory.           *)
LEMMA PassPlanned ==
  ASSUME OrderInv, DeleteInv, NEW p \in Operator, NEW s, Passes(p, s)
  PROVE  PlannedDeletes'
  <1>0. /\ TypeOK /\ run[p] \in Run /\ run[p].op \in Operation /\ run[p].at \in Nat
        /\ At(p, s) /\ Step(p) /\ run[p].stage = "running"
        /\ Moves(p, s) /\ Writes(s) /\ fresh' \subseteq {p}
    BY Passing
  <1> SUFFICES ASSUME p \in fresh', run'[p].plan.mode = "destroy"
               PROVE  /\ run'[p].owned # None
                      /\ Deletes(run'[p].plan.change) \subseteq run'[p].owned \cap run'[p].plan.prior
    BY <1>0 DEF PlannedDeletes, Deletes
  <1>1. CASE s = "plan_destroy"
    <2>1. plan(p, "destroy", run[p].owned)
      BY <1>0, <1>1, StepIs
    <2>2. PICK replaced \in SUBSET drift :
            /\ run'[p].plan.prior = Refreshed
            /\ run'[p].plan.change = Proposed("destroy", replaced)
            /\ guard_plan(Proposed("destroy", replaced), "destroy", run[p].owned)
      BY <1>0, <2>1, PlanRecord DEF Mode
    <2>3. run[p].owned # None /\ run'[p].owned = run[p].owned
      <3>1. InDestroy(p, 19, 19)
        BY <1>0, <1>1, Where
      <3> QED
        BY <1>0, <1>1, <3>1 DEF InDestroy, DeleteInv, CaptureFirst, Moves
    <2>4. \A r \in Deletes(run'[p].plan.change) : r \in Refreshed
      BY <2>2 DEF Deletes, Proposed
    <2>5. \A r \in Deletes(run'[p].plan.change) : r \in run[p].owned
      BY <2>2, <2>3 DEF Deletes, Proposed, guard_plan, guard_change
    <2> QED
      BY <2>2, <2>3, <2>4, <2>5
  <1>2. CASE s \in {"plan_application", "plan_noop"}
    <2>1. PICK mode \in Mode \ {"destroy"} : plan(p, mode, None)
      BY <1>0, <1>2, StepIs, Zenon DEF Mode
    <2>2. run'[p].plan.mode = mode
      BY <1>0, <2>1, PlanRecord
    <2> QED
      BY <2>1, <2>2
  <1>3. CASE s = "apply"
    <2>1. apply_start(p)
      BY <1>0, <1>3, StepIs
    <2> QED
      BY <2>1, ApplyRecord
  <1>4. CASE s \notin {"plan_application", "plan_noop", "plan_destroy", "apply"}
    <2>1. p \in fresh /\ run'[p].plan = run[p].plan
      BY <1>0, <1>4 DEF Moves, Writes
    <2>2. Planned(p)
      BY <1>0, <2>1 DEF OrderInv, FreshPlanned
    <2>3. s # "inventory_save"
      BY <1>0, <2>2, WhereLedger DEF Planned, InDeploy, InDestroy, InVerify
    <2>4. run'[p].owned = run[p].owned
      BY <1>0, <2>3 DEF Moves
    <2> QED
      BY <1>0, <2>1, <2>4 DEF DeleteInv, PlannedDeletes
  <1> QED
    BY <1>1, <1>2, <1>3, <1>4

(* A step keeps the deletions at work within the ledger.                   *)
LEMMA PassRunning ==
  ASSUME OrderInv, DeleteInv, NEW p \in Operator, NEW s, Passes(p, s)
  PROVE  RunningDeletes'
  <1>0. /\ TypeOK /\ run[p] \in Run /\ run[p].op \in Operation /\ run[p].at \in Nat
        /\ At(p, s) /\ Step(p) /\ run[p].stage = "running"
        /\ Moves(p, s) /\ Writes(s)
        /\ \A q \in Operator : q # p => run'[q].stage = "idle"
    BY Passing
  <1> SUFFICES ASSUME tf'.mode = "destroy"
               PROVE  /\ manifest' # None
                      /\ Deletes(tf'.change) \subseteq manifest'.owned \cap appState'
                      /\ AtSave(p)' => Deletes(tf'.change) \subseteq run'[p].resources
    BY <1>0 DEF RunningDeletes, Deletes, AtSave, InDeploy, InDestroy, InVerify
  <1>1. CASE s = "apply"
    <2>1. /\ tf'.mode = run[p].plan.mode /\ tf'.change = run[p].plan.change
          /\ appState' = run[p].plan.prior /\ p \in fresh
      <3>1. apply_start(p)
        BY <1>0, <1>1, StepIs
      <3> QED
        BY <3>1, ApplyRecord
    <2>2. /\ run[p].owned # None
          /\ Deletes(tf'.change) \subseteq run[p].owned \cap appState'
      BY <1>0, <2>1 DEF DeleteInv, PlannedDeletes
    <2>3. manifest' # None /\ manifest'.owned = run[p].owned
      BY <1>0, <1>1, <2>2 DEF DeleteInv, SavedIsOwned, Writes
    <2>4. ~AtSave(p)'
      BY <1>1, SaveFollows
    <2> QED
      BY <2>2, <2>3, <2>4
  <1>2. CASE s = "inventory_save"
    <2>1. manifest' = [uid |-> run[p].uid, owned |-> run[p].resources] /\ run[p].resources # None
      BY <1>0, <1>2, StepIs DEF inventory_save
    <2>2. manifest' # None
      BY <1>0, <2>1, StateAssumption DEF Run
    <2>3. tf' = tf /\ appState' = appState
      BY <1>0, <1>2 DEF Writes
    <2>4. AtSave(p) /\ ~AtSave(p)'
      BY <1>2, SaveFollows
    <2>5. Deletes(tf.change) \subseteq run[p].resources \cap appState
      BY <1>0, <2>3, <2>4 DEF DeleteInv, RunningDeletes
    <2> QED
      BY <2>1, <2>2, <2>3, <2>4, <2>5
  <1>3. CASE s \notin {"apply", "inventory_save"}
    <2>1. tf' = tf /\ appState' = appState /\ manifest' = manifest
      BY <1>0, <1>3 DEF Writes
    <2>2. /\ manifest # None
          /\ Deletes(tf.change) \subseteq manifest.owned \cap appState
      BY <2>1 DEF DeleteInv, RunningDeletes
    <2>3. AtSave(p)' => run'[p].resources = appState
      BY <1>0, SaveFollows DEF Moves
    <2> QED
      BY <2>1, <2>2, <2>3
  <1> QED
    BY <1>1, <1>2, <1>3

(* Every step of the system keeps DeleteInv.                               *)
LEMMA DeleteNext == OrderInv /\ DeleteInv /\ [Next]_vars => DeleteInv'
  <1> SUFFICES ASSUME OrderInv, DeleteInv, [Next]_vars
               PROVE  DeleteInv'
    OBVIOUS
  <1> USE DEF DeleteInv
  <1>0. Move /\ TypeOK
    BY Moved DEF OrderInv, PinInv
  <1>1. ASSUME NEW p \in Operator, NEW op \in Operation, Starts(p, op)
        PROVE  DeleteInv'
    <2>1. /\ run'[p].at = 1 /\ run'[p].op = op /\ run'[p].owned = None
          /\ \A q \in Operator \ {p} : run'[q] = run[q]
          /\ UNCHANGED <<fresh, tf, manifest, appState>>
      BY <1>1 DEF Starts, NewRun, Idle
    <2>2. ~AtSave(p)'
      BY <2>1 DEF AtSave, InDeploy, InDestroy, InVerify
    <2>3. \A q \in fresh : q \in Operator /\ q # p
      BY <1>0, <1>1 DEF OrderInv, FreshPlanned, Active, Starts, TypeOK
    <2>4. SavedIsOwned' /\ CaptureFirst' /\ PlannedDeletes'
      BY <2>1, <2>3 DEF SavedIsOwned, CaptureFirst, PlannedDeletes, Deletes
    <2>5. RunningDeletes'
      BY <2>1, <2>2 DEF RunningDeletes, Deletes, AtSave, InDeploy, InDestroy, InVerify
    <2> QED
      BY <2>4, <2>5
  <1>2. ASSUME \A q \in Operator : run'[q].stage = "running" => run'[q] = run[q],
               UNCHANGED <<manifest, appState>>, fresh' \subseteq fresh,
               \/ tf'.mode # "destroy"
               \/ tf'.mode = tf.mode /\ tf'.change = tf.change
        PROVE  DeleteInv'
    <2>1. SavedIsOwned' /\ CaptureFirst' /\ PlannedDeletes'
      BY <1>0, <1>2 DEF SavedIsOwned, CaptureFirst, PlannedDeletes, Deletes, TypeOK
    <2>2. RunningDeletes'
      BY <1>2 DEF RunningDeletes, Deletes, AtSave, InDeploy, InDestroy, InVerify
    <2> QED
      BY <2>1, <2>2
  <1>3. ASSUME NEW p \in Operator, Completes(p)
        PROVE  DeleteInv'
    BY <1>2, <1>3 DEF Completes
  <1>4. ASSUME NEW p \in Operator, Stops(p) \/ Ends(p)
        PROVE  DeleteInv'
    <2>1. \A q \in Operator : run'[q].stage # "running"
      BY <1>4, Gone
    <2>2. UNCHANGED <<manifest, appState>> /\ fresh' \subseteq fresh
      BY <1>4 DEF Stops, Ends
    <2>3. \/ tf'.mode # "destroy"
          \/ tf'.mode = tf.mode /\ tf'.change = tf.change
      BY <1>0, <1>4 DEF Stops, Ends, NoTf, TypeOK, Terraform
    <2> QED
      BY <1>2, <2>1, <2>2, <2>3
  <1>5. ASSUME NEW r \in Resource, TfWorks(r), Works(r)
        PROVE  DeleteInv'
    <2>1. fresh' = {} /\ UNCHANGED <<run, manifest>> /\ tf'.mode = tf.mode
      BY <1>5, NothingFresh DEF TfWorks
    <2>2. /\ \A x \in Resource : tf'.change[x] = "delete" => tf.change[x] = "delete"
          /\ \A x \in Resource : tf'.change[x] = "delete" /\ x \in appState => x \in appState'
      <3>1. tf \in Terraform /\ tf.change \in [Resource -> Change]
        BY <1>0 DEF TypeOK, Terraform
      <3>2. CASE TfDelete(r) \/ TfCreate(r)
        <4>1. tf'.change = tf.change /\ appState' = appState
          BY <3>1, <3>2 DEF TfDelete, TfCreate, Terraform
        <4> QED
          BY <4>1
      <3>3. CASE TfForget(r)
        <4>1. /\ tf'.change = [tf.change EXCEPT ![r] = IF @ = "replace" THEN "create" ELSE "no-op"]
              /\ appState' = appState \ {r}
          BY <3>1, <3>3 DEF TfForget, Terraform
        <4> QED
          BY <3>1, <4>1
      <3>4. CASE TfRecord(r) \/ TfUpdate(r)
        <4>1. /\ tf'.change = [tf.change EXCEPT ![r] = "no-op"]
              /\ appState \subseteq appState'
          BY <3>1, <3>4 DEF TfRecord, TfUpdate, Terraform
        <4> QED
          BY <3>1, <4>1
      <3> QED
        BY <1>5, <3>2, <3>3, <3>4 DEF Works
    <2>3. SavedIsOwned' /\ CaptureFirst' /\ PlannedDeletes'
      BY <2>1 DEF SavedIsOwned, CaptureFirst, PlannedDeletes
    <2>4. RunningDeletes'
      BY <2>1, <2>2 DEF RunningDeletes, Deletes, AtSave, InDeploy, InDestroy, InVerify
    <2> QED
      BY <2>3, <2>4
  <1>6. CASE TfEnds
    <2>1. /\ UNCHANGED <<manifest, appState>> /\ fresh' = {} /\ fresh' \subseteq fresh
          /\ tf'.mode # "destroy"
      BY <1>6, NothingFresh DEF TfEnds, NoTf
    <2>2. CASE UNCHANGED run
      BY <1>2, <2>1, <2>2
    <2>3. ASSUME NEW p \in Operator, tf.owner = p,
                 run' = [run EXCEPT ![p] = [run[p] EXCEPT !.at = @ + 1]]
          PROVE  DeleteInv'
      <3>1. run[p].stage = "running" /\ Waiting(p) /\ run[p] \in Run
        BY <1>0, <2>3 DEF OrderInv, ChildWaited, TypeOK
      <3>2. /\ \A q \in Operator \ {p} : run'[q] = run[q]
            /\ run'[p].at = run[p].at + 1 /\ run'[p].op = run[p].op /\ run'[p].owned = run[p].owned
            /\ run[p].at \in Nat
        BY <1>0, <2>3, <3>1 DEF TypeOK, Run
      <3>3. /\ run[p].op = "destroy" /\ run'[p].at >= 17 => run[p].at >= 17
            /\ run[p].op = "rebuild" /\ run'[p].at >= 9 => run[p].at >= 9
        BY <3>1, <3>2 DEF Waiting, InDeploy, InDestroy
      <3>4. SavedIsOwned' /\ CaptureFirst'
        BY <2>1, <3>1, <3>2, <3>3 DEF SavedIsOwned, CaptureFirst
      <3> QED
        BY <2>1, <3>4 DEF PlannedDeletes, RunningDeletes
    <2> QED
      BY <1>6, <2>2, <2>3 DEF TfEnds
  <1>7. CASE Meddles \/ Unmoved
    BY <1>2, <1>7 DEF Meddles, Unmoved
  <1>8. ASSUME NEW p \in Operator, NEW s, Passes(p, s)
        PROVE  DeleteInv'
    BY <1>8, PassOwned, PassPlanned, PassRunning
  <1> QED
    BY <1>0, <1>1, <1>3, <1>4, <1>5, <1>6, <1>7, <1>8 DEF Move

(* Nothing is deleted at first.                                            *)
LEMMA DeleteInit == Init => DeleteInv
  BY IdleFields DEF Init, DeleteInv, SavedIsOwned, CaptureFirst, PlannedDeletes, RunningDeletes, NoTf

(* What a destroy still has to delete is in the ledger its absence proof    *)
(* will read, whatever an earlier child recorded or deletes meanwhile.     *)
THEOREM DeletesAreLedgered == Spec => []DestroyDeletesLedgered
  <1>1. DeleteInv => DestroyDeletesLedgered
    BY DEF DeleteInv, RunningDeletes, Deletes, DestroyDeletesLedgered, Pending
  <1> QED
    BY <1>1, OrderInit, OrderNext, DeleteInit, DeleteNext, PTL DEF Spec

-----------------------------------------------------------------------------
(* The schema object of a destroy.                                         *)

(* A step keeps FixtureInv.                                                *)
LEMMA PassFixture ==
  ASSUME OrderInv, FixtureInv, NEW p \in Operator, NEW s, Passes(p, s)
  PROVE  FixtureInv'
  <1>0. /\ TypeOK /\ run[p] \in Run /\ run[p].op \in Operation /\ run[p].at \in Nat
        /\ At(p, s) /\ Step(p) /\ run[p].stage = "running" /\ Shown(p)
        /\ Moves(p, s) /\ Writes(s)
        /\ \A q \in Operator : q # p => ~Shown(q)'
    BY Passing
  <1>1. /\ run'[p].op = run[p].op /\ run'[p].began = run[p].began /\ run'[p].stage = "running"
        /\ run'[p].at = run[p].at + (IF s = "namespace_exists" /\ namespaceState THEN 4 ELSE 1)
    BY <1>0 DEF Moves
  <1> SUFFICES ASSUME run[p].op \in {"destroy", "rebuild"}, run[p].began = "altered"
               PROVE  /\ fixture' = "altered"
                      /\ run'[p].at <= IF run[p].op = "destroy" THEN 34 ELSE 9
    BY <1>0, <1>1 DEF FixtureInv
  <1>2. fixture = "altered" /\ run[p].at <= IF run[p].op = "destroy" THEN 34 ELSE 9
    BY <1>0 DEF FixtureInv
  <1>3. s # "verify_fixture"
    BY <1>0, <1>2, StepIs DEF verify_fixture
  <1>4. run[p].at # (IF run[p].op = "destroy" THEN 34 ELSE 9)
    BY <1>0, <1>3, WhereLedger DEF InDestroy
  <1>5. s = "namespace_exists" => run[p].op = "destroy" /\ run[p].at \in {6, 27}
    BY <1>0, <1>2, Where DEF InDeploy, InDestroy, InVerify
  <1>6. s # "upload"
    BY <1>0, <1>2, Where DEF InDeploy
  <1> QED
    BY <1>0, <1>1, <1>2, <1>4, <1>5, <1>6 DEF Writes

(* Every step of the system keeps FixtureInv.                              *)
LEMMA FixtureNext == OrderInv /\ FixtureInv /\ [Next]_vars => FixtureInv'
  <1> SUFFICES ASSUME OrderInv, FixtureInv, [Next]_vars
               PROVE  FixtureInv'
    OBVIOUS
  <1>0. Move /\ TypeOK
    BY Moved DEF OrderInv, PinInv
  <1>1. ASSUME NEW p \in Operator, NEW op \in Operation, Starts(p, op)
        PROVE  FixtureInv'
    <2>1. /\ run'[p].at = 1 /\ run'[p].stage = "running" /\ run'[p].began = fixture
          /\ \A q \in Operator \ {p} : run'[q] = run[q]
          /\ fixture' = fixture
      BY <1>1 DEF Starts, NewRun, Idle
    <2> QED
      BY <2>1 DEF FixtureInv, Shown
  <1>2. ASSUME NEW p \in Operator, Completes(p)
        PROVE  FixtureInv'
    <2>1. \A q \in Operator \ {p} : ~Shown(q)'
      <3>1. Active(p)
        BY <1>2 DEF Completes, Active
      <3> QED
        BY <1>2, <3>1, Setting DEF Completes, Shown
    <2>2. run[p].op \in {"destroy", "rebuild"} => run[p].began # "altered"
      BY <1>2 DEF Completes, FixtureInv, Shown, Length
    <2> QED
      BY <1>2, <2>1, <2>2 DEF Completes, FixtureInv
  <1>3. ASSUME NEW p \in Operator, Stops(p) \/ Ends(p)
        PROVE  FixtureInv'
    BY <1>3, Gone DEF FixtureInv
  <1>4. CASE UNCHANGED run /\ (fixture # "intact" => fixture' = fixture)
    BY <1>4 DEF FixtureInv, Shown
  <1>5. CASE Meddles \/ Unmoved \/ \E r \in Resource : TfWorks(r) /\ Works(r)
    BY <1>4, <1>5 DEF Meddles, Unmoved, TfWorks
  <1>6. CASE TfEnds
    <2>1. CASE UNCHANGED run
      BY <1>4, <1>6, <2>1 DEF TfEnds
    <2>2. ASSUME NEW p \in Operator, tf.owner = p,
                 run' = [run EXCEPT ![p] = [run[p] EXCEPT !.at = @ + 1]]
          PROVE  FixtureInv'
      <3>1. run[p].stage = "running" /\ Waiting(p) /\ run[p] \in Run
        BY <1>0, <2>2 DEF OrderInv, ChildWaited, TypeOK
      <3>2. /\ \A q \in Operator \ {p} : run'[q] = run[q]
            /\ run'[p].at = run[p].at + 1 /\ run'[p].op = run[p].op
            /\ run'[p].stage = run[p].stage /\ run'[p].began = run[p].began
        BY <1>0, <2>2, <3>1 DEF TypeOK, Run
      <3>3. /\ run[p].op = "destroy" => run[p].at = 21
            /\ run[p].op = "rebuild" => run[p].at > 9
        BY <3>1 DEF Waiting, InDeploy, InDestroy
      <3>4. fixture' = fixture
        BY <1>6 DEF TfEnds
      <3>5. run[p].op \in {"destroy", "rebuild"} /\ run[p].began = "altered" =>
              run[p].op = "destroy" /\ fixture = "altered" /\ run'[p].at = 22
        <4>1. run[p].at \in Nat
          BY <3>1 DEF Run
        <4> QED
          BY <3>1, <3>2, <3>3, <4>1 DEF FixtureInv, Shown
      <3> QED
        BY <3>1, <3>2, <3>4, <3>5 DEF FixtureInv, Shown
    <2> QED
      BY <1>6, <2>1, <2>2 DEF TfEnds
  <1> QED
    BY <1>0, <1>1, <1>2, <1>3, <1>5, <1>6, PassFixture DEF Move

(* No operation has begun at first.                                        *)
LEMMA FixtureInit == Init => FixtureInv
  BY IdleFields DEF Init, FixtureInv, Shown

(* No destroy or rebuild of an altered schema object is ever verified.      *)
THEOREM DestroyProvesFixture == Spec => []FixtureProved
  <1>1. FixtureInv => FixtureProved
    BY DEF FixtureInv, FixtureProved, Verified, Shown
  <1> QED
    BY <1>1, OrderInit, OrderNext, FixtureInit, FixtureNext, PTL DEF Spec

-----------------------------------------------------------------------------
(* The read-only operation.                                                *)

(* A step keeps VerifyInv.                                                 *)
LEMMA PassVerify ==
  ASSUME OrderInv, VerifyInv, NEW p \in Operator, NEW s, Passes(p, s)
  PROVE  /\ VerifyInv'
         /\ run[p].op = "verify" => UNCHANGED <<live, drift, appState, namespaceState>>
  <1>0. /\ TypeOK /\ run[p].op \in Operation /\ run[p].at \in Nat
        /\ At(p, s) /\ Step(p) /\ run[p].stage = "running"
        /\ Moves(p, s) /\ Writes(s)
        /\ \A q \in Operator : q # p => run'[q].stage = "idle"
    BY Passing
  <1>1. /\ run'[p].op = run[p].op
        /\ run'[p].at = run[p].at + (IF s = "namespace_exists" /\ namespaceState THEN 4 ELSE 1)
        /\ namespaceState' = (namespaceState \/ s = "namespace_import")
        /\ UNCHANGED <<live, drift>>
    BY <1>0 DEF Moves, Writes
  <1>2. ASSUME run[p].op = "verify"
        PROVE  /\ run'[p].at > 3 => namespaceState /\ namespaceState'
               /\ run'[p].at \notin {7, 8, 9}
               /\ UNCHANGED <<appState, namespaceState>>
    <2>1. /\ run[p].at > 3 => namespaceState
          /\ run[p].at \notin {7, 8, 9}
      BY <1>0, <1>2 DEF VerifyInv
    <2>2. InVerify(p, 1, 21)
      BY <1>0, <1>2, WhereLedger DEF InVerify, Length
    <2>3. /\ s = "namespace_gate" <=> run[p].at = 3
          /\ s = "namespace_import" <=> run[p].at = 9
          /\ s = "namespace_exists" <=> run[p].at = 6
          /\ s # "apply"
      BY <1>0, <1>2, <2>2, Where DEF InDeploy, InDestroy, InVerify
    <2>4. s = "namespace_gate" => namespaceState
      BY <1>0, StepIs DEF namespace_gate
    <2>5. run'[p].at > 3 => namespaceState
      BY <1>0, <1>1, <2>1, <2>3, <2>4
    <2>6. s # "namespace_import"
      BY <2>1, <2>3
    <2>7. namespaceState' = namespaceState
      BY <1>0, <1>1, <2>6 DEF TypeOK
    <2> QED
      BY <1>0, <1>1, <2>1, <2>3, <2>5, <2>7 DEF Writes
  <1> QED
    BY <1>0, <1>1, <1>2 DEF VerifyInv

(* Every step of the system keeps VerifyInv.                               *)
LEMMA VerifyNext == OrderInv /\ VerifyInv /\ [Next]_vars => VerifyInv'
  <1> SUFFICES ASSUME OrderInv, VerifyInv, [Next]_vars
               PROVE  VerifyInv'
    OBVIOUS
  <1>0. Move /\ TypeOK
    BY Moved DEF OrderInv, PinInv
  <1>1. ASSUME NEW p \in Operator, NEW op \in Operation, Starts(p, op)
        PROVE  VerifyInv'
    <2>1. /\ run'[p].at = 1 /\ \A q \in Operator \ {p} : run'[q] = run[q]
          /\ namespaceState' = namespaceState
      BY <1>1 DEF Starts, NewRun, Idle
    <2> QED
      BY <2>1 DEF VerifyInv
  <1>2. ASSUME NEW p \in Operator, Completes(p) \/ Stops(p) \/ Ends(p)
        PROVE  VerifyInv'
    <2>1. run'[p].stage # "running" /\ \A q \in Operator \ {p} : run'[q] = run[q]
      BY <1>2, IdleFields DEF Completes, Stops, Ends
    <2>2. namespaceState' = namespaceState
      BY <1>2 DEF Completes, Stops, Ends
    <2> QED
      BY <2>1, <2>2 DEF VerifyInv
  <1>3. CASE Meddles \/ Unmoved \/ \E r \in Resource : TfWorks(r) /\ Works(r)
    BY <1>3 DEF Meddles, Unmoved, TfWorks, VerifyInv
  <1>4. CASE TfEnds
    <2>1. namespaceState' = namespaceState
      BY <1>4 DEF TfEnds
    <2>2. ASSUME NEW p \in Operator, tf.owner = p,
                 run' = [run EXCEPT ![p] = [run[p] EXCEPT !.at = @ + 1]]
          PROVE  VerifyInv'
      <3>1. run[p].stage = "running" /\ Waiting(p) /\ run[p] \in Run
        BY <1>0, <2>2 DEF OrderInv, ChildWaited, TypeOK
      <3>2. /\ \A q \in Operator \ {p} : run'[q] = run[q]
            /\ run'[p].op = run[p].op
        BY <1>0, <2>2, <3>1 DEF TypeOK, Run
      <3>3. run[p].op # "verify"
        BY <3>1 DEF Waiting, InDeploy, InDestroy
      <3> QED
        BY <2>1, <3>2, <3>3 DEF VerifyInv
    <2> QED
      BY <1>4, <2>1, <2>2 DEF TfEnds, VerifyInv
  <1> QED
    BY <1>0, <1>1, <1>2, <1>3, <1>4, PassVerify DEF Move

(* No operation has begun at first, so no verify has.                      *)
LEMMA VerifyInit == Init => VerifyInv
  BY IdleFields DEF Init, VerifyInv

(* Under these invariants each step of the system is one                   *)
(* VerifyMutatesNothing allows.                                            *)
LEMMA VerifyKeeps ==
  ASSUME OrderInv, VerifyInv, [Next]_vars,
         NEW v \in Operator, Active(v), run[v].op = "verify",
         tf.owner # "orphan", faults' = faults
  PROVE  UNCHANGED <<live, drift, appState, namespaceState>>
  <1>0. Move /\ TypeOK
    BY Moved DEF OrderInv, PinInv
  <1>1. ASSUME NEW p \in Operator, NEW s, Passes(p, s)
        PROVE  UNCHANGED <<live, drift, appState, namespaceState>>
    <2>1. Active(p)
      BY <1>1 DEF Passes, At, Active
    <2>2. p = v
      BY <2>1, Alone
    <2> QED
      BY <1>1, <2>2, PassVerify
  <1>2. ~StateLocked
    <2>1. tf.owner # v
      <3>1. ~Waiting(v)
        BY DEF Waiting, InDeploy, InDestroy
      <3> QED
        BY <3>1 DEF OrderInv, ChildWaited
    <2>2. tf.owner \notin Operator
      BY <2>1, Alone
    <2> QED
      BY <1>0, <2>2 DEF TypeOK, Terraform, StateLocked
  <1>3. ~Meddles
    BY <1>0 DEF Meddles, TypeOK
  <1>4. ASSUME NEW p \in Operator, NEW op \in Operation, Starts(p, op)
        PROVE  UNCHANGED <<live, drift, appState, namespaceState>>
    BY <1>4 DEF Starts
  <1>5. ASSUME NEW p \in Operator, Completes(p) \/ Stops(p) \/ Ends(p)
        PROVE  UNCHANGED <<live, drift, appState, namespaceState>>
    BY <1>5 DEF Completes, Stops, Ends
  <1> QED
    BY <1>0, <1>1, <1>2, <1>3, <1>4, <1>5 DEF Move, TfWorks, TfEnds, Unmoved

(* While a verify holds the lock, nothing but the outside or a child left   *)
(* behind changes the deployment: it imports, applies and repairs nothing. *)
THEOREM VerifyOnlyReads == Spec => VerifyMutatesNothing
  <1>1. OrderInv /\ VerifyInv /\ [Next]_vars =>
          [(\E p \in Operator : Active(p) /\ run[p].op = "verify")
             /\ tf.owner # "orphan" /\ faults' = faults
           => UNCHANGED <<live, drift, appState, namespaceState>>]_vars
    BY VerifyKeeps
  <1> QED
    BY <1>1, OrderInit, OrderNext, VerifyInit, VerifyNext, PTL DEF Spec, VerifyMutatesNothing

-----------------------------------------------------------------------------
(* What is left after a destroy.                                           *)

(* How the resources divide.                                               *)
LEMMA AddressTypes ==
  /\ Azure \subseteq Resource /\ Group \in Azure /\ Generator \in Azure
  /\ \A r \in Resource : Requires[r] \subseteq Resource
  /\ \A r \in Azure \ {Group} : \E s \in Azure : s \in Requires[r]
  BY StateAssumption, GroupAssumption DEF Resource

(* Every step of the system keeps the group around what is in it.          *)
LEMMA GroupHoldsNext == OrderInv /\ GroupHolds /\ [Next]_vars => GroupHolds'
  <1> SUFFICES ASSUME OrderInv, GroupHolds, [Next]_vars
               PROVE  GroupHolds'
    OBVIOUS
  <1>0. Move /\ live \in [Resource -> {"absent", "ours", "foreign"}]
    BY Moved DEF OrderInv, PinInv, TypeOK
  <1>1. CASE UNCHANGED live
    BY <1>1 DEF GroupHolds
  <1>2. ASSUME NEW p \in Operator, NEW s, Passes(p, s)
        PROVE  UNCHANGED live
    BY <1>2 DEF Passes, Moves
  <1>3. ASSUME NEW p \in Operator,
               Completes(p) \/ Stops(p) \/ Ends(p) \/ \E op \in Operation : Starts(p, op)
        PROVE  UNCHANGED live
    BY <1>3 DEF Completes, Stops, Ends, Starts
  <1>4. ASSUME NEW r \in Resource, Works(r)
        PROVE  GroupHolds'
    <2>1. CASE TfDelete(r)
      BY <1>0, <2>1, AddressTypes DEF TfDelete, GroupHolds
    <2>2. CASE TfCreate(r)
      <3>1. /\ live' = [live EXCEPT ![r] = "ours"]
            /\ \A s \in Requires[r] : live[s] # "absent"
        BY <2>2 DEF TfCreate
      <3>2. r \in Azure \ {Group} => live[Group] # "absent"
        BY <3>1, AddressTypes DEF GroupHolds
      <3> QED
        BY <1>0, <3>1, <3>2, AddressTypes DEF GroupHolds
    <2>3. CASE TfForget(r) \/ TfRecord(r) \/ TfUpdate(r)
      BY <1>1, <2>3 DEF TfForget, TfRecord, TfUpdate
    <2> QED
      BY <1>4, <2>1, <2>2, <2>3 DEF Works
  <1>5. CASE Meddles
    BY <1>5 DEF Meddles, GroupHolds
  <1> QED
    BY <1>0, <1>1, <1>2, <1>3, <1>4, <1>5, Zenon DEF Move, TfEnds, Unmoved

(* A step keeps what a destroy has shown.                                  *)
LEMMA PassAbsence ==
  ASSUME OrderInv, AbsenceInv, NEW p \in Operator, NEW s, Passes(p, s)
  PROVE  AbsenceShown'
  <1>0. /\ TypeOK /\ run[p].op \in Operation /\ run[p].at \in Nat
        /\ At(p, s) /\ Step(p) /\ Shown(p)
        /\ Moves(p, s) /\ Writes(s)
        /\ \A q \in Operator : q # p => ~Shown(q)'
    BY Passing
  <1>1. /\ run'[p].op = run[p].op
        /\ run'[p].at = run[p].at + (IF s = "namespace_exists" /\ namespaceState THEN 4 ELSE 1)
        /\ UNCHANGED live
    BY <1>0 DEF Moves
  <1> SUFFICES ASSUME run[p].op = "destroy", run'[p].at \in 23..36
               PROVE  /\ appState' = {}
                      /\ run'[p].at \in 24..36 =>
                           /\ manifest' # None
                           /\ manifest'.owned \cap Azure # {}
                           /\ \A r \in manifest'.owned : live'[r] # "ours"
                           /\ Group \in manifest'.owned => \A r \in Azure : live'[r] # "ours"
    BY <1>0, <1>1 DEF AbsenceShown
  <1>2. s = "namespace_exists" => run[p].at \in {6, 27}
    BY <1>0, Where DEF InDeploy, InDestroy, InVerify
  <1>3. run[p].at \in 22..36
    BY <1>0, <1>1, <1>2
  <1>4. s \notin {"apply", "inventory_save"}
    BY <1>0, <1>3, Where, WhereLedger DEF InDeploy, InDestroy, InVerify
  <1>5. UNCHANGED <<appState, manifest>>
    BY <1>0, <1>4 DEF Writes
  <1>6. CASE run[p].at = 22
    <2>1. s = "empty_state"
      BY <1>0, <1>6, Where DEF InDestroy
    <2>2. appState = {}
      BY <1>0, <2>1, StepIs DEF empty_state
    <2> QED
      BY <1>1, <1>5, <1>6, <2>1, <2>2
  <1>7. CASE run[p].at = 23
    <2>1. s = "absence"
      BY <1>0, <1>7, WhereLedger DEF InDestroy
    <2>2. manifest # None /\ manifest.owned \cap Azure # {} /\ Residue = {}
      BY <1>0, <2>1, StepIs DEF verify_absence, manifest_shape
    <2>3. manifest.owned \subseteq Resource
      BY <1>0, <2>2 DEF TypeOK
    <2>4. \A r \in manifest.owned : live[r] = "absent"
      BY <2>2 DEF Residue
    <2>5. Group \in manifest.owned => \A r \in Azure : live[r] = "absent"
      BY <2>4 DEF AbsenceInv, GroupHolds
    <2>6. appState = {}
      BY <1>0, <1>7 DEF AbsenceInv, AbsenceShown
    <2> QED
      BY <1>1, <1>5, <2>2, <2>4, <2>5, <2>6
  <1>8. CASE run[p].at \in 24..36
    BY <1>0, <1>1, <1>5, <1>8 DEF AbsenceInv, AbsenceShown
  <1> QED
    BY <1>3, <1>6, <1>7, <1>8

(* Every step of the system keeps AbsenceInv.                              *)
LEMMA AbsenceNext == OrderInv /\ AbsenceInv /\ [Next]_vars => AbsenceInv'
  <1> SUFFICES ASSUME OrderInv, AbsenceInv, [Next]_vars
               PROVE  AbsenceShown'
    BY GroupHoldsNext DEF AbsenceInv
  <1> USE DEF AbsenceInv
  <1>0. Move /\ TypeOK
    BY Moved DEF OrderInv, PinInv
  <1>1. ASSUME NEW p \in Operator, Stops(p) \/ Ends(p)
        PROVE  AbsenceShown'
    BY <1>1, Gone DEF AbsenceShown
  <1>2. ASSUME NEW p \in Operator, NEW op \in Operation, Starts(p, op)
        PROVE  AbsenceShown'
    <2>1. /\ run'[p].at = 1 /\ \A q \in Operator \ {p} : run'[q] = run[q]
          /\ UNCHANGED <<appState, manifest, live>>
      BY <1>2 DEF Starts, NewRun, Idle
    <2> QED
      BY <2>1 DEF AbsenceShown, Shown
  <1>3. ASSUME NEW p \in Operator, Completes(p)
        PROVE  AbsenceShown'
    <2>1. /\ \A q \in Operator : Shown(q)' => Shown(q)
          /\ \A q \in Operator : run'[q].at = run[q].at /\ run'[q].op = run[q].op
          /\ UNCHANGED <<appState, manifest, live>>
      BY <1>3 DEF Completes, Shown
    <2> QED
      BY <2>1 DEF AbsenceShown
  <1>4. ASSUME NEW p \in Operator, Shown(p), run[p].op = "destroy", run[p].at \in 23..36
        PROVE  ~StateLocked
    <2>1. PastPlan(p) /\ ~Waiting(p)
      BY <1>4 DEF PastPlan, Waiting, InDeploy, InDestroy
    <2> QED
      BY <1>4, <2>1, Childless DEF StateLocked
  <1>5. CASE TfEnds \/ \E r \in Resource : TfWorks(r) /\ Works(r)
    <2>1. StateLocked
      BY <1>5 DEF TfEnds, TfWorks
    <2>2. \A p \in Operator : ~(Shown(p) /\ run[p].op = "destroy" /\ run[p].at \in 23..36)
      BY <1>4, <2>1
    <2>3. CASE UNCHANGED run
      BY <2>2, <2>3 DEF AbsenceShown, Shown
    <2>4. ASSUME NEW p \in Operator, tf.owner = p,
                 run' = [run EXCEPT ![p] = [run[p] EXCEPT !.at = @ + 1]]
          PROVE  AbsenceShown'
      <3>1. run[p].stage = "running" /\ Waiting(p) /\ run[p] \in Run
        BY <1>0, <2>4 DEF OrderInv, ChildWaited, TypeOK
      <3>2. /\ \A q \in Operator \ {p} : run'[q] = run[q]
            /\ run'[p].at = run[p].at + 1 /\ run'[p].op = run[p].op
        BY <1>0, <2>4, <3>1 DEF TypeOK, Run
      <3>3. run'[p].op = "destroy" => run'[p].at = 22
        BY <3>1, <3>2 DEF Waiting, InDeploy, InDestroy
      <3> QED
        BY <2>2, <3>2, <3>3 DEF AbsenceShown, Shown
    <2> QED
      BY <1>5, <2>3, <2>4 DEF TfEnds, TfWorks
  <1>6. CASE Meddles \/ Unmoved
    <2>1. UNCHANGED <<run, appState, manifest>>
      BY <1>6 DEF Meddles, Unmoved
    <2>2. \A r \in Resource : live'[r] = "ours" => live[r] = "ours"
      BY <1>6 DEF Meddles, Unmoved
    <2>3. manifest # None => manifest.owned \subseteq Resource
      BY <1>0 DEF TypeOK
    <2> QED
      BY <2>1, <2>2, <2>3, AddressTypes DEF AbsenceShown, Shown
  <1> QED
    BY <1>0, <1>1, <1>2, <1>3, <1>5, <1>6, PassAbsence DEF Move

(* Nothing exists at first.                                                *)
LEMMA AbsenceInit == Init => AbsenceInv
  BY IdleFields, AddressTypes DEF Init, AbsenceInv, GroupHolds, AbsenceShown, Shown

(* After a verified destroy the state is empty, nothing the ledger names is *)
(* an object of the lifecycle, and when the ledger names the group, nothing *)
(* of Azure is.                                                            *)
LedgeredIsGone ==
  \A p \in Operator : Verified(p, {"destroy"}) =>
    /\ appState = {}
    /\ manifest # None
    /\ \A r \in manifest.owned : live[r] # "ours"
    /\ Group \in manifest.owned => \A r \in Azure : live[r] # "ours"

(* A verified destroy is past its absence proof.                           *)
LEMMA AtTheEnd ==
  ASSUME OrderInv, NEW p \in Operator, Verified(p, {"destroy"})
  PROVE  Shown(p) /\ run[p].op = "destroy" /\ run[p].at \in 24..36 /\ run[p].at \in 23..36
  BY DEF Verified, OrderInv, EndReached, Shown, Length

(* A verified destroy leaves nothing of what its ledger names, whatever     *)
(* changed outside and whichever applies were killed before it.            *)
THEOREM DestroyLeavesNothingLedgered == Spec => []LedgeredIsGone
  <1>1. OrderInv /\ AbsenceInv => LedgeredIsGone
    BY AtTheEnd DEF AbsenceInv, AbsenceShown, LedgeredIsGone
  <1> QED
    BY <1>1, OrderInit, OrderNext, AbsenceInit, AbsenceNext, PTL DEF Spec

-----------------------------------------------------------------------------
(* A destroy in a world nobody else changes.                               *)

(* What is recorded and still there needs nothing that is not.             *)
LEMMA RefreshedSupported ==
  ASSUME TypeOK, GroupHolds, Supported(appState), GroupRecorded(appState)
  PROVE  /\ \A s \in Refreshed : \A r \in Requires[s] : r \in Refreshed /\ live[r] # "absent"
         /\ GroupRecorded(Refreshed)
  <1>1. \A s \in Refreshed : \A r \in Requires[s] : r \in Refreshed /\ live[r] # "absent"
    BY DEF Supported, Refreshed
  <1>2. GroupRecorded(Refreshed)
    BY DEF GroupRecorded, Refreshed, GroupHolds
  <1> QED
    BY <1>1, <1>2

(* A step keeps the deployment undisturbed.                                *)
LEMMA PassUndisturbed ==
  ASSUME OrderInv, GroupHolds, TfUndisturbed, RunUndisturbed,
         NEW p \in Operator, NEW s, Passes(p, s)
  PROVE  TfUndisturbed' /\ RunUndisturbed'
  <1>0. /\ TypeOK /\ run[p] \in Run
        /\ At(p, s) /\ Step(p) /\ run[p].stage = "running"
        /\ Moves(p, s) /\ Writes(s)
        /\ \A q \in Operator : q # p => run'[q].stage = "idle"
        /\ fresh' \subseteq {p}
    BY Passing
  <1>1. UNCHANGED <<live, drift>>
    BY <1>0 DEF Moves
  <1>2. TfUndisturbed'
    <2>1. CASE s = "apply"
      <3>1. /\ tf'.mode = run[p].plan.mode /\ tf'.change = run[p].plan.change /\ tf'.made = {}
            /\ appState' = run[p].plan.prior /\ p \in fresh
        <4>1. apply_start(p)
          BY <1>0, <2>1, StepIs
        <4> QED
          BY <4>1, ApplyRecord
      <3>2. PlanOfMode(tf'.mode, tf'.change) /\ appState' = Refreshed
        BY <1>0, <3>1 DEF RunUndisturbed
      <3>3. /\ \A x \in Refreshed : \A r \in Requires[x] : r \in Refreshed /\ live[r] # "absent"
            /\ GroupRecorded(Refreshed)
        BY <1>0, RefreshedSupported DEF TfUndisturbed
      <3> QED
        BY <1>1, <3>1, <3>2, <3>3 DEF TfUndisturbed, PlanOfMode, Supported, GroupRecorded
    <2>2. CASE s # "apply"
      <3>1. UNCHANGED <<appState, tf>>
        BY <1>0, <2>2 DEF Writes
      <3> QED
        BY <1>1, <3>1 DEF TfUndisturbed, PlanOfMode, Supported, GroupRecorded
    <2> QED
      BY <2>1, <2>2
  <1>3. run'[p].resources # None => GroupRecorded(run'[p].resources)
    BY <1>0 DEF Moves, TfUndisturbed, RunUndisturbed
  <1>4. manifest' # None => GroupRecorded(manifest'.owned)
    <2>1. CASE s = "inventory_save"
      <3>1. manifest' = [uid |-> run[p].uid, owned |-> run[p].resources] /\ run[p].resources # None
        BY <1>0, <2>1, StepIs DEF inventory_save
      <3> QED
        BY <1>0, <3>1 DEF RunUndisturbed
    <2>2. CASE s # "inventory_save"
      BY <1>0, <2>2 DEF Writes, RunUndisturbed
    <2> QED
      BY <2>1, <2>2
  <1>5. p \in fresh' =>
          PlanOfMode(run'[p].plan.mode, run'[p].plan.change) /\ run'[p].plan.prior = Refreshed'
    <2>1. CASE s \in {"plan_application", "plan_noop", "plan_destroy"}
      <3>1. PICK mode \in Mode, owned \in {None, run[p].owned} : plan(p, mode, owned)
        BY <1>0, <2>1, StepIs, Zenon DEF Mode
      <3>2. PICK replaced \in SUBSET drift :
              /\ run'[p].plan.mode = mode /\ run'[p].plan.prior = Refreshed
              /\ run'[p].plan.change = Proposed(mode, replaced)
        BY <1>0, <3>1, PlanRecord
      <3>3. PlanOfMode(mode, Proposed(mode, replaced))
        BY DEF PlanOfMode, Proposed, TfUndisturbed
      <3>4. Refreshed' = Refreshed
        BY <1>0, <1>1, <2>1 DEF Refreshed, Writes
      <3> QED
        BY <3>2, <3>3, <3>4
    <2>2. CASE s = "apply"
      <3>1. apply_start(p)
        BY <1>0, <2>2, StepIs
      <3> QED
        BY <3>1, ApplyRecord
    <2>3. CASE s \notin {"plan_application", "plan_noop", "plan_destroy", "apply"}
      <3>1. p \in fresh' => p \in fresh
        BY <1>0, <2>3 DEF Writes
      <3>2. run'[p].plan = run[p].plan /\ Refreshed' = Refreshed
        BY <1>0, <1>1, <2>3 DEF Moves, Writes, Refreshed
      <3> QED
        BY <1>0, <3>1, <3>2 DEF RunUndisturbed
    <2> QED
      BY <2>1, <2>2, <2>3
  <1>6. RunUndisturbed'
    BY <1>0, <1>3, <1>4, <1>5 DEF RunUndisturbed, GroupRecorded, PlanOfMode
  <1> QED
    BY <1>2, <1>6

(* A Terraform child keeps the deployment undisturbed.                     *)
LEMMA WorksUndisturbed ==
  ASSUME OrderInv, GroupHolds, TfUndisturbed, RunUndisturbed,
         NEW r \in Resource, TfWorks(r), Works(r)
  PROVE  TfUndisturbed' /\ RunUndisturbed'
  <1>0. /\ TypeOK /\ tf \in Terraform /\ tf.change \in [Resource -> Change]
        /\ live \in [Resource -> {"absent", "ours", "foreign"}]
    BY DEF OrderInv, PinInv, TypeOK, Terraform
  <1>1. RunUndisturbed'
    <2>1. fresh' = {} /\ UNCHANGED <<run, manifest>>
      BY NothingFresh DEF TfWorks
    <2> QED
      BY <2>1 DEF RunUndisturbed, GroupRecorded
  <1>2. /\ tf'.mode = tf.mode
        /\ \A x \in Resource : tf.change[x] # "replace" /\ tf.change[x] # "update"
        /\ \A x \in Resource : tf.change[x] = "delete" => tf.mode = "destroy"
        /\ \A x \in Resource : tf.change[x] = "create" => tf.mode # "destroy"
    BY DEF TfWorks, TfUndisturbed, PlanOfMode
  <1>3. CASE TfDelete(r)
    <2>1. /\ tf' = tf /\ appState' = appState /\ drift' = drift
          /\ live' = [live EXCEPT ![r] = "absent"]
          /\ tf.change[r] = "delete" /\ \A s \in appState : r \notin Requires[s]
      BY <1>2, <1>3 DEF TfDelete, Pending
    <2>2. tf.made = {}
      BY <1>2, <2>1 DEF TfUndisturbed
    <2>3. Supported(appState)'
      <3>1. \A s \in appState : s \in Resource /\ Requires[s] \subseteq Resource
        BY <1>0, AddressTypes DEF TypeOK
      <3> QED
        BY <1>0, <2>1, <3>1 DEF Supported, TfUndisturbed
    <2> QED
      BY <1>1, <2>1, <2>2, <2>3 DEF TfUndisturbed, Supported, PlanOfMode, GroupRecorded
  <1>4. CASE TfForget(r)
    <2>1. /\ tf'.made = tf.made /\ appState' = appState \ {r} /\ drift' = drift /\ live' = live
          /\ tf.change[r] = "delete" /\ live[r] = "absent"
          /\ tf'.change = [tf.change EXCEPT ![r] = IF @ = "replace" THEN "create" ELSE "no-op"]
      BY <1>0, <1>2, <1>4 DEF TfForget, Pending, Terraform
    <2>2. tf.mode = "destroy" /\ tf.made = {}
      BY <1>2, <2>1 DEF TfUndisturbed
    <2>3. PlanOfMode(tf'.mode, tf'.change)
      BY <1>0, <1>2, <2>1, <2>2 DEF TfUndisturbed, PlanOfMode
    <2>4. Supported(appState)'
      BY <2>1 DEF TfUndisturbed, Supported
    <2>5. GroupRecorded(appState)'
      <3> SUFFICES ASSUME NEW x \in Azure, x \in appState, x # r
                   PROVE  Group \in appState /\ Group # r
        BY <2>1 DEF GroupRecorded
      <3>1. Group \in appState
        BY DEF TfUndisturbed, GroupRecorded
      <3>2. CASE x = Group
        BY <3>1, <3>2
      <3>3. CASE x # Group
        <4>1. PICK y \in Azure : y \in Requires[x]
          BY <3>3, AddressTypes
        <4>2. live[y] # "absent"
          BY <4>1 DEF TfUndisturbed, Supported
        <4>3. live[Group] # "absent"
          BY <4>2 DEF GroupHolds
        <4> QED
          BY <2>1, <3>1, <4>3
      <3> QED
        BY <3>2, <3>3
    <2> QED
      BY <1>1, <1>2, <2>1, <2>2, <2>3, <2>4, <2>5 DEF TfUndisturbed, Supported
  <1>5. CASE TfCreate(r)
    <2>1. /\ tf'.made = tf.made \cup {r} /\ tf'.change = tf.change
          /\ appState' = appState /\ drift' = drift
          /\ live' = [live EXCEPT ![r] = "ours"]
          /\ tf.change[r] = "create" /\ \A s \in Requires[r] : s \in appState /\ live[s] # "absent"
      BY <1>0, <1>5 DEF TfCreate, Pending, Terraform
    <2>2. tf.mode # "destroy"
      BY <1>2, <2>1
    <2>3. \A x \in Resource : live[x] # "absent" => live'[x] # "absent"
      BY <1>0, <2>1
    <2>4. \A x \in appState : x \in Resource
      BY <1>0 DEF TypeOK
    <2>5. Supported(appState)'
      BY <2>1, <2>3, <2>4 DEF TfUndisturbed, Supported
    <2>6. Supported(tf.made)'
      <3> SUFFICES ASSUME NEW x \in tf'.made, NEW y \in Requires[x]
                   PROVE  y \in appState' /\ live'[y] # "absent"
        BY DEF Supported
      <3>1. y \in appState /\ live[y] # "absent"
        BY <2>1 DEF TfUndisturbed, Supported
      <3> QED
        BY <2>1, <2>3, <2>4, <3>1
    <2> QED
      BY <1>1, <1>2, <2>1, <2>2, <2>5, <2>6 DEF TfUndisturbed, PlanOfMode, GroupRecorded
  <1>6. CASE TfRecord(r)
    <2>1. /\ tf'.made = tf.made \ {r} /\ tf'.change = [tf.change EXCEPT ![r] = "no-op"]
          /\ appState' = appState \cup {r} /\ drift' \subseteq drift /\ live' = live
          /\ r \in tf.made
      BY <1>0, <1>6 DEF TfRecord, Terraform
    <2>2. tf.mode # "destroy"
      BY <2>1 DEF TfUndisturbed
    <2>3. PlanOfMode(tf'.mode, tf'.change)
      BY <1>0, <1>2, <2>1, <2>2 DEF TfUndisturbed, PlanOfMode
    <2>4. Supported(appState)' /\ Supported(tf.made)'
      BY <2>1 DEF TfUndisturbed, Supported
    <2>5. GroupRecorded(appState)'
      <3>1. r \in Azure \ {Group} => Group \in appState
        <4> SUFFICES ASSUME r \in Azure \ {Group}
                     PROVE  Group \in appState
          OBVIOUS
        <4>1. PICK y \in Azure : y \in Requires[r]
          BY AddressTypes
        <4> QED
          BY <2>1, <4>1 DEF TfUndisturbed, Supported, GroupRecorded
      <3> QED
        BY <2>1, <3>1 DEF TfUndisturbed, GroupRecorded
    <2> QED
      BY <1>1, <1>2, <2>1, <2>2, <2>3, <2>4, <2>5 DEF TfUndisturbed
  <1>7. CASE TfUpdate(r)
    BY <1>2, <1>7 DEF TfUpdate, Pending
  <1> QED
    BY <1>3, <1>4, <1>5, <1>6, <1>7 DEF Works

(* Every step of the system keeps Undisturbed.                             *)
LEMMA UndisturbedNext == OrderInv /\ AbsenceInv /\ Undisturbed /\ [Next]_vars => Undisturbed'
  <1> SUFFICES ASSUME OrderInv, AbsenceInv, Undisturbed, [Next]_vars, faults' = 0
               PROVE  TfUndisturbed' /\ RunUndisturbed'
    BY DEF Undisturbed
  <1>0. Move /\ TypeOK /\ GroupHolds
    BY Moved DEF OrderInv, PinInv, AbsenceInv
  <1>1. ~Meddles /\ faults = 0
    <2>1. ~Meddles
      BY <1>0 DEF Meddles, TypeOK
    <2>2. ASSUME NEW p \in Operator, NEW s, Passes(p, s)
          PROVE  faults' = faults
      BY <2>2 DEF Passes, Moves
    <2>3. ASSUME NEW p \in Operator,
                 Completes(p) \/ Stops(p) \/ Ends(p) \/ \E op \in Operation : Starts(p, op)
          PROVE  faults' = faults
      BY <2>3 DEF Completes, Stops, Ends, Starts
    <2>4. ASSUME TfEnds \/ Unmoved \/ \E r \in Resource : TfWorks(r)
          PROVE  faults' = faults
      BY <2>4 DEF TfEnds, Unmoved, TfWorks
    <2>5. faults' = faults
      BY <1>0, <2>1, <2>2, <2>3, <2>4, Zenon DEF Move
    <2> QED
      BY <2>1, <2>5
  <1>2. TfUndisturbed /\ RunUndisturbed
    BY <1>1 DEF Undisturbed
  <1>3. ASSUME UNCHANGED <<appState, live, drift, manifest>>, fresh' \subseteq fresh,
               \A q \in Operator : run'[q].stage = "running" =>
                 run'[q].resources = run[q].resources /\ run[q].stage = "running",
               fresh' = {} \/ \A q \in Operator : run'[q].stage = "running" => run'[q] = run[q],
               \/ tf'.mode = tf.mode /\ tf'.change = tf.change /\ tf'.made = tf.made
               \/ tf' = NoTf
        PROVE  TfUndisturbed' /\ RunUndisturbed'
    <2>1. TfUndisturbed'
      BY <1>2, <1>3 DEF TfUndisturbed, PlanOfMode, Supported, GroupRecorded, NoTf, NothingToDo
    <2>2. Refreshed' = Refreshed
      BY <1>3 DEF Refreshed
    <2>3. RunUndisturbed'
      BY <1>0, <1>2, <1>3, <2>2 DEF RunUndisturbed, GroupRecorded, PlanOfMode, TypeOK
    <2> QED
      BY <2>1, <2>3
  <1>4. ASSUME NEW p \in Operator, NEW op \in Operation, Starts(p, op)
        PROVE  TfUndisturbed' /\ RunUndisturbed'
    <2>1. /\ UNCHANGED <<appState, live, drift, manifest, tf, fresh>>
          /\ run'[p].resources = None /\ \A q \in Operator \ {p} : run'[q] = run[q]
      BY <1>4 DEF Starts, NewRun, Idle
    <2>2. \A q \in fresh : q \in Operator /\ q # p
      BY <1>0, <1>4 DEF OrderInv, FreshPlanned, Active, Starts, TypeOK
    <2>3. TfUndisturbed'
      BY <1>2, <2>1 DEF TfUndisturbed, PlanOfMode, Supported, GroupRecorded
    <2>4. RunUndisturbed'
      BY <1>2, <2>1, <2>2 DEF RunUndisturbed, GroupRecorded, PlanOfMode, Refreshed
    <2> QED
      BY <2>3, <2>4
  <1>5. ASSUME NEW p \in Operator, Completes(p)
        PROVE  TfUndisturbed' /\ RunUndisturbed'
    BY <1>3, <1>5 DEF Completes
  <1>6. ASSUME NEW p \in Operator, Stops(p) \/ Ends(p)
        PROVE  TfUndisturbed' /\ RunUndisturbed'
    <2>1. \A q \in Operator : run'[q].stage # "running"
      BY <1>6, Gone
    <2>2. /\ UNCHANGED <<appState, live, drift, manifest>> /\ fresh' \subseteq fresh
          /\ \/ tf'.mode = tf.mode /\ tf'.change = tf.change /\ tf'.made = tf.made
             \/ tf' = NoTf
      BY <1>0, <1>6 DEF Stops, Ends, TypeOK, Terraform
    <2> QED
      BY <1>3, <2>1, <2>2
  <1>7. CASE TfEnds
    <2>1. /\ UNCHANGED <<appState, live, drift, manifest>> /\ fresh' = {} /\ fresh' \subseteq fresh
          /\ tf' = NoTf
      BY <1>7, NothingFresh DEF TfEnds
    <2>2. CASE UNCHANGED run
      BY <1>3, <2>1, <2>2
    <2>3. ASSUME NEW p \in Operator, tf.owner = p,
                 run' = [run EXCEPT ![p] = [run[p] EXCEPT !.at = @ + 1]]
          PROVE  TfUndisturbed' /\ RunUndisturbed'
      <3>1. run[p].stage = "running" /\ run[p] \in Run
        BY <1>0, <2>3 DEF OrderInv, ChildWaited, TypeOK
      <3>2. \A q \in Operator : run'[q].resources = run[q].resources /\ run'[q].stage = run[q].stage
        BY <1>0, <2>3, <3>1 DEF TypeOK, Run
      <3> QED
        BY <1>3, <2>1, <3>2
    <2> QED
      BY <1>7, <2>2, <2>3 DEF TfEnds
  <1>8. CASE Unmoved
    BY <1>3, <1>8 DEF Unmoved
  <1>9. ASSUME NEW p \in Operator, NEW s, Passes(p, s)
        PROVE  TfUndisturbed' /\ RunUndisturbed'
    BY <1>0, <1>2, <1>9, PassUndisturbed
  <1>10. ASSUME NEW r \in Resource, TfWorks(r), Works(r)
         PROVE  TfUndisturbed' /\ RunUndisturbed'
    BY <1>0, <1>2, <1>10, WorksUndisturbed
  <1> QED
    BY <1>0, <1>1, <1>4, <1>5, <1>6, <1>7, <1>8, <1>9, <1>10 DEF Move

(* Nothing is disturbed at first.                                          *)
LEMMA UndisturbedInit == Init => Undisturbed
  BY IdleFields, StateAssumption DEF Init, Undisturbed, TfUndisturbed, RunUndisturbed, PlanOfMode,
     Supported, GroupRecorded, NoTf, NothingToDo

(* As long as nothing but the lifecycle changes the tenant, a verified      *)
(* destroy is complete, for all that its own killed applies may leave.     *)
THEOREM UndisturbedDestroyIsComplete == Spec => [](faults = 0 => VerifiedDestroyIsComplete)
  <1>1. OrderInv /\ AbsenceInv /\ Undisturbed => (faults = 0 => VerifiedDestroyIsComplete)
    <2> SUFFICES ASSUME OrderInv, AbsenceInv, Undisturbed, faults = 0,
                        NEW p \in Operator, Verified(p, {"destroy"})
                 PROVE  appState = {} /\ \A r \in Azure : live[r] # "ours"
      BY DEF VerifiedDestroyIsComplete
    <2>1. Shown(p) /\ run[p].op = "destroy" /\ run[p].at \in 24..36 /\ run[p].at \in 23..36
      BY AtTheEnd
    <2>2. /\ appState = {} /\ manifest # None /\ manifest.owned \cap Azure # {}
          /\ Group \in manifest.owned => \A r \in Azure : live[r] # "ours"
      BY <2>1 DEF AbsenceInv, AbsenceShown
    <2>3. Group \in manifest.owned
      BY <2>2 DEF Undisturbed, RunUndisturbed, GroupRecorded
    <2> QED
      BY <2>2, <2>3
  <1> QED
    BY <1>1, OrderInit, OrderNext, AbsenceInit, AbsenceNext, UndisturbedInit, UndisturbedNext,
       PTL DEF Spec
=============================================================================
