------------------------ MODULE DemoLifecycle_proof ------------------------
(***************************************************************************)
(* Theorems about the demo lifecycle for any set of controllers, resources *)
(* and dependencies, and any bounds: type correctness, mutual exclusion    *)
(* under the operation lock, the pinning of the namespace uid in the       *)
(* receipt and in the ownership ledger, and the order of steps: where each *)
(* step stands in the program of an operation, what a step may write, and  *)
(* what therefore holds between a plan, its apply and the Terraform child  *)
(* that applies it.                                                        *)
(***************************************************************************)
EXTENDS DemoLifecycle, SequenceTheorems, TLAPS

-----------------------------------------------------------------------------
(* Facts about the records of the model.                                   *)

LEMMA IdleType == Idle \in Run
  <1>1. NoPlan \in Plan
    BY DEF NoPlan, Plan, NothingToDo, Mode, Change
  <1> QED
    BY <1>1 DEF Idle, Run, Operation

LEMMA NoTfType == NoTf \in Terraform
  BY DEF NoTf, NothingToDo, Mode, Change, Terraform

(* What Advance does to the type of run.                                   *)
LEMMA AdvanceType ==
  ASSUME TypeOK, NEW p \in Operator, NEW r \in Run, Advance(p, r)
  PROVE  run' \in [Operator -> Run] /\ opReceipt' \in {"none", "running", "verified", "blocked"}
  <1>1. [r EXCEPT !.at = @ + 1] \in Run
    BY DEF Run
  <1> QED
    BY <1>1 DEF Advance, TypeOK

(* A plan proposes a change for every resource.                            *)
LEMMA ProposedType ==
  ASSUME NEW mode, NEW replaced
  PROVE  Proposed(mode, replaced) \in [Resource -> Change]
  BY DEF Proposed, Change

-----------------------------------------------------------------------------
(* Type correctness, one lemma per group of actions.                       *)

(* Steps that change only the evidence of their controller.                *)
LEMMA EvidenceStepType ==
  ASSUME TypeOK, NEW p \in Operator,
         \/ namespace_observe(p) \/ namespace_gate(p, TRUE) \/ namespace_gate(p, FALSE)
         \/ namespace_exists(p) \/ namespace_plan(p) \/ app_init(p)
         \/ deployed_vars(p) \/ released_capacity(p) \/ guard_conflicts(p)
         \/ get_outputs(p) \/ inventory_read(p) \/ cleanup_access(p)
         \/ verify_readiness(p) \/ verify_acceptance(p) \/ verify_absence(p)
         \/ verify_fixture(p) \/ empty_state(p) \/ forget_outputs(p)
  PROVE  TypeOK'
  <1>0. run[p] \in Run
    BY DEF TypeOK
  <1>1. /\ [run[p] EXCEPT !.seen = liveUid] \in Run
        /\ [run[p] EXCEPT !.at = IF namespaceState THEN @ + ImportSteps ELSE @] \in Run
        /\ [run[p] EXCEPT !.appReady = TRUE] \in Run
        /\ [run[p] EXCEPT !.outputs = "showcase"] \in Run
        /\ [run[p] EXCEPT !.outputs = "none"] \in Run
        /\ [run[p] EXCEPT !.resources = appState] \in Run
        /\ [run[p] EXCEPT !.outputs = AccessTo(run[p].resources)] \in Run
    <2>1. liveUid \in Nat /\ appState \in SUBSET Resource
      BY DEF TypeOK
    <2>2. AccessTo(run[p].resources) \in {"none", "showcase", "generator"}
      BY DEF AccessTo
    <2>3. /\ [run[p] EXCEPT !.seen = liveUid] \in Run
          /\ [run[p] EXCEPT !.at = IF namespaceState THEN @ + ImportSteps ELSE @] \in Run
      BY <1>0, <2>1 DEF Run, ImportSteps
    <2>4. /\ [run[p] EXCEPT !.appReady = TRUE] \in Run
          /\ [run[p] EXCEPT !.outputs = "showcase"] \in Run
          /\ [run[p] EXCEPT !.outputs = "none"] \in Run
      BY <1>0 DEF Run
    <2>5. /\ [run[p] EXCEPT !.resources = appState] \in Run
          /\ [run[p] EXCEPT !.outputs = AccessTo(run[p].resources)] \in Run
      BY <1>0, <2>1, <2>2 DEF Run
    <2> QED
      BY <2>3, <2>4, <2>5
  <1>2. \E r \in Run : Advance(p, r) /\ Still
    <2>1. CASE \/ namespace_observe(p) \/ namespace_gate(p, TRUE) \/ namespace_gate(p, FALSE)
               \/ namespace_exists(p) \/ namespace_plan(p) \/ app_init(p)
      BY <1>0, <1>1, <2>1, Zenon DEF namespace_observe, namespace_gate, namespace_exists,
         namespace_plan, app_init
    <2>2. CASE \/ deployed_vars(p) \/ released_capacity(p) \/ guard_conflicts(p)
               \/ get_outputs(p) \/ inventory_read(p) \/ cleanup_access(p)
      BY <1>0, <1>1, <2>2, Zenon DEF deployed_vars, released_capacity, guard_conflicts,
         get_outputs, inventory_read, cleanup_access
    <2>3. CASE \/ verify_readiness(p) \/ verify_acceptance(p) \/ verify_absence(p)
               \/ verify_fixture(p) \/ empty_state(p) \/ forget_outputs(p)
      BY <1>0, <1>1, <2>3, Zenon DEF verify_readiness, verify_acceptance, verify_absence,
         verify_fixture, empty_state, forget_outputs
    <2> QED
      BY <2>1, <2>2, <2>3
  <1> QED
    BY <1>2, AdvanceType DEF Still, tenant, TypeOK

(* Steps that also write the private state directory or the tenant.        *)
LEMMA WritingStepType ==
  ASSUME TypeOK, NEW p \in Operator,
         \/ namespace_save(p) \/ namespace_import(p) \/ inventory_save(p)
         \/ traffic_start(p) \/ traffic_stop(p) \/ upload(p) \/ save_vars(p) \/ complete(p)
  PROVE  TypeOK'
  <1>0. run[p] \in Run
    BY DEF TypeOK
  <1>1. CASE namespace_save(p)
    <2>1. [run[p] EXCEPT !.uid = run[p].seen] \in Run /\ run[p].seen \in Nat
      BY <1>0 DEF Run
    <2> QED
      BY <1>1, <2>1, AdvanceType DEF namespace_save, tenant, TypeOK
  <1>2. CASE namespace_import(p)
    BY <1>0, <1>2, AdvanceType DEF namespace_import, tenant, TypeOK
  <1>3. CASE inventory_save(p)
    <2>1. [run[p] EXCEPT !.owned = run[p].resources] \in Run
      BY <1>0 DEF Run
    <2>2. manifest' \in [uid : Nat, owned : SUBSET Resource] \cup {None}
      BY <1>0, <1>3 DEF inventory_save, Run
    <2> QED
      BY <1>3, <2>1, <2>2, AdvanceType DEF inventory_save, tenant, TypeOK
  <1>4. CASE traffic_start(p)
    BY <1>0, <1>4, AdvanceType DEF traffic_start, TypeOK
  <1>5. CASE traffic_stop(p)
    <2>1. [run[p] EXCEPT !.stopped = @ \/ run[p].outputs # "none"] \in Run
      BY <1>0 DEF Run
    <2> QED
      BY <1>5, <2>1, AdvanceType DEF traffic_stop, TypeOK
  <1>6. CASE upload(p)
    BY <1>0, <1>6, AdvanceType DEF upload, TypeOK
  <1>7. CASE save_vars(p)
    BY <1>0, <1>7, AdvanceType DEF save_vars, tenant, TypeOK
  <1>8. CASE complete(p)
    <2>1. [run EXCEPT ![p].stage = "verified"] \in [Operator -> Run]
      BY <1>0 DEF TypeOK, Run
    <2> QED
      BY <1>8, <2>1 DEF complete, Still, tenant, TypeOK
  <1> QED
    BY <1>1, <1>2, <1>3, <1>4, <1>5, <1>6, <1>7, <1>8

(* Planning and applying.                                                  *)
LEMMA PlanStepType ==
  ASSUME TypeOK, NEW p \in Operator,
         \/ \E mode \in Mode : \E owned : plan(p, mode, owned)
         \/ apply_start(p)
  PROVE  TypeOK'
  <1>0. run[p] \in Run
    BY DEF TypeOK
  <1>1. ASSUME NEW mode \in Mode, NEW owned, plan(p, mode, owned)
        PROVE  TypeOK'
    <2>1. PICK replaced \in SUBSET drift :
             Advance(p, [run[p] EXCEPT !.plan =
               [mode |-> mode, change |-> Proposed(mode, replaced), prior |-> Refreshed]])
      BY <1>1 DEF plan
    <2>2. [mode |-> mode, change |-> Proposed(mode, replaced), prior |-> Refreshed] \in Plan
      BY ProposedType DEF Plan, Refreshed, TypeOK
    <2>3. [run[p] EXCEPT !.plan =
             [mode |-> mode, change |-> Proposed(mode, replaced), prior |-> Refreshed]] \in Run
      BY <1>0, <2>2 DEF Run
    <2> QED
      BY <1>1, <2>1, <2>3, AdvanceType DEF plan, tenant, TypeOK
  <1>2. CASE apply_start(p)
    <2>1. run[p].plan \in Plan
      BY <1>0 DEF Run
    <2> QED
      BY <1>0, <1>2, <2>1, AdvanceType DEF apply_start, Plan, Terraform, tenant, TypeOK
  <1> QED
    BY <1>1, <1>2

LEMMA StepType == ASSUME TypeOK, NEW p \in Operator, Step(p) PROVE TypeOK'
  BY EvidenceStepType, WritingStepType, PlanStepType DEF Step, Mode

(* The rest of a controller.                                               *)
LEMMA ControllerType == ASSUME TypeOK, NEW p \in Operator, ControllerNext(p) PROVE TypeOK'
  <1>0. run[p] \in Run
    BY DEF TypeOK
  <1>1. ASSUME NEW op \in Operation, acquire(p, op)
        PROVE  TypeOK'
    <2>1. NewRun(op) \in Run
      BY IdleType DEF NewRun, Run, TypeOK
    <2> QED
      BY <1>1, <2>1 DEF acquire, disk, tenant, TypeOK
  <1>2. CASE fail(p)
    <2>1. [run EXCEPT ![p].stage = "cleanup"] \in [Operator -> Run]
      BY <1>0 DEF TypeOK, Run
    <2> QED
      BY <1>2, <2>1, NoTfType DEF fail, disk, tenant, TypeOK
  <1>3. CASE cleanup_traffic(p)
    <2>1. /\ [run EXCEPT ![p].stage = "closing"] \in [Operator -> Run]
          /\ [run EXCEPT ![p].stage = "closing", ![p].stopped = TRUE] \in [Operator -> Run]
          /\ [run EXCEPT ![p].stage = "closing", ![p].note = TRUE] \in [Operator -> Run]
      BY <1>0 DEF TypeOK, Run
    <2>2. run' \in [Operator -> Run] /\ traffic' \in BOOLEAN
      BY <1>3, <2>1 DEF cleanup_traffic, cleanup_skips, cleanup_stops, cleanup_fails, TypeOK
    <2> QED
      BY <1>3, <2>2 DEF cleanup_traffic, disk, TypeOK
  <1>4. CASE release(p)
    BY <1>4, IdleType DEF release, tenant, TypeOK
  <1>5. CASE crash(p)
    <2>1. tf' \in Terraform
      BY <1>5 DEF crash, Terraform, TypeOK
    <2> QED
      BY <1>5, <2>1, IdleType DEF crash, disk, tenant, TypeOK
  <1> QED
    BY <1>1, <1>2, <1>3, <1>4, <1>5, StepType DEF ControllerNext

(* The Terraform child.                                                    *)
LEMMA TerraformType == ASSUME TypeOK, TerraformNext PROVE TypeOK'
  <1>1. ASSUME NEW r \in Resource, TfDelete(r)
        PROVE  TypeOK'
    BY <1>1 DEF TfDelete, TfQuiet, TypeOK
  <1>2. ASSUME NEW r \in Resource, TfForget(r)
        PROVE  TypeOK'
    <2>1. [tf EXCEPT !.change[r] = IF @ = "replace" THEN "create" ELSE "no-op"] \in Terraform
      BY DEF TypeOK, Change, Terraform
    <2> QED
      BY <1>2, <2>1 DEF TfForget, TfQuiet, TypeOK
  <1>3. ASSUME NEW r \in Resource, TfCreate(r)
        PROVE  TypeOK'
    <2>1. [tf EXCEPT !.made = @ \cup {r}] \in Terraform
      BY DEF TypeOK, Terraform
    <2> QED
      BY <1>3, <2>1 DEF TfCreate, TfQuiet, TypeOK
  <1>4. ASSUME NEW r \in Resource, TfRecord(r)
        PROVE  TypeOK'
    <2>1. [tf EXCEPT !.change[r] = "no-op", !.made = @ \ {r}] \in Terraform
      BY DEF TypeOK, Change, Terraform
    <2> QED
      BY <1>4, <2>1 DEF TfRecord, TfQuiet, TypeOK
  <1>5. ASSUME NEW r \in Resource, TfUpdate(r)
        PROVE  TypeOK'
    <2>1. [tf EXCEPT !.change[r] = "no-op"] \in Terraform
      BY DEF TypeOK, Change, Terraform
    <2> QED
      BY <1>5, <2>1 DEF TfUpdate, TfQuiet, TypeOK
  <1>6. CASE TfDone
    <2>1. tf.owner \in Operator => run[tf.owner] \in Run
      BY DEF TypeOK
    <2>2. /\ run' \in [Operator -> Run]
          /\ opReceipt' \in {"none", "running", "verified", "blocked"}
      BY <1>6, <2>1, AdvanceType DEF TfDone, TypeOK
    <2> QED
      BY <1>6, <2>2, NoTfType DEF TfDone, tenant, TypeOK
  <1>7. CASE TfError
    BY <1>7, NoTfType DEF TfError, disk, tenant, TypeOK
  <1> QED
    BY <1>1, <1>2, <1>3, <1>4, <1>5, <1>6, <1>7 DEF TerraformNext

(* The outside.                                                            *)
LEMMA OutsideType == ASSUME TypeOK, OutsideNext PROVE TypeOK'
  <1>0. faults' \in Nat /\ UNCHANGED <<disk, control, runs>>
    BY DEF OutsideNext, Outside, TypeOK
  <1>1. ASSUME NEW r \in Resource, ObjectDeleted(r)
        PROVE  TypeOK'
    BY <1>0, <1>1 DEF ObjectDeleted, disk, control, TypeOK
  <1>2. ASSUME NEW r \in Resource, ObjectCreated(r)
        PROVE  TypeOK'
    BY <1>0, <1>2 DEF ObjectCreated, disk, control, TypeOK
  <1>3. ASSUME NEW r \in Resource, ObjectDrifts(r)
        PROVE  TypeOK'
    BY <1>0, <1>3 DEF ObjectDrifts, disk, control, TypeOK
  <1>4. CASE NamespaceDeleted
    <2>1. live' \in [Resource -> {"absent", "ours", "foreign"}]
      BY <1>4 DEF NamespaceDeleted, TypeOK
    <2> QED
      BY <1>0, <1>4, <2>1 DEF NamespaceDeleted, disk, control, TypeOK
  <1>5. CASE NamespaceReplaced
    BY <1>0, <1>5 DEF NamespaceReplaced, disk, control, TypeOK
  <1>6. CASE NamespaceCreated
    BY <1>0, <1>6 DEF NamespaceCreated, disk, control, TypeOK
  <1>7. CASE StrangerCreated
    BY <1>0, <1>7 DEF StrangerCreated, disk, control, TypeOK
  <1>8. CASE FixtureChanged
    BY <1>0, <1>8 DEF FixtureChanged, disk, control, TypeOK
  <1> QED
    BY <1>1, <1>2, <1>3, <1>4, <1>5, <1>6, <1>7, <1>8 DEF OutsideNext

LEMMA InitType == Init => TypeOK
  <1> SUFFICES ASSUME Init
               PROVE  TypeOK
    OBVIOUS
  <1>1. run \in [Operator -> Run] /\ tf \in Terraform
    BY IdleType, NoTfType DEF Init
  <1>2. /\ live \in [Resource -> {"absent", "ours", "foreign"}]
        /\ drift \subseteq Resource /\ appState \subseteq Resource /\ fresh \subseteq Operator
    BY DEF Init
  <1> QED
    BY <1>1, <1>2 DEF Init, TypeOK

LEMMA NextType == TypeOK /\ [Next]_vars => TypeOK'
  <1> SUFFICES ASSUME TypeOK, [Next]_vars
               PROVE  TypeOK'
    OBVIOUS
  <1>1. CASE UNCHANGED vars
    BY <1>1 DEF vars, disk, control, tenant, TypeOK
  <1> QED
    BY <1>1, ControllerType, TerraformType, OutsideType DEF Next

(* Every reachable state has the types of the source's files and records:  *)
(* no operation, failure, crash or abandoned Terraform child leaves a      *)
(* malformed receipt, ledger or run behind.                                *)
THEOREM TypeCorrect == Spec => []TypeOK
  BY InitType, NextType, PTL DEF Spec

-----------------------------------------------------------------------------
(* The namespace evidence.                                                 *)

(* LedgerNamesPinnedNamespace is not inductive: the receipt and the ledger *)
(* are written from what a controller read earlier.  What is missing is    *)
(* that only the holder of the lock has evidence, and that its evidence    *)
(* agrees with both files whatever the tenant has become since.            *)
LockHolder == \A p \in Operator : Active(p) <=> lock = p

EvidenceOfHolder ==
  \A p \in Operator : ~Active(p) => run[p].seen = 0 /\ run[p].uid = 0

SeenAgrees ==
  \A p \in Operator : run[p].seen # 0 =>
    /\ namespaceReceipt \in {0, run[p].seen}
    /\ manifest # None => manifest.uid = run[p].seen

UidAgrees == \A p \in Operator : run[p].uid # 0 => namespaceReceipt = run[p].uid

PinInv ==
  /\ TypeOK
  /\ LockHolder
  /\ EvidenceOfHolder
  /\ SeenAgrees
  /\ UidAgrees
  /\ liveUid # 0
  /\ LedgerNamesPinnedNamespace

(* Steps that touch neither the evidence nor the files it is compared with.*)
LEMMA QuietStep ==
  ASSUME PinInv, TypeOK', UNCHANGED <<lock, namespaceReceipt, manifest>>, liveUid' # 0,
         \A q \in Operator : /\ run'[q].seen = run[q].seen
                             /\ run'[q].uid = run[q].uid
                             /\ run'[q].stage = "idle" <=> run[q].stage = "idle"
  PROVE  PinInv'
  BY DEF PinInv, LockHolder, EvidenceOfHolder, SeenAgrees, UidAgrees,
     LedgerNamesPinnedNamespace, Active

LEMMA StepRunning == ASSUME NEW p \in Operator, Step(p) PROVE run[p].stage = "running"
  BY DEF Step, At

(* What the steps other than observe and save leave alone.                 *)
LEMMA AdvanceQuiet ==
  ASSUME TypeOK, NEW p \in Operator, NEW r \in Run, Advance(p, r),
         r.seen = run[p].seen, r.uid = run[p].uid, r.stage = run[p].stage
  PROVE  \A q \in Operator : /\ run'[q].seen = run[q].seen
                             /\ run'[q].uid = run[q].uid
                             /\ run'[q].stage = "idle" <=> run[q].stage = "idle"
  <1>1. [r EXCEPT !.at = @ + 1].seen = r.seen /\ [r EXCEPT !.at = @ + 1].uid = r.uid
          /\ [r EXCEPT !.at = @ + 1].stage = r.stage
    BY DEF Run
  <1> QED
    BY <1>1 DEF Advance, TypeOK

(* The GET of the namespace agrees with the receipt and the ledger.        *)
LEMMA ObservePin ==
  ASSUME PinInv, TypeOK', NEW p \in Operator, run[p].stage = "running", namespace_observe(p)
  PROVE  PinInv'
  <1>0. TypeOK /\ run[p] \in Run
    BY DEF PinInv, TypeOK
  <1>1. /\ run'[p].seen = liveUid
        /\ run'[p].uid = run[p].uid
        /\ run'[p].stage = run[p].stage
    BY <1>0 DEF namespace_observe, Advance, TypeOK, Run
  <1>2. \A q \in Operator \ {p} : run'[q] = run[q]
    BY <1>0 DEF namespace_observe, Advance, TypeOK
  <1>3. UNCHANGED <<lock, namespaceReceipt, manifest, liveUid>>
    BY DEF namespace_observe, Still, tenant
  <1>4. namespaceReceipt \in {0, liveUid} /\ (manifest # None => manifest.uid = liveUid)
    BY DEF namespace_observe
  <1>5. LockHolder' /\ EvidenceOfHolder'
    BY <1>1, <1>2, <1>3 DEF PinInv, LockHolder, EvidenceOfHolder, Active
  <1>6. SeenAgrees' /\ UidAgrees'
    BY <1>1, <1>2, <1>3, <1>4 DEF PinInv, SeenAgrees, UidAgrees
  <1> QED
    BY <1>3, <1>5, <1>6 DEF PinInv, LedgerNamesPinnedNamespace

(* The uid that was read is pinned: nobody else has evidence, and a         *)
(* receipt that exists already has this uid.                               *)
LEMMA SavePin ==
  ASSUME PinInv, TypeOK', NEW p \in Operator, run[p].stage = "running", namespace_save(p)
  PROVE  PinInv' /\ (namespaceReceipt # 0 => namespaceReceipt' = namespaceReceipt)
  <1>0. TypeOK /\ run[p] \in Run
    BY DEF PinInv, TypeOK
  <1>1. /\ run'[p].seen = run[p].seen
        /\ run'[p].uid = run[p].seen
        /\ run'[p].stage = run[p].stage
    BY <1>0 DEF namespace_save, Advance, TypeOK, Run
  <1>2. \A q \in Operator \ {p} : run'[q] = run[q]
    BY <1>0 DEF namespace_save, Advance, TypeOK
  <1>3. UNCHANGED <<lock, manifest, liveUid>> /\ namespaceReceipt' = run[p].seen
    BY DEF namespace_save, tenant
  <1>4. /\ run[p].seen # 0 /\ namespaceReceipt \in {0, run[p].seen}
        /\ manifest # None => manifest.uid = run[p].seen
    BY DEF namespace_save, PinInv, SeenAgrees
  <1>5. \A q \in Operator \ {p} : run[q].seen = 0 /\ run[q].uid = 0
    BY DEF PinInv, LockHolder, EvidenceOfHolder, Active
  <1>6. LockHolder' /\ EvidenceOfHolder'
    BY <1>1, <1>2, <1>3 DEF PinInv, LockHolder, EvidenceOfHolder, Active
  <1>7. SeenAgrees' /\ UidAgrees'
    BY <1>1, <1>2, <1>3, <1>4, <1>5 DEF SeenAgrees, UidAgrees
  <1>8. LedgerNamesPinnedNamespace'
    BY <1>3, <1>4 DEF PinInv, LedgerNamesPinnedNamespace
  <1> QED
    BY <1>3, <1>4, <1>6, <1>7, <1>8 DEF PinInv

(* The ledger is written with a uid that is this run's and the receipt's.  *)
LEMMA InventoryPin ==
  ASSUME PinInv, TypeOK', NEW p \in Operator, run[p].stage = "running", inventory_save(p)
  PROVE  PinInv'
  <1>0. TypeOK /\ run[p] \in Run
    BY DEF PinInv, TypeOK
  <1>1. /\ run'[p].seen = run[p].seen
        /\ run'[p].uid = run[p].uid
        /\ run'[p].stage = run[p].stage
    BY <1>0 DEF inventory_save, Advance, TypeOK, Run
  <1>2. \A q \in Operator \ {p} : run'[q] = run[q]
    BY <1>0 DEF inventory_save, Advance, TypeOK
  <1>3. UNCHANGED <<lock, namespaceReceipt, liveUid>> /\ manifest'.uid = run[p].uid
    BY DEF inventory_save, tenant
  <1>4. run[p].uid # 0 /\ namespaceReceipt = run[p].uid
    BY DEF inventory_save, PinInv, UidAgrees
  <1>5. \A q \in Operator \ {p} : run[q].seen = 0 /\ run[q].uid = 0
    BY DEF PinInv, LockHolder, EvidenceOfHolder, Active
  <1>6. LockHolder' /\ EvidenceOfHolder' /\ UidAgrees'
    BY <1>1, <1>2, <1>3 DEF PinInv, LockHolder, EvidenceOfHolder, UidAgrees, Active
  <1>7. SeenAgrees'
    BY <1>1, <1>2, <1>3, <1>4, <1>5 DEF PinInv, SeenAgrees
  <1> QED
    BY <1>3, <1>4, <1>6, <1>7 DEF PinInv, LedgerNamesPinnedNamespace

(* Steps that change other evidence of their controller, or other files.   *)
LEMMA OtherStepPin ==
  ASSUME PinInv, TypeOK', NEW p \in Operator, run[p].stage = "running",
         \/ namespace_gate(p, TRUE) \/ namespace_gate(p, FALSE)
         \/ namespace_exists(p) \/ namespace_import(p) \/ namespace_plan(p) \/ app_init(p)
         \/ deployed_vars(p) \/ released_capacity(p) \/ upload(p) \/ save_vars(p)
         \/ (\E mode \in Mode : \E owned : plan(p, mode, owned))
         \/ guard_conflicts(p) \/ apply_start(p) \/ get_outputs(p)
         \/ inventory_read(p) \/ cleanup_access(p)
         \/ traffic_start(p) \/ traffic_stop(p)
         \/ verify_readiness(p) \/ verify_acceptance(p) \/ verify_absence(p)
         \/ verify_fixture(p) \/ empty_state(p) \/ forget_outputs(p)
  PROVE  PinInv' /\ UNCHANGED namespaceReceipt
  <1>0. TypeOK /\ run[p] \in Run
    BY DEF PinInv, TypeOK
  <1>1. /\ UNCHANGED <<lock, namespaceReceipt, manifest, liveUid>>
        /\ \E r : /\ Advance(p, r)
                  /\ r \in Run
                  /\ r.seen = run[p].seen /\ r.uid = run[p].uid /\ r.stage = run[p].stage
    <2>1. CASE \/ namespace_gate(p, TRUE) \/ namespace_gate(p, FALSE)
               \/ namespace_import(p) \/ namespace_plan(p)
      BY <1>0, <2>1 DEF namespace_gate, namespace_import, namespace_plan, Still, tenant
    <2>2. CASE namespace_exists(p)
      <3> DEFINE r == [run[p] EXCEPT !.at = IF namespaceState THEN @ + ImportSteps ELSE @]
      <3>1. /\ r \in Run /\ r.seen = run[p].seen /\ r.uid = run[p].uid
            /\ r.stage = run[p].stage
        BY <1>0 DEF Run, ImportSteps
      <3> HIDE DEF r
      <3>2. Advance(p, r)
        BY <2>2 DEF namespace_exists, r
      <3> QED
        BY <2>2, <3>1, <3>2 DEF namespace_exists, Still, tenant
    <2>3. CASE app_init(p) \/ get_outputs(p) \/ forget_outputs(p)
      <3>1. PICK r \in {[run[p] EXCEPT !.appReady = TRUE],
                       [run[p] EXCEPT !.outputs = "showcase"],
                       [run[p] EXCEPT !.outputs = "none"]} : Advance(p, r)
        BY <2>3 DEF app_init, get_outputs, forget_outputs
      <3>2. r \in Run /\ r.seen = run[p].seen /\ r.uid = run[p].uid /\ r.stage = run[p].stage
        BY <1>0 DEF Run
      <3> QED
        BY <2>3, <3>1, <3>2 DEF app_init, get_outputs, forget_outputs, Still, tenant
    <2>4. CASE \/ deployed_vars(p) \/ released_capacity(p) \/ guard_conflicts(p)
               \/ upload(p) \/ save_vars(p)
      BY <1>0, <2>4 DEF deployed_vars, released_capacity, guard_conflicts, upload, save_vars,
         Still, tenant
    <2>5. CASE \E mode \in Mode : \E owned : plan(p, mode, owned)
      <3>1. PICK mode \in Mode, replaced \in SUBSET drift :
               Advance(p, [run[p] EXCEPT !.plan =
                 [mode |-> mode, change |-> Proposed(mode, replaced), prior |-> Refreshed]])
        BY <2>5 DEF plan
      <3> DEFINE q == [mode |-> mode, change |-> Proposed(mode, replaced), prior |-> Refreshed]
      <3>2. q \in Plan
        BY <1>0, ProposedType DEF Plan, Refreshed, TypeOK
      <3> HIDE DEF q
      <3>3. /\ [run[p] EXCEPT !.plan = q] \in Run
            /\ [run[p] EXCEPT !.plan = q].seen = run[p].seen
            /\ [run[p] EXCEPT !.plan = q].uid = run[p].uid
            /\ [run[p] EXCEPT !.plan = q].stage = run[p].stage
        BY <1>0, <3>2 DEF Run
      <3> QED
        BY <2>5, <3>1, <3>3 DEF plan, tenant, q
    <2>6. CASE apply_start(p)
      BY <1>0, <2>6 DEF apply_start, tenant
    <2>7. CASE inventory_read(p) \/ cleanup_access(p)
      <3>1. PICK r \in {[run[p] EXCEPT !.resources = appState],
                       [run[p] EXCEPT !.outputs = AccessTo(run[p].resources)]} : Advance(p, r)
        BY <2>7 DEF inventory_read, cleanup_access
      <3>2. r \in Run /\ r.seen = run[p].seen /\ r.uid = run[p].uid /\ r.stage = run[p].stage
        <4>1. appState \in SUBSET Resource
          BY <1>0 DEF TypeOK
        <4>2. AccessTo(run[p].resources) \in {"none", "showcase", "generator"}
          BY DEF AccessTo
        <4>3. CASE r = [run[p] EXCEPT !.resources = appState]
          BY <1>0, <4>1, <4>3 DEF Run
        <4>4. CASE r = [run[p] EXCEPT !.outputs = AccessTo(run[p].resources)]
          BY <1>0, <4>2, <4>4 DEF Run
        <4> QED
          BY <3>1, <4>3, <4>4
      <3> QED
        BY <2>7, <3>1, <3>2 DEF inventory_read, cleanup_access, Still, tenant
    <2>8. CASE traffic_start(p)
      BY <1>0, <2>8 DEF traffic_start
    <2>9. CASE traffic_stop(p)
      <3>1. Advance(p, [run[p] EXCEPT !.stopped = @ \/ run[p].outputs # "none"])
        BY <2>9 DEF traffic_stop
      <3>2. (run[p].stopped \/ run[p].outputs # "none") \in BOOLEAN
        OBVIOUS
      <3> DEFINE r == [run[p] EXCEPT !.stopped = @ \/ run[p].outputs # "none"]
      <3>3. r \in Run /\ r.seen = run[p].seen /\ r.uid = run[p].uid /\ r.stage = run[p].stage
        BY <1>0, <3>2 DEF Run
      <3> HIDE DEF r
      <3>4. Advance(p, r)
        BY <3>1 DEF r
      <3>5. UNCHANGED <<lock, namespaceReceipt, manifest, liveUid>>
        BY <2>9 DEF traffic_stop
      <3> QED
        BY <3>3, <3>4, <3>5
    <2>10. CASE \/ verify_readiness(p) \/ verify_acceptance(p) \/ verify_absence(p)
                \/ verify_fixture(p) \/ empty_state(p)
      BY <1>0, <2>10 DEF verify_readiness, verify_acceptance, verify_absence,
         verify_fixture, empty_state, Still, tenant
    <2> QED
      BY <2>1, <2>2, <2>3, <2>4, <2>5, <2>6, <2>7, <2>8, <2>9, <2>10
  <1>2. liveUid' # 0
    BY <1>1 DEF PinInv
  <1> QED
    BY <1>0, <1>1, <1>2, AdvanceQuiet, QuietStep

LEMMA StepPin ==
  ASSUME PinInv, TypeOK', NEW p \in Operator, Step(p)
  PROVE  PinInv' /\ (namespaceReceipt # 0 => namespaceReceipt' = namespaceReceipt)
  <1>0. run[p].stage = "running"
    BY StepRunning
  <1>1. CASE namespace_observe(p)
    <2>1. UNCHANGED namespaceReceipt
      BY <1>1 DEF namespace_observe, Still
    <2> QED
      BY <1>0, <1>1, <2>1, ObservePin
  <1>2. CASE namespace_save(p)
    BY <1>0, <1>2, SavePin
  <1>3. CASE inventory_save(p)
    <2>1. UNCHANGED namespaceReceipt
      BY <1>3 DEF inventory_save
    <2> QED
      BY <1>0, <1>3, <2>1, InventoryPin
  <1>4. CASE complete(p)
    <2>1. /\ UNCHANGED <<lock, namespaceReceipt, manifest, liveUid>>
          /\ run' = [run EXCEPT ![p].stage = "verified"]
      BY <1>4 DEF complete, Still, tenant
    <2>2. \A q \in Operator : /\ run'[q].seen = run[q].seen
                              /\ run'[q].uid = run[q].uid
                              /\ run'[q].stage = "idle" <=> run[q].stage = "idle"
      BY <1>0, <2>1 DEF PinInv, TypeOK, Run
    <2> QED
      BY <2>1, <2>2, QuietStep DEF PinInv
  <1> QED
    BY <1>0, <1>1, <1>2, <1>3, <1>4, OtherStepPin DEF Step, Mode

(* Taking the lock starts without evidence; releasing it, by return or by   *)
(* death, leaves none.                                                     *)
LEMMA ControllerPin ==
  ASSUME PinInv, TypeOK', NEW p \in Operator, ControllerNext(p)
  PROVE  PinInv' /\ (namespaceReceipt # 0 => namespaceReceipt' = namespaceReceipt)
  <1>0. TypeOK /\ run[p] \in Run
    BY DEF PinInv, TypeOK
  <1>1. ASSUME NEW op \in Operation, acquire(p, op)
        PROVE  PinInv' /\ UNCHANGED namespaceReceipt
    <2>1. /\ lock = None /\ lock' = p /\ run' = [run EXCEPT ![p] = NewRun(op)]
          /\ UNCHANGED <<namespaceReceipt, manifest, liveUid>>
      BY <1>1 DEF acquire, disk, tenant
    <2>2. NewRun(op).seen = 0 /\ NewRun(op).uid = 0 /\ NewRun(op).stage = "running"
      BY DEF NewRun, Idle
    <2>3. \A q \in Operator : ~Active(q) /\ run[q].seen = 0 /\ run[q].uid = 0
      BY <2>1, StateAssumption DEF PinInv, LockHolder, EvidenceOfHolder
    <2>4. LockHolder' /\ EvidenceOfHolder'
      BY <1>0, <2>1, <2>2, <2>3 DEF LockHolder, EvidenceOfHolder, Active, TypeOK
    <2>5. SeenAgrees' /\ UidAgrees'
      BY <1>0, <2>1, <2>2, <2>3 DEF SeenAgrees, UidAgrees, TypeOK
    <2> QED
      BY <2>1, <2>4, <2>5 DEF PinInv, LedgerNamesPinnedNamespace
  <1>2. CASE fail(p) \/ cleanup_traffic(p)
    <2>1. UNCHANGED <<lock, namespaceReceipt, manifest, liveUid>>
      BY <1>2 DEF fail, cleanup_traffic, disk, tenant
    <2>2. \/ run' = [run EXCEPT ![p].stage = "cleanup"]
          \/ run' = [run EXCEPT ![p].stage = "closing"]
          \/ run' = [run EXCEPT ![p].stage = "closing", ![p].stopped = TRUE]
          \/ run' = [run EXCEPT ![p].stage = "closing", ![p].note = TRUE]
      BY <1>2 DEF fail, cleanup_traffic, cleanup_skips, cleanup_stops, cleanup_fails
    <2>3. run[p].stage # "idle"
      BY <1>2 DEF fail, cleanup_traffic
    <2>4. \A q \in Operator : /\ run'[q].seen = run[q].seen
                              /\ run'[q].uid = run[q].uid
                              /\ run'[q].stage = "idle" <=> run[q].stage = "idle"
      BY <1>0, <2>2, <2>3 DEF TypeOK, Run
    <2> QED
      BY <2>1, <2>4, QuietStep DEF PinInv
  <1>3. CASE release(p) \/ crash(p)
    <2>1. /\ lock' = None /\ run' = [run EXCEPT ![p] = Idle]
          /\ UNCHANGED <<namespaceReceipt, manifest, liveUid>>
      BY <1>3 DEF release, crash, disk, tenant
    <2>2. Idle.seen = 0 /\ Idle.uid = 0 /\ Idle.stage = "idle"
      BY DEF Idle
    <2>3. Active(p)
      BY <1>3 DEF release, crash, Active
    <2>4. \A q \in Operator : lock' # q
      BY <2>1, StateAssumption
    <2>5. \A q \in Operator \ {p} : ~Active(q)
      BY <2>3 DEF PinInv, LockHolder
    <2>6. LockHolder' /\ EvidenceOfHolder'
      BY <1>0, <2>1, <2>2, <2>4, <2>5 DEF PinInv, LockHolder, EvidenceOfHolder, Active, TypeOK
    <2>7. SeenAgrees' /\ UidAgrees'
      BY <1>0, <2>1, <2>2 DEF PinInv, SeenAgrees, UidAgrees, TypeOK
    <2> QED
      BY <2>1, <2>6, <2>7 DEF PinInv, LedgerNamesPinnedNamespace
  <1>4. CASE Step(p)
    BY <1>4, StepPin
  <1> QED
    BY <1>1, <1>2, <1>3, <1>4 DEF ControllerNext

(* Neither a Terraform child, abandoned or not, nor the outside reaches     *)
(* the files and the evidence.                                             *)
LEMMA TerraformPin ==
  ASSUME PinInv, TypeOK', TerraformNext
  PROVE  PinInv' /\ UNCHANGED namespaceReceipt
  <1>0. TypeOK /\ liveUid # 0
    BY DEF PinInv
  <1>1. CASE TfDone
    <2>1. UNCHANGED <<lock, namespaceReceipt, manifest, liveUid>>
      BY <1>1 DEF TfDone, tenant
    <2>2. \A q \in Operator : /\ run'[q].seen = run[q].seen
                              /\ run'[q].uid = run[q].uid
                              /\ run'[q].stage = "idle" <=> run[q].stage = "idle"
      <3>1. CASE tf.owner \in Operator
        <4>1. run[tf.owner] \in Run /\ Advance(tf.owner, run[tf.owner])
          BY <1>0, <1>1, <3>1 DEF TfDone, TypeOK
        <4> QED
          BY <1>0, <3>1, <4>1, AdvanceQuiet
      <3>2. CASE tf.owner \notin Operator
        BY <1>1, <3>2 DEF TfDone
      <3> QED
        BY <3>1, <3>2
    <2> QED
      BY <1>0, <2>1, <2>2, QuietStep
  <1>2. CASE TfError
    BY <1>0, <1>2, QuietStep DEF TfError, disk, tenant
  <1>3. CASE \E r \in Resource : \/ TfDelete(r) \/ TfForget(r)
                                \/ TfCreate(r) \/ TfRecord(r) \/ TfUpdate(r)
    <2>1. TfQuiet
      BY <1>3 DEF TfDelete, TfForget, TfCreate, TfRecord, TfUpdate
    <2> QED
      BY <1>0, <2>1, QuietStep DEF TfQuiet
  <1> QED
    BY <1>1, <1>2, <1>3 DEF TerraformNext

LEMMA OutsidePin ==
  ASSUME PinInv, TypeOK', OutsideNext
  PROVE  PinInv' /\ UNCHANGED namespaceReceipt
  <1>1. UNCHANGED <<lock, run, namespaceReceipt, manifest>>
    BY DEF OutsideNext, Outside, disk, control
  <1>2. liveUid' \in {liveUid, liveUid + 1}
    BY DEF OutsideNext, NamespaceDeleted, NamespaceReplaced, NamespaceCreated, StrangerCreated,
       FixtureChanged, ObjectDeleted, ObjectCreated, ObjectDrifts
  <1>3. liveUid' # 0
    BY <1>2 DEF PinInv, TypeOK
  <1> QED
    BY <1>1, <1>3, QuietStep

LEMMA PinInvInit == Init => PinInv
  <1> SUFFICES ASSUME Init
               PROVE  PinInv
    OBVIOUS
  <1>1. TypeOK
    BY InitType
  <1>2. \A p \in Operator : run[p].stage = "idle" /\ run[p].seen = 0 /\ run[p].uid = 0
    BY DEF Init, Idle
  <1>3. \A p \in Operator : lock # p
    BY StateAssumption DEF Init
  <1>4. LockHolder /\ EvidenceOfHolder /\ SeenAgrees /\ UidAgrees
    BY <1>2, <1>3 DEF LockHolder, EvidenceOfHolder, SeenAgrees, UidAgrees, Active
  <1> QED
    BY <1>1, <1>4 DEF PinInv, LedgerNamesPinnedNamespace, Init

LEMMA PinInvNext ==
  PinInv /\ [Next]_vars =>
    PinInv' /\ (namespaceReceipt # 0 => namespaceReceipt' = namespaceReceipt)
  <1> SUFFICES ASSUME PinInv, [Next]_vars
               PROVE  PinInv' /\ (namespaceReceipt # 0 => namespaceReceipt' = namespaceReceipt)
    OBVIOUS
  <1>1. TypeOK'
    BY NextType DEF PinInv
  <1>2. CASE UNCHANGED vars
    BY <1>1, <1>2, QuietStep DEF vars, disk, control, tenant, PinInv
  <1>3. CASE Next
    BY <1>1, <1>3, ControllerPin, TerraformPin, OutsidePin DEF Next
  <1> QED
    BY <1>2, <1>3

(* At most one controller is past the operation lock, and it holds it:      *)
(* two controllers never interleave their steps, whatever fails or dies.   *)
THEOREM LockExcludes == Spec => []MutualExclusion
  <1>1. PinInv => MutualExclusion
    BY DEF PinInv, LockHolder, MutualExclusion
  <1> QED
    BY <1>1, PinInvInit, PinInvNext, PTL DEF Spec

(* The ownership ledger names the namespace of namespace-receipt.json,      *)
(* however often the namespace was deleted and created again.              *)
THEOREM LedgerPinned == Spec => []LedgerNamesPinnedNamespace
  <1>1. PinInv => LedgerNamesPinnedNamespace
    BY DEF PinInv
  <1> QED
    BY <1>1, PinInvInit, PinInvNext, PTL DEF Spec

(* A uid once written to namespace-receipt.json is never replaced.          *)
THEOREM ReceiptPinned == Spec => UidPinned
  <1>1. PinInv /\ [Next]_vars => [namespaceReceipt # 0 => namespaceReceipt' = namespaceReceipt]_vars
    BY PinInvNext
  <1> QED
    BY <1>1, PinInvInit, PinInvNext, PTL DEF Spec, UidPinned

-----------------------------------------------------------------------------
(* Where the steps of an operation are.  A program is a concatenation; the *)
(* lemmas of this section spell it out.                                    *)
StepName ==
  {"namespace_observe", "namespace_save", "namespace_gate_create",
   "namespace_exists", "namespace_import", "namespace_plan", "app_init",
   "upload", "save_vars", "plan_application", "guard_conflicts", "apply",
   "applied", "get_outputs", "inventory_read", "inventory_save", "readiness",
   "traffic_start", "acceptance", "plan_noop", "complete", "namespace_gate",
   "deployed_vars", "cleanup_access", "traffic_stop", "plan_destroy",
   "empty_state", "absence", "verify_fixture", "forget_outputs",
   "released_capacity"}

FirstSteps(u, n) == SubSeq(u, 1, n)

(* In the sequence u, the steps from n + 1 to m are those of t.            *)
Fits(u, n, t, m) ==
  /\ n \in Nat /\ m = n + Len(t) /\ m <= Len(u)
  /\ \A i \in 1..Len(t) : u[n + i] = t[i]

(* The first n steps of u, followed by t, are the first m.                 *)
Laid(u, n, t, m) ==
  /\ FirstSteps(u, n) \o t = FirstSteps(u, m)
  /\ n = 0 => t = FirstSteps(u, m)
  /\ m = Len(u) => FirstSteps(u, m) = u

(* A stretch of u that holds the steps of t extends the stretch before it. *)
LEMMA Lay ==
  ASSUME NEW u \in Seq(StepName), NEW t \in Seq(StepName), NEW n, NEW m, Fits(u, n, t, m)
  PROVE  Laid(u, n, t, m)
  <1>1. Len(u) \in Nat /\ Len(t) \in Nat /\ n \in Nat /\ m \in Nat /\ n <= m
    BY LenProperties DEF Fits
  <1>2. \A i \in 1..Len(u) : u[i] \in StepName
    BY ElementOfSeq
  <1> DEFINE s == FirstSteps(u, n)  v == FirstSteps(u, m)
  <1>3. s \in Seq(StepName) /\ Len(s) = n /\ \A i \in 1..n : s[i] = u[i]
    <2>1. \A i \in 1..n : u[i] \in StepName
      BY <1>1, <1>2 DEF Fits
    <2> QED
      BY <1>1, <2>1, SubSeqProperties DEF FirstSteps
  <1>4. v \in Seq(StepName) /\ Len(v) = m /\ \A i \in 1..m : v[i] = u[i]
    <2>1. \A i \in 1..m : u[i] \in StepName
      BY <1>1, <1>2 DEF Fits
    <2> QED
      BY <1>1, <2>1, SubSeqProperties DEF FirstSteps
  <1> HIDE DEF s, v
  <1>5. s \o t = v
    <2>1. /\ s \o t \in Seq(StepName) /\ Len(s \o t) = m
          /\ \A i \in 1..m : (s \o t)[i] = IF i <= n THEN s[i] ELSE t[i - n]
      BY <1>3, ConcatProperties DEF Fits
    <2>2. ASSUME NEW i \in 1..m
          PROVE  (s \o t)[i] = v[i]
      <3>1. CASE i <= n
        BY <1>1, <1>3, <1>4, <2>1, <3>1
      <3>2. CASE i > n
        <4>1. i - n \in 1..Len(t) /\ n + (i - n) = i
          BY <1>1, <3>2 DEF Fits
        <4>2. u[n + (i - n)] = t[i - n]
          BY <4>1 DEF Fits
        <4>3. (s \o t)[i] = t[i - n]
          BY <1>1, <2>1, <3>2
        <4>4. v[i] = u[i]
          BY <1>4
        <4> QED
          BY <4>1, <4>2, <4>3, <4>4
      <3>3. i <= n \/ i > n
        BY <1>1
      <3> QED
        BY <3>1, <3>2, <3>3
    <2> QED
      BY <1>4, <2>1, <2>2, SeqEqual
  <1>6. n = 0 => t = v
    <2>1. \A i \in 1..m : n = 0 => u[i] = t[i]
      BY <1>1 DEF Fits
    <2> QED
      BY <1>1, <1>4, <2>1, SeqEqual DEF Fits
  <1>7. m = Len(u) => v = u
    BY <1>4, SeqEqual
  <1> QED
    BY <1>5, <1>6, <1>7 DEF s, v, Laid

NamespaceSteps ==
  <<"namespace_gate", "namespace_observe", "namespace_save",
    "namespace_exists", "namespace_observe", "namespace_save",
    "namespace_import", "namespace_plan", "namespace_observe",
    "namespace_save">>

(* Without create the import is in the program, and is skipped.            *)
LEMMA NamespaceSpelled == NamespaceTf(FALSE) = NamespaceSteps
  <1> DEFINE a == <<"namespace_gate">>
             b == Prepare
             c == <<"namespace_exists">>
             d == <<"namespace_import", "namespace_plan">>
  <1>1. /\ NamespaceSteps \in Seq(StepName) /\ a \in Seq(StepName) /\ b \in Seq(StepName)
        /\ c \in Seq(StepName) /\ d \in Seq(StepName)
    BY DEF NamespaceSteps, StepName, Prepare
  <1>2. /\ Fits(NamespaceSteps, 0, a, 1)
        /\ Fits(NamespaceSteps, 1, b, 3)
        /\ Fits(NamespaceSteps, 3, c, 4)
        /\ Fits(NamespaceSteps, 4, b, 6)
        /\ Fits(NamespaceSteps, 6, d, 8)
        /\ Fits(NamespaceSteps, 8, b, 10)
        /\ Len(NamespaceSteps) = 10
    BY DEF NamespaceSteps, Fits, Prepare
  <1>3. NamespaceTf(FALSE) = a \o b \o c \o b \o d \o b
    BY DEF NamespaceTf
  <1> HIDE DEF a, b, c, d
  <1>4. \A t \in {a, b, c, d} : \A m, n : Fits(NamespaceSteps, m, t, n) => Laid(NamespaceSteps, m, t, n)
    BY <1>1, Lay
  <1>5. /\ Laid(NamespaceSteps, 0, a, 1)
        /\ Laid(NamespaceSteps, 1, b, 3)
        /\ Laid(NamespaceSteps, 3, c, 4)
        /\ Laid(NamespaceSteps, 4, b, 6)
        /\ Laid(NamespaceSteps, 6, d, 8)
        /\ Laid(NamespaceSteps, 8, b, 10)
    BY <1>2, <1>4, Zenon
  <1>6. /\ a = FirstSteps(NamespaceSteps, 1)
        /\ FirstSteps(NamespaceSteps, 1) \o b = FirstSteps(NamespaceSteps, 3)
        /\ FirstSteps(NamespaceSteps, 3) \o c = FirstSteps(NamespaceSteps, 4)
        /\ FirstSteps(NamespaceSteps, 4) \o b = FirstSteps(NamespaceSteps, 6)
        /\ FirstSteps(NamespaceSteps, 6) \o d = FirstSteps(NamespaceSteps, 8)
        /\ FirstSteps(NamespaceSteps, 8) \o b = NamespaceSteps
    BY <1>2, <1>5, Zenon DEF Laid
  <1> QED
    BY <1>3, <1>6

FoundationSteps ==
  <<"namespace_gate_create", "namespace_observe", "namespace_save",
    "namespace_exists", "namespace_observe", "namespace_save",
    "namespace_import", "namespace_plan", "namespace_observe",
    "namespace_save", "namespace_observe", "namespace_save">>

(* With create the namespace is read twice at the end.                     *)
LEMMA FoundationSpelled == NamespaceTf(TRUE) = FoundationSteps
  <1> DEFINE a == <<"namespace_gate_create">>
             b == Prepare
             c == <<"namespace_exists">>
             d == <<"namespace_import", "namespace_plan">>
  <1>1. /\ FoundationSteps \in Seq(StepName) /\ a \in Seq(StepName) /\ b \in Seq(StepName)
        /\ c \in Seq(StepName) /\ d \in Seq(StepName)
    BY DEF FoundationSteps, StepName, Prepare
  <1>2. /\ Fits(FoundationSteps, 0, a, 1)
        /\ Fits(FoundationSteps, 1, b, 3)
        /\ Fits(FoundationSteps, 3, c, 4)
        /\ Fits(FoundationSteps, 4, b, 6)
        /\ Fits(FoundationSteps, 6, d, 8)
        /\ Fits(FoundationSteps, 8, b, 10)
        /\ Fits(FoundationSteps, 10, b, 12)
        /\ Len(FoundationSteps) = 12
    BY DEF FoundationSteps, Fits, Prepare
  <1>3. NamespaceTf(TRUE) = a \o b \o c \o b \o d \o b \o b
    BY DEF NamespaceTf
  <1> HIDE DEF a, b, c, d
  <1>4. \A t \in {a, b, c, d} : \A m, n : Fits(FoundationSteps, m, t, n) => Laid(FoundationSteps, m, t, n)
    BY <1>1, Lay
  <1>5. /\ Laid(FoundationSteps, 0, a, 1)
        /\ Laid(FoundationSteps, 1, b, 3)
        /\ Laid(FoundationSteps, 3, c, 4)
        /\ Laid(FoundationSteps, 4, b, 6)
        /\ Laid(FoundationSteps, 6, d, 8)
        /\ Laid(FoundationSteps, 8, b, 10)
        /\ Laid(FoundationSteps, 10, b, 12)
    BY <1>2, <1>4, Zenon
  <1>6. /\ a = FirstSteps(FoundationSteps, 1)
        /\ FirstSteps(FoundationSteps, 1) \o b = FirstSteps(FoundationSteps, 3)
        /\ FirstSteps(FoundationSteps, 3) \o c = FirstSteps(FoundationSteps, 4)
        /\ FirstSteps(FoundationSteps, 4) \o b = FirstSteps(FoundationSteps, 6)
        /\ FirstSteps(FoundationSteps, 6) \o d = FirstSteps(FoundationSteps, 8)
        /\ FirstSteps(FoundationSteps, 8) \o b = FirstSteps(FoundationSteps, 10)
        /\ FirstSteps(FoundationSteps, 10) \o b = FoundationSteps
    BY <1>2, <1>5, Zenon DEF Laid
  <1> QED
    BY <1>3, <1>6

DeploySteps ==
  <<"namespace_gate_create", "namespace_observe", "namespace_save",
    "namespace_exists", "namespace_observe", "namespace_save",
    "namespace_import", "namespace_plan", "namespace_observe",
    "namespace_save", "namespace_observe", "namespace_save", "app_init",
    "upload", "save_vars", "plan_application", "guard_conflicts", "apply",
    "applied", "get_outputs", "inventory_read", "inventory_save", "readiness",
    "traffic_start", "acceptance", "plan_noop", "apply", "applied">>

(* deploy, from the entry of namespace_tf_prepare on.                      *)
LEMMA DeploySpelled == deploy = DeploySteps
  <1> DEFINE a == FoundationSteps
             b == <<"app_init", "upload", "save_vars", "plan_application",
                    "guard_conflicts", "apply", "applied", "get_outputs">>
             c == Inventory
             d == <<"readiness", "traffic_start", "acceptance", "plan_noop", "apply", "applied">>
  <1>1. /\ DeploySteps \in Seq(StepName) /\ a \in Seq(StepName) /\ b \in Seq(StepName)
        /\ c \in Seq(StepName) /\ d \in Seq(StepName)
    BY DEF DeploySteps, StepName, Inventory, FoundationSteps
  <1>2. /\ Fits(DeploySteps, 0, a, 12)
        /\ Fits(DeploySteps, 12, b, 20)
        /\ Fits(DeploySteps, 20, c, 22)
        /\ Fits(DeploySteps, 22, d, 28)
        /\ Len(DeploySteps) = 28
    BY DEF DeploySteps, Fits, Inventory, FoundationSteps
  <1>3. deploy = a \o b \o c \o d
    BY FoundationSpelled DEF deploy
  <1> HIDE DEF a, b, c, d
  <1>4. \A t \in {a, b, c, d} : \A m, n : Fits(DeploySteps, m, t, n) => Laid(DeploySteps, m, t, n)
    BY <1>1, Lay
  <1>5. /\ Laid(DeploySteps, 0, a, 12)
        /\ Laid(DeploySteps, 12, b, 20)
        /\ Laid(DeploySteps, 20, c, 22)
        /\ Laid(DeploySteps, 22, d, 28)
    BY <1>2, <1>4, Zenon
  <1>6. /\ a = FirstSteps(DeploySteps, 12)
        /\ FirstSteps(DeploySteps, 12) \o b = FirstSteps(DeploySteps, 20)
        /\ FirstSteps(DeploySteps, 20) \o c = FirstSteps(DeploySteps, 22)
        /\ FirstSteps(DeploySteps, 22) \o d = DeploySteps
    BY <1>2, <1>5, Zenon DEF Laid
  <1> QED
    BY <1>3, <1>6

VerifySteps ==
  <<"namespace_gate", "namespace_observe", "namespace_save",
    "namespace_exists", "namespace_observe", "namespace_save",
    "namespace_import", "namespace_plan", "namespace_observe",
    "namespace_save", "app_init", "deployed_vars", "get_outputs",
    "inventory_read", "inventory_save", "readiness", "acceptance",
    "plan_noop">>

(* verify, from the same entry on.                                         *)
LEMMA VerifySpelled == verify = VerifySteps
  <1> DEFINE a == NamespaceSteps
             b == <<"app_init", "deployed_vars", "get_outputs">>
             c == Inventory
             d == <<"readiness", "acceptance", "plan_noop">>
  <1>1. /\ VerifySteps \in Seq(StepName) /\ a \in Seq(StepName) /\ b \in Seq(StepName)
        /\ c \in Seq(StepName) /\ d \in Seq(StepName)
    BY DEF VerifySteps, StepName, Inventory, NamespaceSteps
  <1>2. /\ Fits(VerifySteps, 0, a, 10)
        /\ Fits(VerifySteps, 10, b, 13)
        /\ Fits(VerifySteps, 13, c, 15)
        /\ Fits(VerifySteps, 15, d, 18)
        /\ Len(VerifySteps) = 18
    BY DEF VerifySteps, Fits, Inventory, NamespaceSteps
  <1>3. verify = a \o b \o c \o d
    BY NamespaceSpelled DEF verify
  <1> HIDE DEF a, b, c, d
  <1>4. \A t \in {a, b, c, d} : \A m, n : Fits(VerifySteps, m, t, n) => Laid(VerifySteps, m, t, n)
    BY <1>1, Lay
  <1>5. /\ Laid(VerifySteps, 0, a, 10)
        /\ Laid(VerifySteps, 10, b, 13)
        /\ Laid(VerifySteps, 13, c, 15)
        /\ Laid(VerifySteps, 15, d, 18)
    BY <1>2, <1>4, Zenon
  <1>6. /\ a = FirstSteps(VerifySteps, 10)
        /\ FirstSteps(VerifySteps, 10) \o b = FirstSteps(VerifySteps, 13)
        /\ FirstSteps(VerifySteps, 13) \o c = FirstSteps(VerifySteps, 15)
        /\ FirstSteps(VerifySteps, 15) \o d = VerifySteps
    BY <1>2, <1>5, Zenon DEF Laid
  <1> QED
    BY <1>3, <1>6

DestroySteps ==
  <<"namespace_gate", "namespace_observe", "namespace_save",
    "namespace_exists", "namespace_observe", "namespace_save",
    "namespace_import", "namespace_plan", "namespace_observe",
    "namespace_save", "app_init", "deployed_vars", "inventory_read",
    "inventory_save", "cleanup_access", "traffic_stop", "plan_destroy",
    "apply", "applied", "empty_state", "absence", "namespace_gate",
    "namespace_observe", "namespace_save", "namespace_exists",
    "namespace_observe", "namespace_save", "namespace_import",
    "namespace_plan", "namespace_observe", "namespace_save", "verify_fixture",
    "forget_outputs">>

(* destroy, from the same entry on.                                        *)
LEMMA DestroySpelled == destroy = DestroySteps
  <1> DEFINE a == NamespaceSteps
             b == <<"app_init", "deployed_vars">>
             c == Inventory
             d == <<"cleanup_access", "traffic_stop", "plan_destroy", "apply",
                    "applied", "empty_state", "absence">>
             e == <<"verify_fixture", "forget_outputs">>
  <1>1. /\ DestroySteps \in Seq(StepName) /\ a \in Seq(StepName) /\ b \in Seq(StepName)
        /\ c \in Seq(StepName) /\ d \in Seq(StepName) /\ e \in Seq(StepName)
    BY DEF DestroySteps, StepName, Inventory, NamespaceSteps
  <1>2. /\ Fits(DestroySteps, 0, a, 10)
        /\ Fits(DestroySteps, 10, b, 12)
        /\ Fits(DestroySteps, 12, c, 14)
        /\ Fits(DestroySteps, 14, d, 21)
        /\ Fits(DestroySteps, 21, a, 31)
        /\ Fits(DestroySteps, 31, e, 33)
        /\ Len(DestroySteps) = 33
    BY DEF DestroySteps, Fits, Inventory, NamespaceSteps
  <1>3. destroy = a \o b \o c \o d \o a \o e
    BY NamespaceSpelled DEF destroy
  <1> HIDE DEF a, b, c, d, e
  <1>4. \A t \in {a, b, c, d, e} : \A m, n : Fits(DestroySteps, m, t, n) => Laid(DestroySteps, m, t, n)
    BY <1>1, Lay
  <1>5. /\ Laid(DestroySteps, 0, a, 10)
        /\ Laid(DestroySteps, 10, b, 12)
        /\ Laid(DestroySteps, 12, c, 14)
        /\ Laid(DestroySteps, 14, d, 21)
        /\ Laid(DestroySteps, 21, a, 31)
        /\ Laid(DestroySteps, 31, e, 33)
    BY <1>2, <1>4, Zenon
  <1>6. /\ a = FirstSteps(DestroySteps, 10)
        /\ FirstSteps(DestroySteps, 10) \o b = FirstSteps(DestroySteps, 12)
        /\ FirstSteps(DestroySteps, 12) \o c = FirstSteps(DestroySteps, 14)
        /\ FirstSteps(DestroySteps, 14) \o d = FirstSteps(DestroySteps, 21)
        /\ FirstSteps(DestroySteps, 21) \o a = FirstSteps(DestroySteps, 31)
        /\ FirstSteps(DestroySteps, 31) \o e = DestroySteps
    BY <1>2, <1>5, Zenon DEF Laid
  <1> QED
    BY <1>3, <1>6

CheckSteps ==
  <<"namespace_observe", "namespace_save", "app_init", "deployed_vars",
    "inventory_read", "inventory_save", "verify_fixture",
    "released_capacity">>

(* What a rebuild checks before anything is deleted.                       *)
LEMMA ChecksSpelled ==
  Prepare \o <<"app_init", "deployed_vars">> \o Inventory
    \o <<"verify_fixture", "released_capacity">> = CheckSteps
  <1> DEFINE b == Prepare
             c == <<"app_init", "deployed_vars">>
             d == Inventory
             e == <<"verify_fixture", "released_capacity">>
  <1>1. /\ CheckSteps \in Seq(StepName) /\ b \in Seq(StepName) /\ c \in Seq(StepName)
        /\ d \in Seq(StepName) /\ e \in Seq(StepName)
    BY DEF CheckSteps, StepName, Inventory, Prepare
  <1>2. /\ Fits(CheckSteps, 0, b, 2)
        /\ Fits(CheckSteps, 2, c, 4)
        /\ Fits(CheckSteps, 4, d, 6)
        /\ Fits(CheckSteps, 6, e, 8)
        /\ Len(CheckSteps) = 8
    BY DEF CheckSteps, Fits, Inventory, Prepare
  <1>3. Prepare \o <<"app_init", "deployed_vars">> \o Inventory
          \o <<"verify_fixture", "released_capacity">> = b \o c \o d \o e
    OBVIOUS
  <1> HIDE DEF b, c, d, e
  <1>4. \A t \in {b, c, d, e} : \A m, n : Fits(CheckSteps, m, t, n) => Laid(CheckSteps, m, t, n)
    BY <1>1, Lay
  <1>5. /\ Laid(CheckSteps, 0, b, 2)
        /\ Laid(CheckSteps, 2, c, 4)
        /\ Laid(CheckSteps, 4, d, 6)
        /\ Laid(CheckSteps, 6, e, 8)
    BY <1>2, <1>4, Zenon
  <1>6. /\ b = FirstSteps(CheckSteps, 2)
        /\ FirstSteps(CheckSteps, 2) \o c = FirstSteps(CheckSteps, 4)
        /\ FirstSteps(CheckSteps, 4) \o d = FirstSteps(CheckSteps, 6)
        /\ FirstSteps(CheckSteps, 6) \o e = CheckSteps
    BY <1>2, <1>5, Zenon DEF Laid
  <1> QED
    BY <1>3, <1>6

(* x is the steps of s, then those of t, then those of u.                  *)
Turns(x, s, t, u) ==
  /\ DOMAIN x = 1..(Len(s) + Len(t) + Len(u))
  /\ \A i \in 1..(Len(s) + Len(t) + Len(u)) :
       x[i] = IF i <= Len(s) THEN s[i]
              ELSE IF i <= Len(s) + Len(t) THEN t[i - Len(s)]
              ELSE u[i - Len(s) - Len(t)]

(* What SequenceTheorems says of a concatenation, for sequences of steps.  *)
LEMMA Concat ==
  \A s, t \in Seq(StepName) :
    /\ s \o t \in Seq(StepName) /\ Len(s \o t) = Len(s) + Len(t)
    /\ \A i \in 1..(Len(s) + Len(t)) :
         (s \o t)[i] = IF i <= Len(s) THEN s[i] ELSE t[i - Len(s)]
  BY ConcatProperties

(* A concatenation of three holds them in turn.                            *)
LEMMA InTurn ==
  \A s, t, u \in Seq(StepName) : Turns(s \o t \o u, s, t, u)
  <1> SUFFICES ASSUME NEW s \in Seq(StepName), NEW t \in Seq(StepName), NEW u \in Seq(StepName)
               PROVE  Turns(s \o t \o u, s, t, u)
    OBVIOUS
  <1>1. Len(s) \in Nat /\ Len(t) \in Nat /\ Len(u) \in Nat
    BY LenProperties
  <1> DEFINE v == s \o t  x == v \o u
  <1>3. /\ v \in Seq(StepName) /\ Len(v) = Len(s) + Len(t)
        /\ \A i \in 1..(Len(s) + Len(t)) : v[i] = IF i <= Len(s) THEN s[i] ELSE t[i - Len(s)]
    BY Concat, Zenon
  <1> HIDE DEF v
  <1>4. /\ x \in Seq(StepName) /\ Len(x) = Len(v) + Len(u)
        /\ \A i \in 1..(Len(v) + Len(u)) : x[i] = IF i <= Len(v) THEN v[i] ELSE u[i - Len(v)]
    BY Concat, <1>3, Zenon
  <1> HIDE DEF x
  <1>5. DOMAIN x = 1..Len(x)
    BY <1>4, LenProperties
  <1>6. ASSUME NEW i \in 1..(Len(s) + Len(t) + Len(u))
        PROVE  x[i] = IF i <= Len(s) THEN s[i]
                      ELSE IF i <= Len(s) + Len(t) THEN t[i - Len(s)]
                      ELSE u[i - Len(s) - Len(t)]
    BY <1>1, <1>3, <1>4
  <1>7. DOMAIN x = 1..(Len(s) + Len(t) + Len(u))
    BY <1>1, <1>3, <1>4, <1>5
  <1>8. Turns(x, s, t, u)
    BY <1>6, <1>7 DEF Turns
  <1> QED
    BY <1>8 DEF x, v

(* The four programs.                                                      *)
LEMMA Programs ==
  /\ Program["deploy"] = Prepare \o DeploySteps \o <<"complete">>
  /\ Program["verify"] = Prepare \o VerifySteps \o <<"complete">>
  /\ Program["destroy"] = Prepare \o DestroySteps \o <<"complete">>
  /\ Program["rebuild"] =
       (Prepare \o CheckSteps) \o (DestroySteps \o DeploySteps) \o <<"complete">>
  <1>1. preflight("rebuild") = Prepare \o CheckSteps
    BY ChecksSpelled DEF preflight
  <1>2. \A op \in Operation \ {"rebuild"} : preflight(op) = Prepare
    <2>1. Prepare \in Seq(StepName)
      BY DEF Prepare, StepName
    <2>2. Prepare \o <<>> = Prepare
      BY <2>1, ConcatEmptySeq
    <2> QED
      BY <2>2 DEF preflight
  <1> QED
    BY <1>1, <1>2, DeploySpelled, VerifySpelled, DestroySpelled DEF Program, Operation

(* The steps of an operation, by position.                                 *)
StepAt(op, i) ==
  CASE op = "deploy"  -> IF i <= 2 THEN Prepare[i]
                         ELSE IF i <= 30 THEN DeploySteps[i - 2] ELSE "complete"
    [] op = "verify"  -> IF i <= 2 THEN Prepare[i]
                         ELSE IF i <= 20 THEN VerifySteps[i - 2] ELSE "complete"
    [] op = "destroy" -> IF i <= 2 THEN Prepare[i]
                         ELSE IF i <= 35 THEN DestroySteps[i - 2] ELSE "complete"
    [] op = "rebuild" -> IF i <= 2 THEN Prepare[i]
                         ELSE IF i <= 10 THEN CheckSteps[i - 2]
                         ELSE IF i <= 43 THEN DestroySteps[i - 10]
                         ELSE IF i <= 71 THEN DeploySteps[i - 43] ELSE "complete"

(* How many steps each operation has.                                      *)
Length == [deploy |-> 31, verify |-> 21, destroy |-> 36, rebuild |-> 72]

(* A program holds at each of its positions the step StepAt names.         *)
LEMMA Placed ==
  ASSUME NEW op \in Operation
  PROVE  /\ DOMAIN Program[op] = 1..Length[op]
         /\ \A i \in 1..Length[op] : Program[op][i] = StepAt(op, i)
  <1> DEFINE end == <<"complete">>
  <1>1. /\ Prepare \in Seq(StepName) /\ DeploySteps \in Seq(StepName)
        /\ VerifySteps \in Seq(StepName) /\ DestroySteps \in Seq(StepName)
        /\ CheckSteps \in Seq(StepName) /\ end \in Seq(StepName)
    BY DEF Prepare, DeploySteps, VerifySteps, DestroySteps, CheckSteps, StepName
  <1>2. /\ Len(Prepare) = 2 /\ Len(DeploySteps) = 28 /\ Len(VerifySteps) = 18
        /\ Len(DestroySteps) = 33 /\ Len(CheckSteps) = 8 /\ Len(end) = 1 /\ end[1] = "complete"
    BY DEF Prepare, DeploySteps, VerifySteps, DestroySteps, CheckSteps
  <1> HIDE DEF end
  <1>3. CASE op = "deploy"
    <2>1. Turns(Program[op], Prepare, DeploySteps, end)
      BY <1>1, <1>3, InTurn, Programs, Zenon DEF end
    <2> QED
      BY <1>2, <1>3, <2>1 DEF Turns, StepAt, Length
  <1>4. CASE op = "verify"
    <2>1. Turns(Program[op], Prepare, VerifySteps, end)
      BY <1>1, <1>4, InTurn, Programs, Zenon DEF end
    <2> QED
      BY <1>2, <1>4, <2>1 DEF Turns, StepAt, Length
  <1>5. CASE op = "destroy"
    <2>1. Turns(Program[op], Prepare, DestroySteps, end)
      BY <1>1, <1>5, InTurn, Programs, Zenon DEF end
    <2> QED
      BY <1>2, <1>5, <2>1 DEF Turns, StepAt, Length
  <1>6. CASE op = "rebuild"
    <2> DEFINE x == Prepare \o CheckSteps  y == DestroySteps \o DeploySteps
    <2>1. /\ x \in Seq(StepName) /\ Len(x) = Len(Prepare) + Len(CheckSteps)
          /\ \A i \in 1..(Len(Prepare) + Len(CheckSteps)) :
               x[i] = IF i <= Len(Prepare) THEN Prepare[i] ELSE CheckSteps[i - Len(Prepare)]
      BY <1>1, Concat, Zenon
    <2>2. /\ y \in Seq(StepName) /\ Len(y) = Len(DestroySteps) + Len(DeploySteps)
          /\ \A i \in 1..(Len(DestroySteps) + Len(DeploySteps)) :
               y[i] = IF i <= Len(DestroySteps) THEN DestroySteps[i]
                      ELSE DeploySteps[i - Len(DestroySteps)]
      BY <1>1, Concat, Zenon
    <2>3. Program[op] = x \o y \o end
      BY <1>6, Programs DEF end
    <2> HIDE DEF x, y
    <2>4. x \in Seq(StepName) /\ y \in Seq(StepName) /\ Len(x) = 10 /\ Len(y) = 61
      BY <1>2, <2>1, <2>2
    <2>5. Turns(x \o y \o end, x, y, end)
      BY <1>1, <2>4, InTurn, Zenon
    <2>6. Turns(Program[op], x, y, end)
      BY <2>3, <2>5
    <2>7. DOMAIN Program[op] = 1..72
      BY <1>2, <2>6, <2>4 DEF Turns
    <2>8. \A i \in 1..(10 + 61 + 1) :
            Program[op][i] = IF i <= 10 THEN x[i]
                             ELSE IF i <= 10 + 61 THEN y[i - 10] ELSE end[i - 10 - 61]
      BY <1>2, <2>6, <2>4, Zenon DEF Turns
    <2>9. \A i \in 1..(2 + 8) : x[i] = IF i <= 2 THEN Prepare[i] ELSE CheckSteps[i - 2]
      BY <1>2, <2>1, Zenon
    <2>10. \A i \in 1..(33 + 28) :
             y[i] = IF i <= 33 THEN DestroySteps[i] ELSE DeploySteps[i - 33]
      BY <1>2, <2>2, Zenon
    <2>11. ASSUME NEW i \in 1..72
          PROVE  Program[op][i] = StepAt(op, i)
      <3>1. CASE i <= 10
        <4>1. Program[op][i] = x[i]
          BY <2>8, <3>1
        <4>2. x[i] = IF i <= 2 THEN Prepare[i] ELSE CheckSteps[i - 2]
          BY <2>9, <3>1
        <4> QED
          BY <1>6, <3>1, <4>1, <4>2 DEF StepAt
      <3>2. CASE i > 10 /\ i <= 71
        <4>1. Program[op][i] = y[i - 10]
          BY <2>8, <3>2
        <4>2. y[i - 10] = IF i - 10 <= 33 THEN DestroySteps[i - 10] ELSE DeploySteps[(i - 10) - 33]
          BY <2>10, <3>2
        <4> QED
          BY <1>6, <3>2, <4>1, <4>2 DEF StepAt
      <3>3. CASE i = 72
        <4>1. Program[op][i] = "complete"
          BY <1>2, <2>8, <3>3
        <4> QED
          BY <1>6, <3>3, <4>1 DEF StepAt
      <3> QED
        BY <3>1, <3>2, <3>3
    <2> QED
      BY <1>6, <2>7, <2>11 DEF Length
  <1> QED
    BY <1>3, <1>4, <1>5, <1>6 DEF Operation

-----------------------------------------------------------------------------
(* Positions of deploy and of destroy; in a rebuild the destroy begins 8    *)
(* steps later than in a destroy, and the deploy 41 later than in a deploy. *)
InDeploy(p, i, j) ==
  \/ run[p].op = "deploy" /\ run[p].at \in i..j
  \/ run[p].op = "rebuild" /\ run[p].at \in (i + 41)..(j + 41)

InDestroy(p, i, j) ==
  \/ run[p].op = "destroy" /\ run[p].at \in i..j
  \/ run[p].op = "rebuild" /\ run[p].at \in (i + 8)..(j + 8)

InVerify(p, i, j) == run[p].op = "verify" /\ run[p].at \in i..j

(* The step a position names, for the steps the proofs look at.            *)
LEMMA Where ==
  ASSUME NEW p, run[p].op \in Operation, run[p].at \in Nat, NEW s, At(p, s)
  PROVE  /\ s = "namespace_exists" <=>
              \/ InDestroy(p, 6, 6) \/ InDestroy(p, 27, 27) \/ InVerify(p, 6, 6)
              \/ InDeploy(p, 6, 6)
         /\ InVerify(p, 1, 21) => /\ s = "namespace_gate" <=> InVerify(p, 3, 3)
                                  /\ s = "namespace_import" <=> InVerify(p, 9, 9)
         /\ s = "upload" <=> InDeploy(p, 16, 16)
         /\ s = "plan_application" <=> InDeploy(p, 18, 18)
         /\ s = "guard_conflicts" <=> InDeploy(p, 19, 19)
         /\ s = "apply" <=> InDeploy(p, 20, 20) \/ InDeploy(p, 29, 29) \/ InDestroy(p, 20, 20)
         /\ s = "applied" <=> InDeploy(p, 21, 21) \/ InDeploy(p, 30, 30) \/ InDestroy(p, 21, 21)
         /\ s = "traffic_start" <=> InDeploy(p, 26, 26)
         /\ s = "plan_noop" <=> InDeploy(p, 28, 28) \/ InVerify(p, 20, 20)
         /\ s = "plan_destroy" <=> InDestroy(p, 19, 19)
         /\ s = "empty_state" <=> InDestroy(p, 22, 22)
  <1> USE DEF InDeploy, InDestroy, InVerify
  <1>1. run[p].at \in 1..Length[run[p].op] /\ s = StepAt(run[p].op, run[p].at)
    BY Placed DEF At
  <1> DEFINE op == run[p].op  i == run[p].at
  <1>2. op \in Operation /\ i \in 1..Length[op] /\ s = StepAt(op, i)
    BY <1>1
  <1> HIDE DEF op, i
  <1>3. CASE op = "deploy"
    <2>1. i \in 1..31 /\ s = IF i <= 2 THEN Prepare[i]
                             ELSE IF i <= 30 THEN DeploySteps[i - 2] ELSE "complete"
      BY <1>2, <1>3 DEF StepAt, Length
    <2> QED
      BY <1>3, <2>1 DEF op, i, Prepare, DeploySteps
  <1>4. CASE op = "verify"
    <2>1. i \in 1..21 /\ s = IF i <= 2 THEN Prepare[i]
                             ELSE IF i <= 20 THEN VerifySteps[i - 2] ELSE "complete"
      BY <1>2, <1>4 DEF StepAt, Length
    <2> QED
      BY <1>4, <2>1 DEF op, i, Prepare, VerifySteps
  <1>5. CASE op = "destroy"
    <2>1. i \in 1..36 /\ s = IF i <= 2 THEN Prepare[i]
                             ELSE IF i <= 35 THEN DestroySteps[i - 2] ELSE "complete"
      BY <1>2, <1>5 DEF StepAt, Length
    <2>2. CASE i \in 3..35
      BY <1>5, <2>1, <2>2 DEF op, i, DestroySteps
    <2>3. CASE i \notin 3..35
      BY <1>5, <2>1, <2>3 DEF op, i, Prepare
    <2> QED
      BY <2>2, <2>3
  <1>6. CASE op = "rebuild"
    <2>1. i \in 1..72 /\ s = IF i <= 2 THEN Prepare[i]
                             ELSE IF i <= 10 THEN CheckSteps[i - 2]
                             ELSE IF i <= 43 THEN DestroySteps[i - 10]
                             ELSE IF i <= 71 THEN DeploySteps[i - 43] ELSE "complete"
      BY <1>2, <1>6 DEF StepAt, Length
    <2>2. CASE i \in 3..10
      BY <1>6, <2>1, <2>2 DEF op, i, CheckSteps
    <2>3. CASE i \in 11..43
      BY <1>6, <2>1, <2>3 DEF op, i, DestroySteps
    <2>4. CASE i \in 44..71
      BY <1>6, <2>1, <2>4 DEF op, i, DeploySteps
    <2>5. CASE i \in 1..2 \cup {72}
      BY <1>6, <2>1, <2>5 DEF op, i, Prepare
    <2> QED
      BY <2>1, <2>2, <2>3, <2>4, <2>5
  <1> QED
    BY <1>2, <1>3, <1>4, <1>5, <1>6 DEF Operation

(* The same for the steps around the ledger and at the end.                *)
LEMMA WhereLedger ==
  ASSUME NEW p, run[p].op \in Operation, run[p].at \in Nat, NEW s, At(p, s)
  PROVE  /\ s = "absence" <=> InDestroy(p, 23, 23)
         /\ s = "inventory_read" <=>
              \/ InDeploy(p, 23, 23) \/ InDestroy(p, 15, 15) \/ InVerify(p, 16, 16)
              \/ run[p].op = "rebuild" /\ run[p].at = 7
         /\ s = "inventory_save" <=>
              \/ InDeploy(p, 24, 24) \/ InDestroy(p, 16, 16) \/ InVerify(p, 17, 17)
              \/ run[p].op = "rebuild" /\ run[p].at = 8
         /\ s = "verify_fixture" <=>
              \/ InDestroy(p, 34, 34)
              \/ run[p].op = "rebuild" /\ run[p].at = 9
         /\ s = "complete" <=> run[p].at = Length[run[p].op]
         /\ run[p].at \in 1..Length[run[p].op]
  <1> USE DEF InDeploy, InDestroy, InVerify
  <1>1. run[p].at \in 1..Length[run[p].op] /\ s = StepAt(run[p].op, run[p].at)
    BY Placed DEF At
  <1> DEFINE op == run[p].op  i == run[p].at
  <1>2. op \in Operation /\ i \in 1..Length[op] /\ s = StepAt(op, i)
    BY <1>1
  <1> HIDE DEF op, i
  <1>3. CASE op = "deploy"
    <2>1. i \in 1..31 /\ s = IF i <= 2 THEN Prepare[i]
                             ELSE IF i <= 30 THEN DeploySteps[i - 2] ELSE "complete"
      BY <1>2, <1>3 DEF StepAt, Length
    <2> QED
      BY <1>3, <2>1 DEF op, i, Prepare, DeploySteps, Length
  <1>4. CASE op = "verify"
    <2>1. i \in 1..21 /\ s = IF i <= 2 THEN Prepare[i]
                             ELSE IF i <= 20 THEN VerifySteps[i - 2] ELSE "complete"
      BY <1>2, <1>4 DEF StepAt, Length
    <2> QED
      BY <1>4, <2>1 DEF op, i, Prepare, VerifySteps, Length
  <1>5. CASE op = "destroy"
    <2>1. i \in 1..36 /\ s = IF i <= 2 THEN Prepare[i]
                             ELSE IF i <= 35 THEN DestroySteps[i - 2] ELSE "complete"
      BY <1>2, <1>5 DEF StepAt, Length
    <2>2. CASE i \in 3..35
      BY <1>5, <2>1, <2>2 DEF op, i, DestroySteps, Length
    <2>3. CASE i \notin 3..35
      BY <1>5, <2>1, <2>3 DEF op, i, Prepare, Length
    <2> QED
      BY <2>2, <2>3
  <1>6. CASE op = "rebuild"
    <2>1. i \in 1..72 /\ s = IF i <= 2 THEN Prepare[i]
                             ELSE IF i <= 10 THEN CheckSteps[i - 2]
                             ELSE IF i <= 43 THEN DestroySteps[i - 10]
                             ELSE IF i <= 71 THEN DeploySteps[i - 43] ELSE "complete"
      BY <1>2, <1>6 DEF StepAt, Length
    <2>2. CASE i \in 3..10
      BY <1>6, <2>1, <2>2 DEF op, i, CheckSteps, Length
    <2>3. CASE i \in 11..43
      BY <1>6, <2>1, <2>3 DEF op, i, DestroySteps, Length
    <2>4. CASE i \in 44..71
      BY <1>6, <2>1, <2>4 DEF op, i, DeploySteps, Length
    <2>5. CASE i \in 1..2 \cup {72}
      BY <1>6, <2>1, <2>5 DEF op, i, Prepare, Length
    <2> QED
      BY <2>1, <2>2, <2>3, <2>4, <2>5
  <1> QED
    BY <1>2, <1>3, <1>4, <1>5, <1>6 DEF Operation

-----------------------------------------------------------------------------
(* What one step of an operation may change.                               *)

(* The step s of p moves on, and only the steps named here write more than *)
(* the evidence and the receipt of p.                                      *)
Moves(p, s) ==
  /\ \A q \in Operator \ {p} : run'[q] = run[q]
  /\ run'[p].stage = "running" /\ run'[p].op = run[p].op /\ run'[p].began = run[p].began
  /\ run'[p].at = run[p].at + (IF s = "namespace_exists" /\ namespaceState THEN 4 ELSE 1)
  /\ run'[p].resources = IF s = "inventory_read" THEN appState ELSE run[p].resources
  /\ run'[p].owned = IF s = "inventory_save" THEN run[p].resources ELSE run[p].owned
  /\ s \notin {"plan_application", "plan_noop", "plan_destroy"} => run'[p].plan = run[p].plan
  /\ UNCHANGED <<lock, live, drift, liveUid, namespacePresent, faults>>

(* What a step other than these leaves alone outside its controller.       *)
Writes(s) ==
  /\ s # "apply" => UNCHANGED <<appState, tf>>
  /\ s \notin {"apply", "plan_application", "plan_noop", "plan_destroy"} => UNCHANGED fresh
  /\ s # "inventory_save" => UNCHANGED manifest
  /\ s # "upload" => UNCHANGED fixture
  /\ namespaceState' = (namespaceState \/ s = "namespace_import")
  /\ s # "traffic_start" /\ traffic' => traffic

(* The record r that the step s of p stores.                               *)
Evidence(p, s, r) ==
  /\ r \in Run
  /\ r.stage = run[p].stage /\ r.op = run[p].op /\ r.began = run[p].began
  /\ r.at = run[p].at + (IF s = "namespace_exists" /\ namespaceState THEN 3 ELSE 0)
  /\ r.resources = IF s = "inventory_read" THEN appState ELSE run[p].resources
  /\ r.owned = IF s = "inventory_save" THEN run[p].resources ELSE run[p].owned
  /\ s \notin {"plan_application", "plan_noop", "plan_destroy"} => r.plan = run[p].plan

(* A step that stores evidence and leaves the tenant alone moves on.       *)
LEMMA AdvanceRecord ==
  ASSUME TypeOK, NEW p \in Operator, NEW s, NEW r, Evidence(p, s, r), Advance(p, r),
         run[p].stage = "running",
         UNCHANGED <<lock, live, drift, liveUid, namespacePresent, faults>>
  PROVE  Moves(p, s)
  <1>1. /\ \A q \in Operator \ {p} : run'[q] = run[q]
        /\ run'[p] = [r EXCEPT !.at = @ + 1]
    BY DEF Advance, TypeOK
  <1>2. r \in Run /\ run[p] \in Run
    BY DEF Evidence, TypeOK
  <1>3. /\ run'[p].stage = r.stage /\ run'[p].op = r.op /\ run'[p].began = r.began
        /\ run'[p].at = r.at + 1 /\ run'[p].resources = r.resources
        /\ run'[p].owned = r.owned /\ run'[p].plan = r.plan
    BY <1>1, <1>2 DEF Run
  <1>4. run[p].at \in Nat
    BY <1>2 DEF Run
  <1> QED
    BY <1>1, <1>3, <1>4 DEF Moves, Evidence

(* The steps that only read, and the others.                               *)
ReadingStep(p) ==
  \/ At(p, "namespace_observe") /\ namespace_observe(p)
  \/ At(p, "namespace_gate") /\ namespace_gate(p, FALSE)
  \/ At(p, "namespace_gate_create") /\ namespace_gate(p, TRUE)
  \/ At(p, "namespace_exists") /\ namespace_exists(p)
  \/ At(p, "namespace_plan") /\ namespace_plan(p)
  \/ At(p, "app_init") /\ app_init(p)
  \/ At(p, "deployed_vars") /\ deployed_vars(p)
  \/ At(p, "released_capacity") /\ released_capacity(p)
  \/ At(p, "guard_conflicts") /\ guard_conflicts(p)
  \/ At(p, "get_outputs") /\ get_outputs(p)
  \/ At(p, "inventory_read") /\ inventory_read(p)
  \/ At(p, "cleanup_access") /\ cleanup_access(p)
  \/ At(p, "readiness") /\ verify_readiness(p)
  \/ At(p, "acceptance") /\ verify_acceptance(p)
  \/ At(p, "absence") /\ verify_absence(p)
  \/ At(p, "verify_fixture") /\ verify_fixture(p)
  \/ At(p, "empty_state") /\ empty_state(p)
  \/ At(p, "forget_outputs") /\ forget_outputs(p)

PlanningStep(p) ==
  \/ At(p, "plan_application") /\ plan(p, "deploy", None)
  \/ At(p, "plan_noop") /\ plan(p, "noop", None)
  \/ At(p, "plan_destroy") /\ plan(p, "destroy", run[p].owned)

WritingStep(p) ==
  \/ At(p, "namespace_save") /\ namespace_save(p)
  \/ At(p, "namespace_import") /\ namespace_import(p)
  \/ At(p, "upload") /\ upload(p)
  \/ At(p, "save_vars") /\ save_vars(p)
  \/ At(p, "apply") /\ apply_start(p)
  \/ At(p, "inventory_save") /\ inventory_save(p)
  \/ At(p, "traffic_start") /\ traffic_start(p)
  \/ At(p, "traffic_stop") /\ traffic_stop(p)

(* A controller at one step takes the disjunct of Step that bears its      *)
(* name.                                                                   *)
LEMMA StepNamed ==
  ASSUME NEW p, NEW s, At(p, s), s # "complete", Step(p)
  PROVE  /\ ReadingStep(p) \/ PlanningStep(p) \/ WritingStep(p)
         /\ \A x : At(p, x) => x = s
  <1>1. \A x : At(p, x) => x = s
    BY DEF At
  <1>2. ~At(p, "complete")
    BY <1>1
  <1> QED
    BY <1>1, <1>2, Zenon DEF Step, ReadingStep, PlanningStep, WritingStep

(* The evidence each step adds.                                            *)
LEMMA StepRecord ==
  ASSUME TypeOK, NEW p \in Operator, NEW s, At(p, s), s # "complete", Step(p)
  PROVE  \E r : Evidence(p, s, r) /\ Advance(p, r)
  <1>0. run[p] \in Run /\ run[p].at \in Nat /\ liveUid \in Nat /\ appState \in SUBSET Resource
    BY DEF TypeOK, Run
  <1>11. \A x : At(p, x) => x = s
    BY StepNamed
  <1>12. ReadingStep(p) \/ PlanningStep(p) \/ WritingStep(p)
    BY StepNamed
  <1>1. CASE \/ At(p, "namespace_gate") /\ namespace_gate(p, FALSE)
             \/ At(p, "namespace_gate_create") /\ namespace_gate(p, TRUE)
             \/ At(p, "namespace_import") /\ namespace_import(p)
             \/ At(p, "namespace_plan") /\ namespace_plan(p)
             \/ At(p, "deployed_vars") /\ deployed_vars(p)
             \/ At(p, "released_capacity") /\ released_capacity(p)
             \/ At(p, "upload") /\ upload(p)
             \/ At(p, "save_vars") /\ save_vars(p)
             \/ At(p, "guard_conflicts") /\ guard_conflicts(p)
             \/ At(p, "apply") /\ apply_start(p)
             \/ At(p, "traffic_start") /\ traffic_start(p)
             \/ At(p, "readiness") /\ verify_readiness(p)
             \/ At(p, "acceptance") /\ verify_acceptance(p)
             \/ At(p, "absence") /\ verify_absence(p)
             \/ At(p, "verify_fixture") /\ verify_fixture(p)
             \/ At(p, "empty_state") /\ empty_state(p)
    <2>1. Advance(p, run[p])
      BY <1>1 DEF namespace_gate, namespace_import, namespace_plan, deployed_vars,
         released_capacity, upload, save_vars, guard_conflicts, apply_start, traffic_start,
         verify_readiness, verify_acceptance, verify_absence, verify_fixture, empty_state
    <2>3. s \notin {"namespace_exists", "inventory_read", "inventory_save"}
      BY <1>1, <1>11
    <2>2. Evidence(p, s, run[p])
      BY <1>0, <2>3 DEF Evidence
    <2> QED
      BY <2>1, <2>2
  <1>2. CASE At(p, "namespace_observe") /\ namespace_observe(p)
    <2> DEFINE r == [run[p] EXCEPT !.seen = liveUid]
    <2>1. Advance(p, r)
      BY <1>2 DEF namespace_observe
    <2>2. Evidence(p, s, r)
      BY <1>0, <1>2, <1>11 DEF Evidence, Run
    <2> QED
      BY <2>1, <2>2
  <1>3. CASE At(p, "namespace_save") /\ namespace_save(p)
    <2> DEFINE r == [run[p] EXCEPT !.uid = run[p].seen]
    <2>1. Advance(p, r)
      BY <1>3 DEF namespace_save
    <2>2. Evidence(p, s, r)
      BY <1>0, <1>3, <1>11 DEF Evidence, Run
    <2> QED
      BY <2>1, <2>2
  <1>4. CASE At(p, "namespace_exists") /\ namespace_exists(p)
    <2> DEFINE r == [run[p] EXCEPT !.at = IF namespaceState THEN @ + ImportSteps ELSE @]
    <2>1. Advance(p, r)
      BY <1>4 DEF namespace_exists
    <2>2. Evidence(p, s, r)
      BY <1>0, <1>4, <1>11 DEF Evidence, Run, ImportSteps
    <2> QED
      BY <2>1, <2>2
  <1>5. CASE At(p, "app_init") /\ app_init(p)
    <2> DEFINE r == [run[p] EXCEPT !.appReady = TRUE]
    <2>1. Advance(p, r)
      BY <1>5 DEF app_init
    <2>3. s \notin {"namespace_exists", "inventory_read", "inventory_save"}
      BY <1>5, <1>11
    <2>4. r \in Run
      BY <1>0 DEF Run
    <2>5. /\ r.stage = run[p].stage /\ r.op = run[p].op /\ r.began = run[p].began
          /\ r.at = run[p].at /\ r.resources = run[p].resources /\ r.owned = run[p].owned
          /\ r.plan = run[p].plan
      BY <1>0 DEF Run
    <2>2. Evidence(p, s, r)
      BY <1>0, <2>3, <2>4, <2>5 DEF Evidence
    <2> QED
      BY <2>1, <2>2
  <1>6. CASE \/ At(p, "get_outputs") /\ get_outputs(p)
             \/ At(p, "cleanup_access") /\ cleanup_access(p)
             \/ At(p, "forget_outputs") /\ forget_outputs(p)
    <2>1. PICK o \in {"none", "showcase", "generator"} :
            Advance(p, [run[p] EXCEPT !.outputs = o])
      BY <1>6 DEF get_outputs, cleanup_access, forget_outputs, AccessTo
    <2> DEFINE r == [run[p] EXCEPT !.outputs = o]
    <2>3. s \notin {"namespace_exists", "inventory_read", "inventory_save"}
      BY <1>6, <1>11
    <2>2. Evidence(p, s, r)
      BY <1>0, <1>6, <2>3 DEF Evidence, Run
    <2> QED
      BY <2>1, <2>2
  <1>7. CASE At(p, "traffic_stop") /\ traffic_stop(p)
    <2> DEFINE r == [run[p] EXCEPT !.stopped = @ \/ run[p].outputs # "none"]
    <2>1. Advance(p, r)
      BY <1>7 DEF traffic_stop
    <2>3. s \notin {"namespace_exists", "inventory_read", "inventory_save"}
      BY <1>7, <1>11
    <2>4. r \in Run
      BY <1>0 DEF Run
    <2>5. /\ r.stage = run[p].stage /\ r.op = run[p].op /\ r.began = run[p].began
          /\ r.at = run[p].at /\ r.resources = run[p].resources /\ r.owned = run[p].owned
          /\ r.plan = run[p].plan
      BY <1>0 DEF Run
    <2>2. Evidence(p, s, r)
      BY <1>0, <2>3, <2>4, <2>5 DEF Evidence
    <2> QED
      BY <2>1, <2>2
  <1>8. CASE At(p, "inventory_read") /\ inventory_read(p)
    <2> DEFINE r == [run[p] EXCEPT !.resources = appState]
    <2>1. Advance(p, r)
      BY <1>8 DEF inventory_read
    <2>2. Evidence(p, s, r)
      BY <1>0, <1>8, <1>11 DEF Evidence, Run
    <2> QED
      BY <2>1, <2>2
  <1>9. CASE At(p, "inventory_save") /\ inventory_save(p)
    <2> DEFINE r == [run[p] EXCEPT !.owned = run[p].resources]
    <2>1. Advance(p, r)
      BY <1>9 DEF inventory_save
    <2>2. Evidence(p, s, r)
      BY <1>0, <1>9, <1>11 DEF Evidence, Run
    <2> QED
      BY <2>1, <2>2
  <1>10. CASE \/ At(p, "plan_application") /\ plan(p, "deploy", None)
              \/ At(p, "plan_noop") /\ plan(p, "noop", None)
              \/ At(p, "plan_destroy") /\ plan(p, "destroy", run[p].owned)
    <2>1. PICK mode \in Mode, replaced \in SUBSET drift :
            Advance(p, [run[p] EXCEPT !.plan =
              [mode |-> mode, change |-> Proposed(mode, replaced), prior |-> Refreshed]])
      BY <1>10, Zenon DEF plan, Mode
    <2>2. [mode |-> mode, change |-> Proposed(mode, replaced), prior |-> Refreshed] \in Plan
      BY ProposedType, <1>0 DEF Plan, Refreshed
    <2> DEFINE new == [mode |-> mode, change |-> Proposed(mode, replaced), prior |-> Refreshed]
               r == [run[p] EXCEPT !.plan = new]
    <2>3. Advance(p, r) /\ new \in Plan
      BY <2>1, <2>2
    <2> HIDE DEF new
    <2>4. Evidence(p, s, r)
      BY <1>0, <1>10, <1>11, <2>3 DEF Evidence, Run
    <2> QED
      BY <2>3, <2>4
  <1> QED
    BY <1>1, <1>2, <1>3, <1>4, <1>5, <1>6, <1>7, <1>8, <1>9, <1>10, <1>12
       DEF ReadingStep, PlanningStep, WritingStep

(* What each step leaves alone.                                            *)
LEMMA StepFrame ==
  ASSUME TypeOK, NEW p \in Operator, NEW s, At(p, s), s # "complete", Step(p)
  PROVE  UNCHANGED <<lock, live, drift, liveUid, namespacePresent, faults>> /\ Writes(s)
  <1>0. namespaceState \in BOOLEAN /\ traffic \in BOOLEAN
    BY DEF TypeOK
  <1>4. ReadingStep(p) \/ PlanningStep(p) \/ WritingStep(p)
    BY StepNamed
  <1>5. \A x : At(p, x) => x = s
    BY StepNamed
  <1>1. CASE ReadingStep(p)
    <2>1. Still
      BY <1>1 DEF ReadingStep, namespace_observe, namespace_gate, namespace_exists,
         namespace_plan, app_init, deployed_vars, released_capacity, guard_conflicts,
         get_outputs, inventory_read, cleanup_access, verify_readiness, verify_acceptance,
         verify_absence, verify_fixture, empty_state, forget_outputs
    <2>2. s # "namespace_import"
      BY <1>1, <1>5 DEF ReadingStep
    <2> QED
      BY <1>0, <2>1, <2>2 DEF Still, tenant, Writes
  <1>2. CASE PlanningStep(p)
    BY <1>0, <1>2, <1>5 DEF PlanningStep, plan, tenant, Writes
  <1>3. CASE WritingStep(p)
    <2>1. CASE s \in {"namespace_save", "namespace_import", "save_vars", "upload"}
      <3>1. /\ UNCHANGED <<lock, live, drift, liveUid, namespacePresent, faults, traffic>>
            /\ UNCHANGED <<appState, tf, fresh, manifest>> /\ (s # "upload" => UNCHANGED fixture)
        BY <1>3, <1>5, <2>1 DEF WritingStep, namespace_save, namespace_import, save_vars, upload, tenant
      <3>2. namespaceState' = (namespaceState \/ s = "namespace_import")
        BY <1>0, <1>3, <1>5, <2>1 DEF WritingStep, namespace_save, namespace_import, save_vars, upload
      <3> QED
        BY <3>1, <3>2 DEF Writes
    <2>2. CASE s \in {"apply", "inventory_save"}
      BY <1>0, <1>3, <1>5, <2>2 DEF WritingStep, apply_start, inventory_save, tenant, Writes
    <2>3. CASE s \in {"traffic_start", "traffic_stop"}
      <3>1. (s = "traffic_start" /\ traffic_start(p)) \/ (s = "traffic_stop" /\ traffic_stop(p))
        BY <1>3, <1>5, <2>3 DEF WritingStep
      <3>2. s # "traffic_start" /\ traffic' => traffic
        BY <1>0, <3>1, Zenon DEF traffic_stop
      <3>3. /\ UNCHANGED <<lock, live, drift, liveUid, namespacePresent, faults>>
            /\ UNCHANGED <<appState, tf, fresh, manifest, fixture, namespaceState>>
        BY <3>1 DEF traffic_start, traffic_stop
      <3> QED
        BY <1>0, <2>3, <3>2, <3>3 DEF Writes
    <2> QED
      BY <1>3, <1>5, <2>1, <2>2, <2>3 DEF WritingStep
  <1> QED
    BY <1>1, <1>2, <1>3, <1>4

(* A step moves its controller on and writes no more than its name says.   *)
LEMMA StepMoves ==
  ASSUME TypeOK, NEW p \in Operator, NEW s, At(p, s), s # "complete", Step(p)
  PROVE  Moves(p, s) /\ Writes(s)
  <1>1. PICK r : Evidence(p, s, r) /\ Advance(p, r)
    BY StepRecord
  <1>2. UNCHANGED <<lock, live, drift, liveUid, namespacePresent, faults>> /\ Writes(s)
    BY StepFrame
  <1>3. run[p].stage = "running"
    BY DEF At
  <1> QED
    BY <1>1, <1>2, <1>3, AdvanceRecord

(* The action behind the name of a step.                                   *)
LEMMA StepIs ==
  ASSUME NEW p, NEW s, At(p, s), Step(p)
  PROVE  /\ s = "apply" => apply_start(p)
         /\ s = "plan_application" => plan(p, "deploy", None)
         /\ s = "plan_noop" => plan(p, "noop", None)
         /\ s = "plan_destroy" => plan(p, "destroy", run[p].owned)
         /\ s = "inventory_read" => inventory_read(p)
         /\ s = "inventory_save" => inventory_save(p)
         /\ s = "traffic_start" => traffic_start(p)
         /\ s = "upload" => upload(p)
         /\ s = "absence" => verify_absence(p)
         /\ s = "empty_state" => empty_state(p)
         /\ s = "verify_fixture" => verify_fixture(p)
         /\ s = "namespace_gate" => namespace_gate(p, FALSE)
         /\ s = "complete" => complete(p)
         /\ s # "applied"
  <1>1. \A x : At(p, x) => x = s
    BY DEF At
  <1> QED
    BY <1>1 DEF Step

-----------------------------------------------------------------------------
(* The controller between two steps.                                       *)
Waiting(p) == InDeploy(p, 21, 21) \/ InDeploy(p, 30, 30) \/ InDestroy(p, 21, 21)

(* Between a plan and its apply, or past the last plan of verify.          *)
Planned(p) ==
  InDeploy(p, 19, 20) \/ InDeploy(p, 29, 29) \/ InDestroy(p, 20, 20) \/ InVerify(p, 21, 21)

(* Past the first plan that a deploy or a destroy applies.                 *)
PastPlan(p) == InDeploy(p, 19, 31) \/ InDestroy(p, 20, 36)

(* A controller that is not running remembers nothing.                     *)
IdleBlank == \A p \in Operator : ~Active(p) => run[p] = Idle

(* A Terraform child with a living owner is waited for by its owner.       *)
ChildWaited ==
  \A p \in Operator : tf.owner = p => run[p].stage = "running" /\ Waiting(p)

(* A plan is fresh only for a controller about to apply it, with no child  *)
(* at work since.                                                          *)
FreshPlanned ==
  \A p \in fresh : /\ Active(p)
                   /\ tf.owner = None
                   /\ run[p].stage = "running" => Planned(p)

(* Terraform locks its state: nobody gets past a plan beside the child of  *)
(* a dead controller.                                                      *)
NoOrphan ==
  \A p \in Operator :
    run[p].stage \in {"running", "verified"} /\ PastPlan(p) => tf.owner # "orphan"

(* Only the last step of a program reports it verified.                    *)
EndReached ==
  \A p \in Operator : run[p].stage = "verified" => run[p].at = Length[run[p].op]

(* The order of the steps: the invariant the theorems about the ledger     *)
(* start from.                                                             *)
OrderInv == PinInv /\ IdleBlank /\ ChildWaited /\ FreshPlanned /\ NoOrphan /\ EndReached

(* A controller that runs is alone.                                        *)
LEMMA Alone ==
  ASSUME OrderInv, NEW p \in Operator, Active(p)
  PROVE  /\ lock = p
         /\ \A q \in Operator \ {p} : ~Active(q) /\ run[q] = Idle /\ tf.owner # q
         /\ fresh \subseteq {p}
         /\ TypeOK
  BY DEF OrderInv, PinInv, LockHolder, IdleBlank, ChildWaited, FreshPlanned, TypeOK, Active

(* What an idle controller holds.                                          *)
LEMMA IdleFields ==
  Idle.stage = "idle" /\ Idle.op = "deploy" /\ Idle.at = 1 /\ Idle.resources = None
    /\ Idle.owned = None
  BY DEF Idle

(* A step is not taken while a child is waited for.                        *)
LEMMA NotWaiting ==
  ASSUME OrderInv, NEW p \in Operator, NEW s, At(p, s), Step(p)
  PROVE  s # "applied" /\ tf.owner \notin Operator
  <1>1. s # "applied"
    BY StepIs
  <1>2. Active(p) /\ run[p] \in Run
    BY DEF At, Active, OrderInv, PinInv, TypeOK
  <1>3. run[p].op \in Operation /\ run[p].at \in Nat
    BY <1>2 DEF Run
  <1>4. ~Waiting(p)
    BY <1>1, <1>3, Where DEF Waiting
  <1>5. tf.owner # p
    BY <1>4 DEF OrderInv, ChildWaited
  <1> QED
    BY <1>1, <1>2, <1>5, Alone

(* An apply gives its controller a child.                                  *)
LEMMA ApplyOwner ==
  ASSUME NEW p, At(p, "apply"), Step(p)
  PROVE  tf'.owner = p
  <1>1. apply_start(p)
    BY StepIs
  <1>2. PICK mode, change : tf' = [owner |-> p, mode |-> mode, change |-> change, made |-> {}]
    BY <1>1 DEF apply_start
  <1> QED
    BY <1>2

(* A step keeps the order.                                                 *)
LEMMA StepOrder ==
  ASSUME OrderInv, PinInv', NEW p \in Operator, NEW s, At(p, s), s # "complete", Step(p)
  PROVE  OrderInv'
  <1>0. /\ TypeOK /\ run[p] \in Run /\ run[p].stage = "running" /\ Active(p)
        /\ run[p].op \in Operation /\ run[p].at \in Nat
    <2>1. TypeOK /\ run[p] \in Run /\ run[p].stage = "running" /\ Active(p)
      BY DEF At, Active, OrderInv, PinInv, TypeOK
    <2> QED
      BY <2>1 DEF Run
  <1>1. Moves(p, s) /\ Writes(s)
    BY <1>0, StepMoves
  <1>2. /\ \A q \in Operator \ {p} : ~Active(q) /\ run[q] = Idle /\ tf.owner # q
        /\ fresh \subseteq {p}
    BY <1>0, Alone
  <1>3. tf.owner \notin Operator
    BY NotWaiting
  <1>4. \A q \in Operator \ {p} : run'[q] = Idle
    BY <1>1, <1>2 DEF Moves
  <1>5. /\ run'[p].stage = "running" /\ run'[p].op = run[p].op
        /\ \/ run'[p].at = run[p].at + 1
           \/ s = "namespace_exists" /\ run'[p].at = run[p].at + 4
    BY <1>1 DEF Moves
  <1>6. IdleBlank' /\ EndReached'
    BY <1>4, <1>5, IdleFields DEF IdleBlank, EndReached, Active
  <1>7. ChildWaited'
    <2>1. CASE s = "apply"
      <3>1. tf'.owner = p /\ run'[p].at = run[p].at + 1
        BY <1>5, <2>1, ApplyOwner
      <3>2. Waiting(p)'
        BY <1>0, <1>5, <2>1, <3>1, Where DEF Waiting, InDeploy, InDestroy
      <3> QED
        BY <1>5, <3>1, <3>2 DEF ChildWaited
    <2>2. CASE s # "apply"
      BY <1>1, <1>3, <2>2 DEF Writes, ChildWaited
    <2> QED
      BY <2>1, <2>2
  <1>8. FreshPlanned'
    <2>1. CASE s = "apply"
      <3>1. fresh' = {}
        BY <2>1, StepIs DEF apply_start
      <3> QED
        BY <3>1 DEF FreshPlanned
    <2>2. CASE s \in {"plan_application", "plan_noop", "plan_destroy"}
      <3>1. fresh' = fresh \cup {p} /\ tf.owner = None
        BY <2>2, StepIs DEF plan, StateLocked
      <3>2. UNCHANGED tf
        BY <1>1, <2>2 DEF Writes
      <3>3. run'[p].at = run[p].at + 1
        BY <1>5, <2>2
      <3>4. Planned(p)'
        BY <1>0, <1>5, <2>2, <3>3, Where DEF Planned, InDeploy, InDestroy, InVerify
      <3> QED
        BY <1>2, <1>5, <3>1, <3>2, <3>4 DEF FreshPlanned, Active
    <2>3. CASE s \notin {"apply", "plan_application", "plan_noop", "plan_destroy"}
      <3>1. UNCHANGED <<fresh, tf>>
        BY <1>1, <2>3 DEF Writes
      <3>2. p \in fresh => s = "guard_conflicts"
        <4>1. p \in fresh => Planned(p)
          BY <1>0 DEF OrderInv, FreshPlanned
        <4>2. Planned(p) => s \in {"guard_conflicts", "apply", "complete"}
          BY <1>0, Where, WhereLedger DEF Planned, InDeploy, InDestroy, InVerify, Length
        <4> QED
          BY <2>3, <4>1, <4>2
      <3>3. s = "guard_conflicts" => Planned(p)'
        BY <1>0, <1>5, Where DEF Planned, InDeploy, InDestroy, InVerify
      <3> QED
        BY <1>2, <1>5, <3>1, <3>2, <3>3 DEF FreshPlanned, OrderInv, Active
    <2> QED
      BY <2>1, <2>2, <2>3
  <1>9. NoOrphan'
    <2>1. tf'.owner = "orphan" => tf.owner = "orphan" /\ UNCHANGED tf
      <3>1. CASE s = "apply"
        <4>1. tf'.owner = p
          BY <3>1, ApplyOwner
        <4> QED
          BY <4>1, StateAssumption
      <3>2. CASE s # "apply"
        BY <1>1, <3>2 DEF Writes
      <3> QED
        BY <3>1, <3>2
    <2>2. s \in {"plan_application", "plan_destroy"} => tf.owner = None
      BY StepIs DEF plan, StateLocked
    <2>3. PastPlan(p)' => PastPlan(p) \/ s \in {"plan_application", "plan_destroy"}
      BY <1>0, <1>5, Where DEF PastPlan, InDeploy, InDestroy, InVerify
    <2>4. tf.owner = "orphan" => tf.owner # None
      BY StateAssumption
    <2> QED
      BY <1>0, <1>4, <1>5, <2>1, <2>2, <2>3, <2>4, IdleFields DEF NoOrphan, OrderInv
  <1> QED
    BY <1>6, <1>7, <1>8, <1>9 DEF OrderInv

(* The last step only reports.                                             *)
LEMMA CompleteMoves ==
  ASSUME TypeOK, NEW p \in Operator, At(p, "complete"), Step(p)
  PROVE  /\ \A q \in Operator \ {p} : run'[q] = run[q]
         /\ run'[p] = [run[p] EXCEPT !.stage = "verified"]
         /\ run[p] \in Run /\ run[p].stage = "running" /\ run[p].at = Length[run[p].op]
         /\ UNCHANGED <<namespaceState, manifest, appState, lock, tf, fresh, live, drift,
                        liveUid, namespacePresent, fixture, traffic, faults>>
  <1>1. complete(p)
    BY StepIs
  <1>2. run[p] \in Run /\ run[p].stage = "running"
    BY DEF At, TypeOK
  <1>3. run[p].at = Length[run[p].op]
    BY <1>2, WhereLedger DEF Run
  <1> QED
    BY <1>1, <1>2, <1>3 DEF complete, Still, tenant, TypeOK

(* Failing, being interrupted and cleaning up: the operation goes on to its *)
(* end and waits for no child.                                             *)
Stops(p) ==
  /\ run[p].stage \in {"running", "cleanup"}
  /\ \/ run'[p].stage = "cleanup"
     \/ run'[p].stage = "closing" /\ cleanup_traffic(p)
  /\ \A q \in Operator \ {p} : run'[q] = run[q]
  /\ run'[p].op = run[p].op
  /\ \/ tf' = tf /\ tf.owner # p
     \/ tf' = NoTf /\ tf.owner = p
  /\ traffic' => traffic
  /\ UNCHANGED <<fresh, lock, namespaceState, manifest, appState, live, drift, fixture, faults>>

(* Returning or dying leaves nothing but, perhaps, a child nobody waits for. *)
Ends(p) ==
  /\ Active(p)
  /\ run'[p] = Idle
  /\ \A q \in Operator \ {p} : run'[q] = run[q]
  /\ fresh' = fresh \ {p}
  /\ \/ tf' = tf /\ tf.owner # p
     \/ tf' = [tf EXCEPT !.owner = "orphan"] /\ tf.owner = p
  /\ UNCHANGED <<namespaceState, manifest, appState, live, drift, fixture, traffic, faults>>

Starts(p, op) ==
  /\ run[p].stage = "idle" /\ lock = None
  /\ run'[p] = NewRun(op)
  /\ \A q \in Operator \ {p} : run'[q] = run[q]
  /\ UNCHANGED <<fresh, tf, namespaceState, manifest, appState, live, drift, fixture, traffic,
                 faults>>

(* A controller that starts, fails, cleans up, returns or is killed.       *)
LEMMA OtherMoves ==
  ASSUME OrderInv, NEW p \in Operator, ControllerNext(p)
  PROVE  \/ \E op \in Operation : Starts(p, op)
         \/ Step(p)
         \/ Stops(p)
         \/ Ends(p)
  <1>0. TypeOK /\ run[p] \in Run
    BY DEF OrderInv, PinInv, TypeOK
  <1>1. ASSUME NEW op \in Operation, acquire(p, op)
        PROVE  Starts(p, op)
    BY <1>0, <1>1 DEF acquire, Starts, disk, tenant, TypeOK
  <1>2. CASE fail(p)
    BY <1>0, <1>2 DEF fail, Stops, disk, tenant, TypeOK, Run
  <1>3. CASE cleanup_traffic(p)
    <2>1. run[p].stage = "cleanup" /\ UNCHANGED <<disk, lock, tf, fresh, live, drift, fixture, faults>>
      BY <1>3 DEF cleanup_traffic
    <2>2. tf.owner # p
      BY <2>1 DEF OrderInv, ChildWaited
    <2>3. /\ \A q \in Operator \ {p} : run'[q] = run[q]
          /\ run'[p].stage = "closing" /\ run'[p].op = run[p].op
      BY <1>0, <1>3 DEF cleanup_traffic, cleanup_skips, cleanup_stops, cleanup_fails, TypeOK, Run
    <2>4. traffic' => traffic
      BY <1>0, <1>3, Zenon DEF cleanup_traffic, cleanup_skips, cleanup_stops, cleanup_fails, TypeOK
    <2> QED
      BY <1>3, <2>1, <2>2, <2>3, <2>4 DEF Stops, disk
  <1>4. CASE release(p)
    <2>1. run[p].stage \in {"closing", "verified"}
      BY <1>4 DEF release
    <2>2. tf.owner # p
      BY <2>1 DEF OrderInv, ChildWaited
    <2> QED
      BY <1>0, <1>4, <2>1, <2>2 DEF release, Ends, Active, tenant, TypeOK
  <1>5. CASE crash(p)
    BY <1>0, <1>5 DEF crash, Ends, disk, tenant, TypeOK
  <1> QED
    BY <1>1, <1>2, <1>3, <1>4, <1>5 DEF ControllerNext

(* Whatever a controller does keeps the order.                             *)
LEMMA ControllerOrder ==
  ASSUME OrderInv, PinInv', NEW p \in Operator, ControllerNext(p)
  PROVE  OrderInv'
  <1>0. TypeOK /\ run[p] \in Run
    BY DEF OrderInv, PinInv, TypeOK
  <1>9. NewRun("deploy").stage # "verified" /\ Idle.stage = "idle"
    BY DEF NewRun, Idle
  <1>1. ASSUME NEW op \in Operation, Starts(p, op)
        PROVE  OrderInv'
    <2>1. NewRun(op).stage = "running" /\ NewRun(op).op = op /\ NewRun(op).at = 1
      BY DEF NewRun, Idle
    <2>2. \A q \in Operator : ~Active(q) /\ tf.owner # q
      BY <1>1, StateAssumption DEF Starts, OrderInv, PinInv, LockHolder, ChildWaited, Active
    <2>3. fresh = {}
      BY <1>0, <2>2 DEF OrderInv, FreshPlanned, TypeOK
    <2>4. ~PastPlan(p)'
      BY <1>1, <2>1 DEF Starts, PastPlan, InDeploy, InDestroy
    <2>5. IdleBlank' /\ EndReached'
      BY <1>1, <2>1 DEF Starts, IdleBlank, EndReached, OrderInv, Active
    <2>6. ChildWaited' /\ FreshPlanned'
      BY <1>1, <2>2, <2>3 DEF Starts, ChildWaited, FreshPlanned
    <2>7. NoOrphan'
      <3>1. \A q \in Operator \ {p} : run'[q].stage = "idle"
        BY <1>1, <2>2 DEF Starts, Active
      <3> QED
        BY <2>4, <3>1 DEF NoOrphan
    <2> QED
      BY <2>5, <2>6, <2>7 DEF OrderInv
  <1>2. CASE Stops(p)
    <2>1. Active(p)
      BY <1>2 DEF Stops, Active
    <2>2. /\ \A q \in Operator \ {p} : ~Active(q) /\ run[q] = Idle /\ tf.owner # q
          /\ fresh \subseteq {p}
      BY <2>1, Alone
    <2>3. \A q \in Operator : q # p => run'[q] = Idle
      BY <1>2, <2>2 DEF Stops
    <2>4. NoTf.owner = None
      BY DEF NoTf
    <2>5. IdleBlank' /\ EndReached' /\ NoOrphan'
      BY <1>2, <1>9, <2>3 DEF Stops, IdleBlank, EndReached, NoOrphan, Active
    <2>6. ChildWaited' /\ FreshPlanned'
      BY <1>2, <2>2, <2>4, StateAssumption DEF Stops, ChildWaited, FreshPlanned, OrderInv, Active
    <2> QED
      BY <2>5, <2>6 DEF OrderInv
  <1>3. CASE Ends(p)
    <2>2. /\ \A q \in Operator \ {p} : ~Active(q) /\ run[q] = Idle /\ tf.owner # q
          /\ fresh \subseteq {p}
      BY <1>3, Alone DEF Ends
    <2>3. \A q \in Operator : run'[q] = Idle
      BY <1>3, <2>2 DEF Ends
    <2>4. IdleBlank' /\ EndReached' /\ NoOrphan'
      BY <1>9, <2>3 DEF IdleBlank, EndReached, NoOrphan, Active
    <2>5. fresh' = {}
      BY <1>3, <2>2 DEF Ends
    <2>6. \A q \in Operator : tf'.owner # q
      <3>1. CASE tf' = [tf EXCEPT !.owner = "orphan"]
        <4>1. tf'.owner = "orphan"
          BY <1>0, <3>1 DEF TypeOK, Terraform
        <4> QED
          BY <4>1, StateAssumption
      <3>2. CASE tf' = tf /\ tf.owner # p
        BY <2>2, <3>2
      <3> QED
        BY <1>3, <3>1, <3>2 DEF Ends
    <2> QED
      BY <2>4, <2>5, <2>6 DEF OrderInv, ChildWaited, FreshPlanned
  <1>4. CASE Step(p)
    <2>1. PICK s : At(p, s)
      BY <1>4 DEF Step
    <2>2. CASE s # "complete"
      BY <1>4, <2>1, <2>2, StepOrder
    <2>3. CASE s = "complete"
      <3>1. /\ \A q \in Operator \ {p} : run'[q] = run[q]
            /\ run'[p] = [run[p] EXCEPT !.stage = "verified"]
            /\ run[p].stage = "running" /\ run[p].at = Length[run[p].op]
            /\ UNCHANGED <<tf, fresh>>
        BY <1>0, <1>4, <2>1, <2>3, CompleteMoves
      <3>2. /\ run'[p].stage = "verified" /\ run'[p].op = run[p].op /\ run'[p].at = run[p].at
        BY <1>0, <3>1 DEF Run
      <3>3. Active(p) /\ tf.owner \notin Operator
        BY <1>4, <2>1, <3>1, NotWaiting DEF Active
      <3>4. /\ \A q \in Operator \ {p} : ~Active(q) /\ run[q] = Idle
            /\ fresh \subseteq {p}
        BY <3>3, Alone
      <3>5. IdleBlank' /\ EndReached' /\ ChildWaited' /\ FreshPlanned'
        BY <1>9, <3>1, <3>2, <3>3, <3>4 DEF IdleBlank, EndReached, ChildWaited, FreshPlanned, Active, OrderInv
      <3>6. PastPlan(p)' <=> PastPlan(p)
        BY <3>2 DEF PastPlan, InDeploy, InDestroy
      <3>7. NoOrphan'
        BY <1>9, <3>1, <3>2, <3>4, <3>6 DEF NoOrphan, OrderInv
      <3> QED
        BY <3>5, <3>7 DEF OrderInv
    <2> QED
      BY <2>2, <2>3
  <1> QED
    BY <1>1, <1>2, <1>3, <1>4, OtherMoves

(* What a Terraform child may change, and what its end does.               *)
TfWorks(r) ==
  /\ StateLocked
  /\ tf'.owner = tf.owner /\ tf'.mode = tf.mode
  /\ UNCHANGED <<run, lock, fresh, namespaceState, manifest, namespacePresent, fixture, faults>>
  /\ \A s \in Resource \ {r} :
       /\ tf'.change[s] = tf.change[s]
       /\ live'[s] = live[s]
       /\ s \in appState' <=> s \in appState
       /\ s \in tf'.made <=> s \in tf.made

TfEnds ==
  /\ StateLocked
  /\ tf' = NoTf
  /\ UNCHANGED <<lock, fresh, namespaceState, manifest, appState, live, drift, traffic, fixture,
                 faults>>
  /\ \/ UNCHANGED run
     \/ \E p \in Operator :
          /\ tf.owner = p /\ tf.change = NothingToDo /\ tf.made = {}
          /\ run' = [run EXCEPT ![p] = [run[p] EXCEPT !.at = @ + 1]]

(* A Terraform child works on one resource, or ends.                       *)
LEMMA TerraformMoves ==
  ASSUME OrderInv, TerraformNext
  PROVE  \/ TfEnds
         \/ \E r \in Resource :
              /\ TfWorks(r)
              /\ TfDelete(r) \/ TfForget(r) \/ TfCreate(r) \/ TfRecord(r) \/ TfUpdate(r)
  <1>0. TypeOK /\ tf \in Terraform
    BY DEF OrderInv, PinInv, TypeOK
  <1>1. CASE TfDone
    BY <1>1 DEF TfDone, TfEnds, Advance, tenant
  <1>2. CASE TfError
    BY <1>2 DEF TfError, TfEnds, disk, tenant
  <1>3. ASSUME NEW r \in Resource, TfDelete(r) \/ TfForget(r) \/ TfCreate(r) \/ TfRecord(r) \/ TfUpdate(r)
        PROVE  TfWorks(r)
    <2>1. StateLocked /\ TfQuiet
      BY <1>3 DEF TfDelete, TfForget, TfCreate, TfRecord, TfUpdate
    <2>2. UNCHANGED <<run, lock, fresh, namespaceState, manifest, namespacePresent, fixture, faults>>
      BY <2>1 DEF TfQuiet
    <2>3. CASE TfDelete(r)
      BY <1>0, <2>1, <2>2, <2>3 DEF TfDelete, TfWorks, TypeOK
    <2>4. CASE TfForget(r) \/ TfUpdate(r)
      BY <1>0, <2>1, <2>2, <2>4 DEF TfForget, TfUpdate, TfWorks, Terraform
    <2>5. CASE TfCreate(r)
      BY <1>0, <2>1, <2>2, <2>5 DEF TfCreate, TfWorks, TypeOK, Terraform
    <2>6. CASE TfRecord(r)
      BY <1>0, <2>1, <2>2, <2>6 DEF TfRecord, TfWorks, Terraform
    <2> QED
      BY <1>3, <2>3, <2>4, <2>5, <2>6
  <1> QED
    BY <1>1, <1>2, <1>3, Zenon DEF TerraformNext

(* A Terraform child keeps the order.                                      *)
LEMMA TerraformOrder ==
  ASSUME OrderInv, PinInv', TerraformNext
  PROVE  OrderInv'
  <1>0. TypeOK /\ fresh = {}
    BY DEF OrderInv, PinInv, FreshPlanned, StateLocked, TerraformNext, TfDone, TfError,
       TfDelete, TfForget, TfCreate, TfRecord, TfUpdate, TypeOK
  <1>1. ASSUME NEW r, TfWorks(r)
        PROVE  OrderInv'
    BY <1>0, <1>1 DEF TfWorks, OrderInv, IdleBlank, ChildWaited, FreshPlanned, NoOrphan, EndReached,
       Active, Waiting, PastPlan, InDeploy, InDestroy
  <1>2. CASE TfEnds
    <2>1. NoTf.owner = None
      BY DEF NoTf
    <2>2. tf'.owner = None /\ fresh' = {}
      BY <1>0, <1>2, <2>1 DEF TfEnds
    <2>3. ChildWaited' /\ FreshPlanned' /\ NoOrphan'
      BY <2>2, StateAssumption DEF ChildWaited, FreshPlanned, NoOrphan
    <2>4. IdleBlank' /\ EndReached'
      <3>1. CASE UNCHANGED run
        BY <3>1 DEF OrderInv, IdleBlank, EndReached, Active
      <3>2. ASSUME NEW p \in Operator, tf.owner = p,
                   run' = [run EXCEPT ![p] = [run[p] EXCEPT !.at = @ + 1]]
            PROVE  IdleBlank' /\ EndReached'
        <4>1. run[p].stage = "running" /\ run[p] \in Run
          BY <1>0, <3>2 DEF OrderInv, ChildWaited, TypeOK
        <4>2. run'[p].stage = "running" /\ \A q \in Operator \ {p} : run'[q] = run[q]
          BY <1>0, <3>2, <4>1 DEF TypeOK, Run
        <4> QED
          BY <4>2 DEF OrderInv, IdleBlank, EndReached, Active
      <3> QED
        BY <1>2, <3>1, <3>2 DEF TfEnds
    <2> QED
      BY <2>3, <2>4 DEF OrderInv
  <1> QED
    BY <1>1, <1>2, TerraformMoves

(* The order holds at first.                                               *)
LEMMA OrderInit == Init => OrderInv
  <1> SUFFICES ASSUME Init
               PROVE  OrderInv
    OBVIOUS
  <1>1. NoTf.owner = None
    BY DEF NoTf
  <1>2. \A p \in Operator : run[p] = Idle /\ run[p].stage = "idle"
    BY IdleFields DEF Init
  <1>3. ChildWaited
    BY <1>1, StateAssumption DEF Init, ChildWaited
  <1> QED
    BY <1>2, <1>3, PinInvInit DEF Init, OrderInv, IdleBlank, FreshPlanned, NoOrphan, EndReached

(* Every step of the system keeps the order.                               *)
LEMMA OrderNext == OrderInv /\ [Next]_vars => OrderInv'
  <1> SUFFICES ASSUME OrderInv, [Next]_vars
               PROVE  OrderInv'
    OBVIOUS
  <1>1. PinInv'
    BY PinInvNext DEF OrderInv
  <1>2. CASE UNCHANGED <<run, tf, fresh>>
    BY <1>1, <1>2 DEF OrderInv, IdleBlank, ChildWaited, FreshPlanned, NoOrphan, EndReached,
       Active, Planned, Waiting, PastPlan, InDeploy, InDestroy, InVerify
  <1>3. CASE UNCHANGED vars
    BY <1>2, <1>3 DEF vars, control
  <1>4. CASE OutsideNext
    BY <1>2, <1>4 DEF OutsideNext, Outside, control
  <1> QED
    BY <1>1, <1>3, <1>4, ControllerOrder, TerraformOrder DEF Next

(* In every reachable state a child belongs to the controller that waits   *)
(* for it, a plan is fresh only until its apply, no orphan works past a    *)
(* plan, and only a finished program is verified (execute and _apply in    *)
(* demo_lifecycle.py).                                                     *)
THEOREM StepsInOrder == Spec => []OrderInv
  BY OrderInit, OrderNext, PTL DEF Spec
=============================================================================
