---------------------------- MODULE DemoLifecycle ----------------------------
(***************************************************************************)
(* The four operations of the demo lifecycle as programs of named steps,   *)
(* run by controllers that share one private state directory, under one    *)
(* non-blocking lock, with failures, interruptions, crashes that leave a   *)
(* Terraform child behind, and changes made from outside.                  *)
(***************************************************************************)
EXTENDS LifecycleOwnership

CONSTANTS
  MaxRuns,     \* operations started
  MaxFaults,   \* changes from outside the lifecycle
  MaxUid       \* namespaces ever created under the fixed name

ASSUME BoundAssumption ==
  /\ MaxRuns \in Nat
  /\ MaxFaults \in Nat
  /\ MaxUid \in Nat \ {0}

-----------------------------------------------------------------------------
(* The operations.                                                         *)
Prepare == <<"namespace_observe", "namespace_save">>

NamespaceTf(create) ==
  <<IF create THEN "namespace_gate_create" ELSE "namespace_gate">>
    \o Prepare \o <<"namespace_exists">> \o Prepare
    \o <<"namespace_import", "namespace_plan">>
    \o (IF create THEN Prepare ELSE <<>>) \o Prepare

Inventory == <<"inventory_read", "inventory_save">>

preflight(op) ==
  Prepare \o (IF op = "rebuild"
              THEN Prepare \o <<"app_init", "deployed_vars">> \o Inventory
                     \o <<"verify_fixture", "released_capacity">>
              ELSE <<>>)

deploy ==
  NamespaceTf(TRUE)
    \o <<"app_init", "upload", "save_vars", "plan_application", "guard_conflicts",
         "apply", "applied", "get_outputs">>
    \o Inventory
    \o <<"readiness", "traffic_start", "acceptance", "plan_noop", "apply", "applied">>

(* Mutant: verify prepares the namespace the way deploy does.              *)
verify_importing ==
  NamespaceTf(TRUE)
    \o <<"app_init", "deployed_vars", "get_outputs">> \o Inventory
    \o <<"readiness", "acceptance", "plan_noop">>

verify ==
  NamespaceTf(FALSE)
    \o <<"app_init", "deployed_vars", "get_outputs">> \o Inventory
    \o <<"readiness", "acceptance", "plan_noop">>

destroy ==
  NamespaceTf(FALSE)
    \o <<"app_init", "deployed_vars">> \o Inventory
    \o <<"cleanup_access", "traffic_stop", "plan_destroy", "apply", "applied",
         "empty_state", "absence">>
    \o NamespaceTf(FALSE) \o <<"verify_fixture", "forget_outputs">>

Program == [op \in Operation |->
  preflight(op) \o (CASE op = "deploy"  -> deploy
                      [] op = "verify"  -> verify
                      [] op = "destroy" -> destroy
                      [] op = "rebuild" -> destroy \o deploy)
                \o <<"complete">>]

At(p, step) ==
  /\ run[p].stage = "running"
  /\ run[p].at \in DOMAIN Program[run[p].op]
  /\ Program[run[p].op][run[p].at] = step

-----------------------------------------------------------------------------
(* Steps the controller makes itself.                                      *)
deployed_vars(p) == varsFile /\ Advance(p, run[p]) /\ Still

(* Quota credit of a rebuild needs every owned machine to be readable.     *)
released_capacity(p) ==
  /\ Generator \in run[p].resources => live[Generator] # "absent"
  /\ Advance(p, run[p])
  /\ Still

(* The uploader verifies the pin of an existing receipt and never replaces *)
(* it; without one it finds or puts the content.                           *)
upload(p) ==
  /\ swaggerReceipt => fixture = "intact"
  /\ fixture' = "intact"
  /\ swaggerReceipt' = TRUE
  /\ Advance(p, run[p])
  /\ UNCHANGED <<namespaceReceipt, namespaceState, manifest, appState, varsFile,
                 lock, tf, fresh, live, drift, liveUid, namespacePresent, stranger,
                 traffic, runs, faults>>

save_vars(p) ==
  /\ varsFile' = TRUE
  /\ Advance(p, run[p])
  /\ UNCHANGED <<namespaceReceipt, namespaceState, manifest, appState,
                 swaggerReceipt, lock, tf, fresh, tenant, runs, faults>>

empty_state(p) == appState = {} /\ Advance(p, run[p]) /\ Still

forget_outputs(p) == Advance(p, [run[p] EXCEPT !.outputs = "none"]) /\ Still

(* execute: the lock is taken without waiting.                             *)
acquire(p, op) ==
  /\ run[p].stage = "idle"
  /\ lock = None
  /\ runs < MaxRuns
  /\ runs' = runs + 1
  /\ lock' = p
  /\ run' = [run EXCEPT ![p] = NewRun(op)]
  /\ UNCHANGED <<disk, tf, fresh, tenant, faults>>

(* Mutant: a status nobody reads.                                          *)
complete_renamed(p) ==
  /\ run' = [run EXCEPT ![p].stage = "complete"]
  /\ opReceipt' = "complete"
  /\ Still

complete(p) ==
  /\ run' = [run EXCEPT ![p].stage = "verified"]
  /\ opReceipt' = "verified"
  /\ Still

Step(p) ==
  \/ At(p, "namespace_observe")     /\ namespace_observe(p)
  \/ At(p, "namespace_save")        /\ namespace_save(p)
  \/ At(p, "namespace_gate")        /\ namespace_gate(p, FALSE)
  \/ At(p, "namespace_gate_create") /\ namespace_gate(p, TRUE)
  \/ At(p, "namespace_exists")      /\ namespace_exists(p)
  \/ At(p, "namespace_import")      /\ namespace_import(p)
  \/ At(p, "namespace_plan")        /\ namespace_plan(p)
  \/ At(p, "app_init")              /\ app_init(p)
  \/ At(p, "deployed_vars")         /\ deployed_vars(p)
  \/ At(p, "released_capacity")     /\ released_capacity(p)
  \/ At(p, "upload")                /\ upload(p)
  \/ At(p, "save_vars")             /\ save_vars(p)
  \/ At(p, "plan_application")      /\ plan(p, "deploy", None)
  \/ At(p, "plan_noop")             /\ plan(p, "noop", None)
  \/ At(p, "plan_destroy")          /\ plan(p, "destroy", run[p].owned)
  \/ At(p, "guard_conflicts")       /\ guard_conflicts(p)
  \/ At(p, "apply")                 /\ apply_start(p)
  \/ At(p, "get_outputs")           /\ get_outputs(p)
  \/ At(p, "inventory_read")        /\ inventory_read(p)
  \/ At(p, "inventory_save")        /\ inventory_save(p)
  \/ At(p, "cleanup_access")        /\ cleanup_access(p)
  \/ At(p, "traffic_start")         /\ traffic_start(p)
  \/ At(p, "traffic_stop")          /\ traffic_stop(p)
  \/ At(p, "readiness")             /\ verify_readiness(p)
  \/ At(p, "acceptance")            /\ verify_acceptance(p)
  \/ At(p, "absence")               /\ verify_absence(p)
  \/ At(p, "verify_fixture")        /\ verify_fixture(p)
  \/ At(p, "empty_state")           /\ empty_state(p)
  \/ At(p, "forget_outputs")        /\ forget_outputs(p)
  \/ At(p, "complete")              /\ complete(p)

-----------------------------------------------------------------------------
(* Mutant: the wait for a Terraform child has no deadline.                 *)
fail_unbounded(p) ==
  /\ run[p].stage = "running"
  /\ tf.owner # p
  /\ run' = [run EXCEPT ![p].stage = "cleanup"]
  /\ UNCHANGED <<disk, lock, tf, fresh, tenant, runs, faults>>

(* A failed check, an upstream error, the deadline or an interruption ends *)
(* the operation at any step; a Terraform child is killed with its group,  *)
(* and what it made but had not recorded stays out of the state.           *)
fail(p) ==
  /\ run[p].stage = "running"
  /\ run' = [run EXCEPT ![p].stage = "cleanup"]
  /\ tf' = IF tf.owner = p THEN NoTf ELSE tf
  /\ UNCHANGED <<disk, lock, fresh, tenant, runs, faults>>

(* _cleanup_traffic: access is taken from the application state when no     *)
(* output was captured and the backend is ready, then traffic is stopped;  *)
(* with neither, the operation ends without an attempt.  What goes wrong   *)
(* is only noted.                                                          *)
CleanupResources(p) ==
  IF run[p].outputs = "none" /\ run[p].appReady THEN appState ELSE run[p].resources

(* Mutant: only captured outputs give access.                              *)
CleanupOutputs_captured(p) == run[p].outputs

CleanupOutputs(p) ==
  IF run[p].outputs = "none" /\ run[p].appReady THEN AccessTo(appState) ELSE run[p].outputs

cleanup_skips(p) ==
  /\ CleanupOutputs(p) = "none"
  /\ run[p].appReady => appState # {}
  /\ run' = [run EXCEPT ![p].stage = "closing"]
  /\ UNCHANGED traffic

cleanup_stops(p) ==
  /\ CleanupOutputs(p) # "none"
  /\ CleanupResources(p) # None
  /\ owned_guest(CleanupResources(p))
  /\ run' = [run EXCEPT ![p].stage = "closing", ![p].stopped = TRUE]
  /\ traffic' = FALSE

(* The stop may fail after it took effect, or before.                      *)
cleanup_fails(p) ==
  /\ run[p].appReady \/ run[p].outputs # "none"
  /\ run' = [run EXCEPT ![p].stage = "closing", ![p].note = TRUE]
  /\ traffic' \in {traffic, traffic /\ live[Generator] = "absent"}

cleanup_traffic(p) ==
  /\ run[p].stage = "cleanup"
  /\ cleanup_skips(p) \/ cleanup_stops(p) \/ cleanup_fails(p)
  /\ UNCHANGED <<disk, lock, tf, fresh, live, drift, liveUid, namespacePresent,
                 stranger, fixture, runs, faults>>

(* The last phase is saved unless that fails too, and the lock is released *)
(* when execute returns or raises.                                         *)
release(p) ==
  /\ run[p].stage \in {"closing", "verified"}
  /\ lock' = None
  /\ run' = [run EXCEPT ![p] = Idle]
  /\ fresh' = fresh \ {p}
  /\ opReceipt' \in IF run[p].stage = "closing" THEN {"blocked", opReceipt} ELSE {opReceipt}
  /\ UNCHANGED <<namespaceReceipt, namespaceState, manifest, appState,
                 swaggerReceipt, varsFile, tf, tenant, runs, faults>>

(* SIGKILL or loss of power: the kernel drops the lock, the evidence is     *)
(* gone, and a Terraform child lives on in its own session.                *)
crash(p) ==
  /\ Active(p)
  /\ lock' = None
  /\ run' = [run EXCEPT ![p] = Idle]
  /\ fresh' = fresh \ {p}
  /\ tf' = IF tf.owner = p THEN [tf EXCEPT !.owner = "orphan"] ELSE tf
  /\ UNCHANGED <<disk, tenant, runs, faults>>

ControllerNext(p) ==
  \/ \E op \in Operation : acquire(p, op)
  \/ Step(p)
  \/ fail(p)
  \/ cleanup_traffic(p)
  \/ release(p)
  \/ crash(p)

-----------------------------------------------------------------------------
(* Changes nobody asked the lifecycle for.                                 *)
Outside ==
  /\ faults < MaxFaults
  /\ faults' = faults + 1
  /\ UNCHANGED <<disk, control, runs>>

NamespaceDeleted ==
  /\ namespacePresent
  /\ namespacePresent' = FALSE
  /\ live' = [r \in Resource |-> IF r \in XC THEN "absent" ELSE live[r]]
  /\ UNCHANGED <<drift, liveUid, stranger, fixture, traffic>>

(* Deleted and created again between two reads of the lifecycle.           *)
NamespaceReplaced ==
  /\ namespacePresent
  /\ liveUid < MaxUid
  /\ liveUid' = liveUid + 1
  /\ live' = [r \in Resource |-> IF r \in XC THEN "absent" ELSE live[r]]
  /\ UNCHANGED <<drift, namespacePresent, stranger, fixture, traffic>>

NamespaceCreated ==
  /\ ~namespacePresent
  /\ liveUid < MaxUid
  /\ namespacePresent' = TRUE
  /\ liveUid' = liveUid + 1
  /\ UNCHANGED <<live, drift, stranger, fixture, traffic>>

(* Deleting the resource group deletes what is in it.                      *)
ObjectDeleted(r) ==
  /\ live[r] # "absent"
  /\ LET gone == IF r = Group THEN Azure ELSE {r}
     IN  /\ live' = [s \in Resource |-> IF s \in gone THEN "absent" ELSE live[s]]
         /\ traffic' = (traffic /\ Generator \notin gone)
  /\ stranger' = (stranger /\ r # Group)
  /\ UNCHANGED <<drift, liveUid, namespacePresent, fixture>>

ObjectCreated(r) ==
  /\ live[r] = "absent"
  /\ r \in XC => namespacePresent
  /\ r \in Azure \ {Group} => live[Group] # "absent"
  /\ live' = [live EXCEPT ![r] = "foreign"]
  /\ UNCHANGED <<drift, liveUid, namespacePresent, stranger, fixture, traffic>>

ObjectDrifts(r) ==
  /\ live[r] # "absent"
  /\ drift' = drift \cup {r}
  /\ UNCHANGED <<live, liveUid, namespacePresent, stranger, fixture, traffic>>

StrangerCreated ==
  /\ live[Group] # "absent"
  /\ stranger' = TRUE
  /\ UNCHANGED <<live, drift, liveUid, namespacePresent, fixture, traffic>>

FixtureChanged ==
  /\ fixture = "intact"
  /\ fixture' \in {"absent", "altered"}
  /\ UNCHANGED <<live, drift, liveUid, namespacePresent, stranger, traffic>>

OutsideNext ==
  /\ Outside
  /\ \/ NamespaceDeleted \/ NamespaceReplaced \/ NamespaceCreated
     \/ StrangerCreated \/ FixtureChanged
     \/ \E r \in Resource : ObjectDeleted(r) \/ ObjectCreated(r) \/ ObjectDrifts(r)

Init ==
  /\ lock = None
  /\ namespaceReceipt = 0
  /\ namespaceState = FALSE
  /\ manifest = None
  /\ appState = {}
  /\ swaggerReceipt = FALSE
  /\ varsFile = FALSE
  /\ opReceipt = "none"
  /\ fixture = "absent"
  /\ run = [p \in Operator |-> Idle]
  /\ tf = NoTf
  /\ fresh = {}
  /\ live = [r \in Resource |-> "absent"]
  /\ drift = {}
  /\ liveUid = 1
  /\ namespacePresent = TRUE
  /\ stranger = FALSE
  /\ traffic = FALSE
  /\ runs = 0
  /\ faults = 0

Next ==
  \/ \E p \in Operator : ControllerNext(p)
  \/ TerraformNext
  \/ OutsideNext

Spec == Init /\ [][Next]_vars

(* The whole-operation deadline bounds every step, the cleanup has its own *)
(* budget, and the lock is released when the controller returns.           *)
Progress(p) == Step(p) \/ fail(p) \/ cleanup_traffic(p) \/ release(p)

FairSpec == Spec /\ \A p \in Operator : WF_vars(Progress(p))

-----------------------------------------------------------------------------
Verified(p, ops) == run[p].stage = "verified" /\ run[p].op \in ops

(* At most one controller is past the lock, and it is the holder.          *)
MutualExclusion == \A p \in Operator : Active(p) <=> lock = p

(* The ownership ledger always speaks of the namespace whose uid was first *)
(* pinned, over any number of operations, although the receipt and the     *)
(* ledger are written by different steps of different operations and the   *)
(* namespace may be replaced between any two of them.                      *)
LedgerNamesPinnedNamespace ==
  manifest # None => manifest.uid = namespaceReceipt /\ manifest.uid # 0

(* namespace-receipt.json is written once: no later operation adopts       *)
(* another namespace of the same name.                                     *)
UidPinned == [][namespaceReceipt # 0 => namespaceReceipt' = namespaceReceipt]_vars

(* What a running destroy still has to delete is in run-manifest.json, the *)
(* ledger its absence proof will read, even when an earlier controller's   *)
(* Terraform child recorded resources after the inventory was taken.       *)
DestroyDeletesLedgered ==
  tf.mode = "destroy" =>
    /\ manifest # None
    /\ Pending("delete") \subseteq manifest.owned

(* A destroy reported as verified left no recorded resource and no Azure   *)
(* object the lifecycle made, including those of an apply that was killed. *)
VerifiedDestroyIsComplete ==
  \A p \in Operator : Verified(p, {"destroy"}) =>
    /\ appState = {}
    /\ \A r \in Azure : live[r] # "ours"

(* After a verified deploy or rebuild the ledger names exactly what the    *)
(* application state records, so a later destroy can prove absence of all. *)
VerifiedDeployLedger ==
  \A p \in Operator : Verified(p, {"deploy", "rebuild"}) =>
    manifest # None /\ manifest.owned = appState

(* An operation that fails once the backend is ready, or with outputs,     *)
(* leaves no traffic running unless its receipt says that the stop failed. *)
ReadyFailureStopsTraffic ==
  \A p \in Operator :
    run[p].stage = "closing" /\ (run[p].appReady \/ run[p].outputs # "none") /\ traffic
      => run[p].note

(* No destroy or rebuild is verified when the pinned schema object had     *)
(* been altered before it began.                                           *)
FixtureProved ==
  \A p \in Operator : Verified(p, {"destroy", "rebuild"}) => run[p].began # "altered"

(* verify imports, applies and repairs nothing: while it holds the lock,   *)
(* only the outside and a child left behind change the deployment (a       *)
(* verify that fails does stop the traffic).                               *)
VerifyMutatesNothing ==
  [][(\E p \in Operator : Active(p) /\ run[p].op = "verify")
       /\ tf.owner # "orphan" /\ faults' = faults
     => UNCHANGED <<live, drift, appState, namespaceState>>]_vars

(* Every operation ends and frees the lock, also when its Terraform child  *)
(* hangs.                                                                  *)
LockReleased == \A p \in Operator : lock = p ~> lock # p

-----------------------------------------------------------------------------
(* Statements of the documentation and the tests that the code does not    *)
(* keep.                                                                   *)

(* docs/en/demo/index.mdx: "Traffic stop is attempted on failure".         *)
FailureAttemptsTrafficStop ==
  \A p \in Operator : run[p].stage = "closing" /\ traffic => run[p].stopped \/ run[p].note

(* terraform/README.md: verify "checks namespace preservation and fixture  *)
(* integrity".                                                             *)
VerifyChecksFixture ==
  \A p \in Operator : Verified(p, {"verify"}) => run[p].began # "altered"

(* terraform/README.md: the lifecycle blocks "replacement of existing      *)
(* application objects"; an object a deploy found in its state survives.   *)
DeployNeverReplaces ==
  [][\A r \in Resource :
       (\E p \in Operator : Active(p) /\ run[p].op = "deploy") /\ faults' = faults
         /\ tf.mode = "deploy" /\ live[r] = "ours" => live'[r] = "ours"]_vars

(* test_partial_apply_destroy_uses_inventory_not_showcase_output: the      *)
(* destroy of a partial apply gets its absence proof.                      *)
AbsenceProvable ==
  \A p \in Operator :
    At(p, "absence") /\ manifest # None /\ Residue = {} /\ Preserved
      => manifest_shape(manifest)
=============================================================================
