------------------------- MODULE LifecycleTerraform -------------------------
(***************************************************************************)
(* Terraform and namespace steps of an operation.  A step of controller p  *)
(* is named by Program(op)[at] in DemoLifecycle; every step that succeeds  *)
(* goes through Advance, and a check that fails is the absence of the      *)
(* step: DemoLifecycle!Fail then raises.                                   *)
(***************************************************************************)
EXTENDS LifecycleState

(* The next position of the operation, with the evidence in r.  Every step *)
(* rewrites operation-receipt.json, whose status is "running" until the    *)
(* end.                                                                    *)
Advance(p, r) ==
  /\ run' = [run EXCEPT ![p] = [r EXCEPT !.at = @ + 1]]
  /\ opReceipt' = "running"

(* Only the evidence of a controller and its receipt change.               *)
Still == UNCHANGED <<namespaceReceipt, namespaceState, manifest, appState,
                     swaggerReceipt, varsFile, lock, tf, fresh, tenant, runs, faults>>

(* Mutant: the saved receipt is not compared with what was read.           *)
namespace_observe_unpinned(p) ==
  /\ namespacePresent
  /\ manifest # None => manifest.uid = liveUid
  /\ run[p].uid \in {0, liveUid}
  /\ Advance(p, [run[p] EXCEPT !.seen = liveUid])
  /\ Still

(* namespace_prepare up to the checks: one GET of the namespace, compared  *)
(* with namespace-receipt.json, run-manifest.json and this run's uid.      *)
namespace_observe(p) ==
  /\ namespacePresent
  /\ namespaceState => namespaceReceipt # 0 \/ manifest # None \/ run[p].uid # 0
  /\ namespaceReceipt \in {0, liveUid}
  /\ manifest # None => manifest.uid = liveUid
  /\ run[p].uid \in {0, liveUid}
  /\ Advance(p, [run[p] EXCEPT !.seen = liveUid])
  /\ Still

(* namespace_prepare from the first assignment on: the uid that was read,  *)
(* not the one the tenant has by now, becomes the evidence.                *)
namespace_save(p) ==
  /\ run[p].seen # 0
  /\ Advance(p, [run[p] EXCEPT !.uid = run[p].seen])
  /\ namespaceReceipt' = run[p].seen
  /\ UNCHANGED <<namespaceState, manifest, appState, swaggerReceipt, varsFile,
                 lock, tf, fresh, tenant, runs, faults>>

(* Entry of namespace_tf_prepare.  Without create the namespace must       *)
(* already be in namespace.tfstate.                                        *)
namespace_gate(p, create) ==
  /\ create \/ namespaceState
  /\ run[p].uid # 0 \/ namespaceReceipt # 0
  /\ Advance(p, run[p])
  /\ Still

(* The import, with its own namespace_prepare before it, is skipped when   *)
(* namespace.tfstate exists.                                               *)
ImportSteps == 3

namespace_exists(p) ==
  /\ Advance(p, [run[p] EXCEPT !.at = IF namespaceState THEN @ + ImportSteps ELSE @])
  /\ Still

namespace_import(p) ==
  /\ namespacePresent
  /\ namespaceState' = TRUE
  /\ Advance(p, run[p])
  /\ UNCHANGED <<namespaceReceipt, manifest, appState, swaggerReceipt, varsFile,
                 lock, tf, fresh, tenant, runs, faults>>

(* The provider state holds the namespace and nothing else.                *)
namespace_state_identity == namespaceState

(* The guard of the preservation plan.  The provider identifies the        *)
(* namespace by name: a recreated namespace still plans to a no-op, a      *)
(* missing one plans to a refused create.                                  *)
namespace_no_op == namespacePresent

namespace_plan(p) ==
  /\ namespace_state_identity
  /\ namespace_no_op
  /\ Advance(p, run[p])
  /\ Still

(* The receipts, the provider state and the live uid agree.                *)
foundation_proof(p) ==
  /\ namespaceState
  /\ namespacePresent
  /\ namespaceReceipt = liveUid
  /\ run[p].uid \in {0, liveUid}

app_init(p) ==
  /\ Advance(p, [run[p] EXCEPT !.appReady = TRUE])
  /\ Still

-----------------------------------------------------------------------------
(* What `terraform plan` proposes after refreshing: an object gone from    *)
(* the tenant is created again, a changed one is updated or, when the      *)
(* change forces it, replaced.                                             *)
Refreshed == {r \in appState : live[r] # "absent"}

Proposed(mode, replaced) ==
  [r \in Resource |->
     IF mode = "destroy" THEN IF r \in Refreshed THEN "delete" ELSE "no-op"
     ELSE IF r \notin Refreshed THEN "create"
     ELSE IF r \notin drift THEN "no-op"
     ELSE IF r \in replaced THEN "replace" ELSE "update"]

(* plan: a plan needs the state lock, is guarded and then saved.  Its      *)
(* conflict check is a separate step, made of separate reads.              *)
plan(p, mode, owned) ==
  /\ ~StateLocked
  /\ \E replaced \in SUBSET drift :
       LET change == Proposed(mode, replaced)
       IN  /\ guard_plan(change, mode, owned)
           /\ Advance(p, [run[p] EXCEPT
                !.plan = [mode |-> mode, change |-> change, prior |-> Refreshed]])
  /\ fresh' = fresh \cup {p}
  /\ UNCHANGED <<namespaceReceipt, namespaceState, manifest, appState,
                 swaggerReceipt, varsFile, lock, tf, tenant, runs, faults>>

(* Nothing the plan creates may exist already: the resource group and the  *)
(* XC objects are looked up by name.  A replaced XC object is found, and   *)
(* refused, too.                                                           *)
Conflicts(change) ==
  {r \in XC \cup {Group} : change[r] \in {"create", "replace"} /\ live[r] # "absent"}

guard_conflicts(p) ==
  /\ Conflicts(run[p].plan.change) = {}
  /\ Advance(p, run[p])
  /\ Still

(* No child of the resource group is outside the state, apart from the     *)
(* disk of an owned machine that can be read.                              *)
guard_group_children(owned) ==
  /\ Generator \in owned => live[Generator] # "absent"
  /\ Group \in owned =>
       /\ ~stranger
       /\ \A r \in Azure : live[r] # "absent" => r \in owned

(* get_outputs: the showcase output can outlive some of the resources.     *)
get_outputs(p) ==
  /\ appState # {}
  /\ Advance(p, [run[p] EXCEPT !.outputs = "showcase"])
  /\ Still

-----------------------------------------------------------------------------
(* `terraform apply <saved plan>` as a child process.  It refuses a plan   *)
(* whose state serial moved on, and holds the state lock until it ends.    *)
apply_start(p) ==
  /\ ~StateLocked
  /\ p \in fresh
  /\ tf' = [owner |-> p, mode |-> run[p].plan.mode, change |-> run[p].plan.change, made |-> {}]
  /\ appState' = run[p].plan.prior
  /\ fresh' = {}
  /\ Advance(p, run[p])
  /\ UNCHANGED <<namespaceReceipt, namespaceState, manifest, swaggerReceipt,
                 varsFile, lock, tenant, runs, faults>>

Pending(c) == {r \in Resource : tf.change[r] = c}

TfQuiet == UNCHANGED <<namespaceReceipt, namespaceState, manifest, swaggerReceipt,
                       varsFile, opReceipt, lock, run, fresh, liveUid,
                       namespacePresent, stranger, fixture, runs, faults>>

(* The provider deletes the live object, then Terraform forgets it.  The   *)
(* group is only deleted when empty.                                       *)
TfDelete(r) ==
  /\ StateLocked
  /\ r \in Pending("delete") \cup Pending("replace")
  /\ live[r] # "absent"
  /\ r \in Pending("delete") => \A s \in appState : r \notin Requires[s]
  /\ r = Group => ~stranger /\ \A s \in Azure \ {r} : live[s] = "absent"
  /\ live' = [live EXCEPT ![r] = "absent"]
  /\ traffic' = (traffic /\ r # Generator)
  /\ UNCHANGED <<tf, appState, drift>>
  /\ TfQuiet

TfForget(r) ==
  /\ StateLocked
  /\ r \in Pending("delete") \cup Pending("replace")
  /\ live[r] = "absent"
  /\ appState' = appState \ {r}
  /\ tf' = [tf EXCEPT !.change[r] = IF @ = "replace" THEN "create" ELSE "no-op"]
  /\ UNCHANGED <<live, traffic, drift>>
  /\ TfQuiet

(* The provider creates the live object, then Terraform records it; a name *)
(* that is taken, or a parent that is gone, makes the apply fail.          *)
TfCreate(r) ==
  /\ StateLocked
  /\ r \in Pending("create") \ tf.made
  /\ \A s \in Requires[r] : s \in appState /\ live[s] # "absent"
  /\ r \in XC => namespacePresent
  /\ live[r] = "absent"
  /\ live' = [live EXCEPT ![r] = "ours"]
  /\ tf' = [tf EXCEPT !.made = @ \cup {r}]
  /\ UNCHANGED <<appState, traffic, drift>>
  /\ TfQuiet

TfRecord(r) ==
  /\ StateLocked
  /\ r \in tf.made
  /\ appState' = appState \cup {r}
  /\ tf' = [tf EXCEPT !.change[r] = "no-op", !.made = @ \ {r}]
  /\ drift' = drift \ {r}
  /\ UNCHANGED <<live, traffic>>
  /\ TfQuiet

TfUpdate(r) ==
  /\ StateLocked
  /\ r \in Pending("update")
  /\ live[r] # "absent"
  /\ tf' = [tf EXCEPT !.change[r] = "no-op"]
  /\ drift' = drift \ {r}
  /\ UNCHANGED <<live, traffic, appState>>
  /\ TfQuiet

(* Exit 0 lets the controller that waits for it go on.                     *)
TfDone ==
  /\ StateLocked
  /\ tf.change = NothingToDo
  /\ tf.made = {}
  /\ tf' = NoTf
  /\ IF tf.owner \in Operator THEN Advance(tf.owner, run[tf.owner])
     ELSE UNCHANGED <<run, opReceipt>>
  /\ UNCHANGED <<namespaceReceipt, namespaceState, manifest, appState,
                 swaggerReceipt, varsFile, lock, fresh, tenant, runs, faults>>

(* An error exit records what was made first; a child left behind by a     *)
(* dead controller dies when it writes to the closed pipe, at any moment.  *)
TfError ==
  /\ StateLocked
  /\ tf.made = {} \/ tf.owner = "orphan"
  /\ tf' = NoTf
  /\ UNCHANGED <<disk, lock, run, fresh, tenant, runs, faults>>

TerraformNext ==
  \/ \E r \in Resource : \/ TfDelete(r) \/ TfForget(r)
                         \/ TfCreate(r) \/ TfRecord(r) \/ TfUpdate(r)
  \/ TfDone \/ TfError
=============================================================================
