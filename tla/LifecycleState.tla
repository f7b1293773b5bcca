--------------------------- MODULE LifecycleState ---------------------------
(***************************************************************************)
(* The state every part of the demo lifecycle works on: the private state  *)
(* directory (receipts, Terraform state files, lock), the tenant and the   *)
(* subscription it describes, the Terraform child process, and the         *)
(* in-memory evidence of each controller (RunState).                       *)
(*                                                                         *)
(* Addresses stand for Terraform resource addresses.  The provider ids in  *)
(* this program are functions of the address (names are fixed by the       *)
(* profile), so an address and its id are one value here.                  *)
(***************************************************************************)
EXTENDS Naturals, FiniteSets, Sequences

CONSTANTS
  Operator,    \* controllers started against one state directory
  Azure,       \* addresses whose type is in AZURE_TYPES
  XC,          \* addresses whose type is in XC_TYPES
  Group,       \* the azurerm_resource_group, a member of Azure
  Generator,   \* the traffic generator's virtual machine, a member of Azure
  Requires,    \* [Resource -> SUBSET Resource]: direct Terraform dependencies
  None         \* absent lock holder, manifest or list of resources

Resource == Azure \cup XC

ASSUME StateAssumption ==
  /\ Azure \cap XC = {}
  /\ {Group, Generator} \subseteq Azure
  /\ Requires \in [Resource -> SUBSET Resource]
  /\ None \notin Operator
  /\ "orphan" \notin Operator \cup {None}
  /\ None \notin [uid : Nat, owned : SUBSET Resource]

(* Every object of the group refers to the group or to an object of it.    *)
ASSUME GroupAssumption ==
  \A r \in Azure \ {Group} : Requires[r] \cap Azure # {}

VARIABLES
  \* private state directory
  lock,         \* holder of lifecycle.lock
  namespaceReceipt, \* uid in namespace-receipt.json, 0 when there is no file
  namespaceState,   \* namespace.tfstate holds the imported namespace
  manifest,     \* run-manifest.json: [uid, owned] or None
  appState,     \* addresses recorded in application.tfstate
  swaggerReceipt,   \* swagger-receipt.json exists
  varsFile,     \* application.tfvars.json exists
  opReceipt,    \* status in operation-receipt.json
  \* controllers and their Terraform child
  run,          \* RunState of each controller
  tf,           \* the `terraform apply` process holding the native state lock
  fresh,        \* controllers whose saved plan still matches the state serial
  \* tenant and subscription
  live,         \* [Resource -> {"absent", "ours", "foreign"}]
  drift,        \* live objects that differ from the profile
  liveUid,      \* uid of the namespace of the tenant
  namespacePresent, \* the namespace exists
  stranger,     \* the resource group holds a child nobody's state knows
  fixture,      \* the pinned schema object: "absent", "intact" or "altered"
  traffic,      \* the generator's continuous service is running
  \* bounds
  runs,         \* operations started
  faults        \* changes made from outside the lifecycle

disk    == <<namespaceReceipt, namespaceState, manifest, appState,
             swaggerReceipt, varsFile, opReceipt>>
control == <<lock, run, tf, fresh>>
tenant  == <<live, drift, liveUid, namespacePresent, stranger, fixture, traffic>>
vars    == <<disk, control, tenant, runs, faults>>

-----------------------------------------------------------------------------
Operation == {"deploy", "verify", "rebuild", "destroy"}
Mode      == {"deploy", "noop", "destroy"}
Change    == {"no-op", "create", "update", "replace", "delete"}
Plan      == [mode : Mode, change : [Resource -> Change], prior : SUBSET Resource]

NothingToDo == [r \in Resource |-> "no-op"]
NoPlan      == [mode |-> "noop", change |-> NothingToDo, prior |-> {}]

(* RunState and the local variables of the operation in progress.          *)
Run == [stage     : {"idle", "running", "cleanup", "closing", "verified"},
        op        : Operation,
        at        : Nat,                        \* position in the operation
        seen      : Nat,                        \* uid just read from the tenant
        uid       : Nat,                        \* namespace_uid, 0 when unset
        outputs   : {"none", "showcase", "generator"},
        appReady  : BOOLEAN,
        resources : (SUBSET Resource) \cup {None},
        owned     : (SUBSET Resource) \cup {None},  \* what inventory returned
        plan      : Plan,
        note      : BOOLEAN,                    \* receipt has a "cleanup" entry
        stopped   : BOOLEAN,                    \* a traffic stop was attempted
        began     : {"absent", "intact", "altered"}]  \* fixture at lock time

(* What is left of a run when its process has ended.                       *)
Idle == [stage |-> "idle", op |-> "deploy", at |-> 1, seen |-> 0, uid |-> 0,
         outputs |-> "none", appReady |-> FALSE, resources |-> None,
         owned |-> None, plan |-> NoPlan,
         note |-> FALSE, stopped |-> FALSE, began |-> "absent"]

NewRun(op) == [Idle EXCEPT !.stage = "running", !.op = op, !.began = fixture]

(* The `terraform apply` child: who waits for it, what its saved plan has   *)
(* left to do, and what it made but did not record yet.                    *)
Terraform == [owner  : Operator \cup {None, "orphan"},
              mode   : Mode,
              change : [Resource -> Change],
              made   : SUBSET Resource]

NoTf == [owner |-> None, mode |-> "noop", change |-> NothingToDo, made |-> {}]

(* The native state lock of application.tfstate.                           *)
StateLocked == tf.owner # None

Active(p) == run[p].stage # "idle"

-----------------------------------------------------------------------------
(* Mutant: a destroy plan may delete what the inventory did not capture.   *)
guard_change_unowned(r, change, mode, owned) ==
  /\ mode = "noop" => change = "no-op"
  /\ mode = "destroy" => change \in {"delete", "no-op"}

(* Which changes a saved plan may contain.  Only the destroy mode bounds    *)
(* deletions, by the inventory captured in this operation; only the noop   *)
(* mode refuses updates and replacements.                                  *)
guard_change(r, change, mode, owned) ==
  /\ r \in Azure \cup XC \/ change = "no-op"
  /\ mode = "noop" => change = "no-op"
  /\ mode = "destroy" => /\ change \in {"delete", "no-op"}
                         /\ change = "delete" /\ owned # None => r \in owned

guard_plan(change, mode, owned) ==
  \A r \in DOMAIN change : guard_change(r, change[r], mode, owned)

-----------------------------------------------------------------------------
TypeOK ==
  /\ lock \in Operator \cup {None}
  /\ namespaceReceipt \in Nat
  /\ namespaceState \in BOOLEAN
  /\ manifest \in [uid : Nat, owned : SUBSET Resource] \cup {None}
  /\ appState \subseteq Resource
  /\ swaggerReceipt \in BOOLEAN
  /\ varsFile \in BOOLEAN
  /\ opReceipt \in {"none", "running", "verified", "blocked"}
  /\ run \in [Operator -> Run]
  /\ tf \in Terraform
  /\ fresh \subseteq Operator
  /\ live \in [Resource -> {"absent", "ours", "foreign"}]
  /\ drift \subseteq Resource
  /\ liveUid \in Nat
  /\ namespacePresent \in BOOLEAN
  /\ stranger \in BOOLEAN
  /\ fixture \in {"absent", "intact", "altered"}
  /\ traffic \in BOOLEAN
  /\ runs \in Nat
  /\ faults \in Nat
=============================================================================
