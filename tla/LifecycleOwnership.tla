------------------------- MODULE LifecycleOwnership -------------------------
(***************************************************************************)
(* Ownership steps of an operation: the inventory ledger, access to the    *)
(* traffic generator, the live verifier and the schema fixture.            *)
(***************************************************************************)
EXTENDS LifecycleTerraform

(* An earlier ledger speaks of the namespace this run has observed.        *)
previous_manifest(p) == manifest # None => manifest.uid = run[p].uid

(* An operation needs something it owns; the types of what it owns are     *)
(* known by construction, addresses being in Azure or XC.                  *)
application_resources == appState # {}

(* inventory up to the Terraform read: foundation, previous ledger, and    *)
(* the addresses recorded right now.  `terraform show` takes no lock.      *)
inventory_read(p) ==
  /\ run[p].uid # 0
  /\ foundation_proof(p)
  /\ previous_manifest(p)
  /\ application_resources
  /\ run[p].op \in {"destroy", "rebuild"} => guard_group_children(appState)
  /\ Advance(p, [run[p] EXCEPT !.resources = appState])
  /\ Still

(* Every XC object of the state is read by name.                           *)
xc_ownership(p) == \A r \in run[p].resources \cap XC : live[r] # "absent"

(* Mutant: the uid is read once more, and recorded, but not compared.      *)
inventory_save_unchecked(p) ==
  /\ \A r \in run[p].resources \cap XC : live[r] # "absent"
  /\ namespacePresent
  /\ manifest' = [uid |-> liveUid, owned |-> run[p].resources]
  /\ Advance(p, [run[p] EXCEPT !.owned = run[p].resources])
  /\ UNCHANGED <<namespaceReceipt, namespaceState, appState, swaggerReceipt,
                 varsFile, lock, tf, fresh, tenant, runs, faults>>

(* Mutant: only the operations that delete write the ledger.               *)
inventory_save_destroying(p) ==
  /\ \A r \in run[p].resources \cap XC : live[r] # "absent"
  /\ namespacePresent
  /\ liveUid = run[p].uid
  /\ manifest' = IF run[p].op = "destroy"
                 THEN [uid |-> run[p].uid, owned |-> run[p].resources] ELSE manifest
  /\ Advance(p, [run[p] EXCEPT !.owned = run[p].resources])
  /\ UNCHANGED <<namespaceReceipt, namespaceState, appState, swaggerReceipt,
                 varsFile, lock, tf, fresh, tenant, runs, faults>>

(* The rest of inventory: the XC objects, the uid of the namespace         *)
(* once more, then the ledger replaces the previous one and is returned.   *)
inventory_save(p) ==
  /\ run[p].resources # None
  /\ xc_ownership(p)
  /\ namespacePresent
  /\ liveUid = run[p].uid
  /\ manifest' = [uid |-> run[p].uid, owned |-> run[p].resources]
  /\ Advance(p, [run[p] EXCEPT !.owned = run[p].resources])
  /\ UNCHANGED <<namespaceReceipt, namespaceState, appState, swaggerReceipt,
                 varsFile, lock, tf, fresh, tenant, runs, faults>>

(* The machine, its interface and its address are in the captured state,   *)
(* and associated with each other.                                         *)
guest_records(resources) == Generator \in resources

live_guest_matches == live[Generator] # "absent"

(* owned_guest: the machine in the captured state is the live machine.     *)
owned_guest(resources) == guest_records(resources) /\ live_guest_matches

(* cleanup_access of a destroy: access to the generator, or none when the  *)
(* state holds no generator.                                               *)
AccessTo(resources) == IF Generator \in resources THEN "generator" ELSE "none"

cleanup_access(p) ==
  /\ Generator \in run[p].resources => owned_guest(run[p].resources)
  /\ Advance(p, [run[p] EXCEPT !.outputs = AccessTo(run[p].resources)])
  /\ Still

traffic_start(p) ==
  /\ run[p].outputs # "none" => owned_guest(run[p].resources)
  /\ traffic' = (traffic \/ run[p].outputs # "none")
  /\ Advance(p, run[p])
  /\ UNCHANGED <<namespaceReceipt, namespaceState, manifest, appState,
                 swaggerReceipt, varsFile, lock, tf, fresh, live, drift, liveUid,
                 namespacePresent, stranger, fixture, runs, faults>>

(* Without access there is nothing to stop and the step returns.           *)
traffic_stop(p) ==
  /\ run[p].outputs # "none" => owned_guest(run[p].resources)
  /\ traffic' = (traffic /\ run[p].outputs = "none")
  /\ Advance(p, [run[p] EXCEPT !.stopped = @ \/ run[p].outputs # "none"])
  /\ UNCHANGED <<namespaceReceipt, namespaceState, manifest, appState,
                 swaggerReceipt, varsFile, lock, tf, fresh, live, drift, liveUid,
                 namespacePresent, stranger, fixture, runs, faults>>

-----------------------------------------------------------------------------
(* verify_phase runs the verifier, which answers from live evidence.       *)
verify_readiness(p) ==
  /\ run[p].outputs # "none"
  /\ \A r \in Resource : live[r] # "absent"
  /\ owned_guest(run[p].resources)
  /\ Advance(p, run[p])
  /\ Still

(* Acceptance waits for the continuous service and two full passes of it.  *)
verify_acceptance(p) ==
  /\ traffic
  /\ \A r \in Resource : live[r] # "absent"
  /\ owned_guest(run[p].resources)
  /\ Advance(p, run[p])
  /\ Still

(* Mutant: a manifest of one kind of object is enough.                     *)
manifest_shape_partial(m) == m.owned # {}

(* The verifier reads absence only from a manifest that names owned Azure  *)
(* and owned XC objects.                                                   *)
manifest_shape(m) == m.owned \cap Azure # {} /\ m.owned \cap XC # {}

Residue == {r \in manifest.owned : live[r] # "absent"}

Preserved == namespacePresent /\ liveUid = manifest.uid

verify_absence(p) ==
  /\ manifest # None
  /\ manifest_shape(manifest)
  /\ Residue = {}
  /\ Preserved
  /\ Advance(p, run[p])
  /\ Still

(* Mutant: the receipts are compared, the object is not read.              *)
verify_fixture_receipts(p) ==
  /\ swaggerReceipt
  /\ varsFile
  /\ Advance(p, run[p])
  /\ Still

(* The receipt and the deployed inputs are there and name the same object. *)
fixture_receipt == swaggerReceipt /\ varsFile

(* verify_fixture: the content of the object they name is read back.       *)
verify_fixture(p) ==
  /\ fixture_receipt
  /\ fixture = "intact"
  /\ Advance(p, run[p])
  /\ Still
=============================================================================
