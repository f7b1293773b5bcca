----------------------------- MODULE PinLedger ------------------------------
(***************************************************************************)
(* What scripts/swagger_upload.py promises to its callers, whatever number *)
(* of uploaders run: a receipt is written once, and it pairs a document    *)
(* with a version under which the object store held exactly that document. *)
(***************************************************************************)
CONSTANTS Receipt, Text, Version, None

VARIABLES
  receipts,  \* what each receipt file holds: a pin, or None
  stored     \* every pair <<version, text>> the store has ever held

pinVars == <<receipts, stored>>

Pin == [text : Text, version : Version]

Init ==
  /\ receipts = [r \in Receipt |-> None]
  /\ stored = {}

Store(v, t) ==
  /\ stored' = stored \cup {<<v, t>>}
  /\ UNCHANGED receipts

Publish(r, v, t) ==
  /\ receipts[r] = None
  /\ <<v, t>> \in stored
  /\ receipts' = [receipts EXCEPT ![r] = [text |-> t, version |-> v]]
  /\ UNCHANGED stored

Next ==
  \E v \in Version, t \in Text : Store(v, t) \/ \E r \in Receipt : Publish(r, v, t)

Spec == Init /\ [][Next]_pinVars
=============================================================================
