---------------------------- MODULE CompleteRead ----------------------------
(***************************************************************************)
(* What Client.pages of scripts/demo_verify_client.py promises to the      *)
(* verifier: a read of a window of an index that goes on growing returns   *)
(* everything the window held when the read began and nothing that was     *)
(* never in the index, or it returns nothing at all. The one exception are *)
(* stores that show a page again which makes the count of the records: of  *)
(* them it promises only that what is returned is in the index.            *)
(***************************************************************************)
CONSTANTS Record, None

VARIABLES
  index,   \* the records the telemetry store has
  wanted,  \* what the window held when the read began, or None
  result,  \* what was returned, or None
  repeated \* a page that was shown before made the count

readVars == <<index, wanted, result, repeated>>

Init == index \subseteq Record /\ wanted = None /\ result = None /\ repeated = FALSE

Insert ==
  /\ index' \in SUBSET Record /\ index \subseteq index'
  /\ UNCHANGED <<wanted, result, repeated>>

Ask == wanted = None /\ wanted' \in SUBSET index /\ UNCHANGED <<index, result, repeated>>

Repeat == wanted # None /\ result = None /\ repeated' = TRUE /\ UNCHANGED <<index, wanted, result>>

Return ==
  /\ wanted # None /\ result = None
  /\ result' \in SUBSET index /\ (~repeated => wanted \subseteq result')
  /\ UNCHANGED <<index, wanted, repeated>>

Next == Insert \/ Ask \/ Repeat \/ Return

Spec == Init /\ [][Next]_readVars
=============================================================================
