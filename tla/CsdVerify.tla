------------------------------ MODULE CsdVerify ------------------------------
(* scripts/csd_verify.py: reads the six parts of the client-side defense      *)
(* telemetry one after the other and judges them together, with a pause of a  *)
(* minute in between, until the evidence is complete or the time is over,     *)
(* while the telemetry goes on.  Time is since the verifier's start, in units *)
(* of which the pause has several; --since-epoch is 0.                        *)
EXTENDS Integers, FiniteSets

CONSTANTS
  Scripts,      \* scripts that load from the expected domain
  PollMin,      \* --poll-min
  Pause,        \* the minute between two snapshots
  MaxTime,      \* bound: the time a snapshot may still take to read
  MaxChanges    \* bound: changes of the telemetry

VERIFIED == 0
CONFIG_FAILURE == 2
PENDING == 3
Running == -1
Parts == <<"config", "status", "detected_domains", "scripts", "summary", "mitigated_domains">>
Never == -2

VARIABLES
  phase,       \* --phase
  enabled,     \* client-side defense: configured in the spec, enabled in its status
  detected,    \* the expected domain is in detected_domains
  scripts,     \* what scripts says of each: last seen, High Risk, users, blocked
  blocked,     \* the namespace's counter of blocked scripts is not 0
  mitigated,   \* the expected domain is in mitigated_domains
  changes,
  clock,
  part,        \* the part of the snapshot that is read next
  snapshot,    \* the parts read so far
  polled,      \* when this snapshot was begun,
  complete,    \* and whether the evidence was complete then
  verdict      \* the exit status
telemetry == <<enabled, detected, scripts, blocked, mitigated, changes>>
vars == <<phase, telemetry, clock, part, snapshot, polled, complete, verdict>>

-----------------------------------------------------------------------------
Live ==
  [config |-> enabled, status |-> enabled, detected_domains |-> detected, scripts |-> scripts,
   summary |-> blocked, mitigated_domains |-> mitigated]

Fresh(s) == s.seen >= 0
Hits(snap) == {s \in Scripts : snap.scripts[s].seen # Never}
HighRisk(snap) == {s \in Hits(snap) : Fresh(snap.scripts[s]) /\ snap.scripts[s].high}
Affected(snap) == \E s \in HighRisk(snap) : snap.scripts[s].users
BlockedIn_record(snap) == \E s \in HighRisk(snap) : snap.scripts[s].blocked
BlockedIn(snap) == snap.summary \/ \E s \in HighRisk(snap) : snap.scripts[s].blocked

evaluate(snap) ==
  IF ~snap.config \/ ~snap.status THEN CONFIG_FAILURE
  ELSE IF ~snap.detected_domains \/ ~Affected(snap) THEN PENDING
  ELSE IF phase = "mitigation" /\ ~(snap.mitigated_domains /\ BlockedIn(snap)) THEN PENDING
  ELSE VERIFIED

-----------------------------------------------------------------------------
(* What the evidence of the phase is, apart from how it is judged.            *)
Complete ==
  /\ enabled /\ detected
  /\ \E s \in Scripts : scripts[s].seen >= 0 /\ scripts[s].high /\ scripts[s].users
  /\ phase = "mitigation" => mitigated /\ blocked

Init ==
  /\ enabled \in BOOLEAN /\ detected \in BOOLEAN /\ blocked \in BOOLEAN /\ mitigated \in BOOLEAN
  /\ scripts \in [Scripts ->
       { [seen |-> Never, high |-> FALSE, users |-> FALSE, blocked |-> FALSE],
         [seen |-> -1, high |-> TRUE, users |-> TRUE, blocked |-> FALSE] }]
  /\ phase \in {"detection", "mitigation"} /\ changes = 0
  /\ clock = 0 /\ polled = 0 /\ part = 1
  /\ snapshot = Live /\ complete = Complete
  /\ verdict = Running

ReadPart ==
  /\ verdict = Running /\ part <= 6
  /\ snapshot' = [snapshot EXCEPT ![Parts[part]] = Live[Parts[part]]]
  /\ part' = part + 1
  /\ UNCHANGED <<phase, telemetry, clock, polled, complete, verdict>>

(* Any failure of a read ends the verifier: it fails closed.                  *)
ReadFails ==
  /\ verdict = Running /\ part <= 6
  /\ verdict' = CONFIG_FAILURE
  /\ UNCHANGED <<phase, telemetry, clock, part, snapshot, polled, complete>>

Over == clock >= PollMin

Woken == clock + Pause

(* What main does with a snapshot: report and end, or sleep for a minute. The *)
(* time is looked at before the sleep, and not again after it.                *)
Judge ==
  /\ verdict = Running /\ part = 7
  /\ LET code == evaluate(snapshot) IN
       IF code # PENDING \/ Over
       THEN verdict' = code /\ UNCHANGED <<clock, part, snapshot, polled, complete>>
       ELSE /\ clock' = Woken /\ polled' = Woken
            /\ part' = 1 /\ snapshot' = Live
            /\ complete' = Complete
            /\ UNCHANGED verdict
  /\ UNCHANGED <<phase, telemetry>>

-----------------------------------------------------------------------------
(* Time passes while a snapshot is read.                                      *)
Tick ==
  /\ verdict = Running /\ part <= 6 /\ clock < polled + MaxTime
  /\ clock' = clock + 1
  /\ UNCHANGED <<phase, telemetry, part, snapshot, polled, complete, verdict>>

Telemetry ==
  /\ verdict = Running
  /\ changes < MaxChanges /\ changes' = changes + 1
  /\ \/ enabled' = ~enabled /\ UNCHANGED <<detected, scripts, blocked, mitigated>>
     \/ \E s \in Scripts :
          /\ scripts' = [scripts EXCEPT ![s].seen = clock]
          /\ detected' = TRUE /\ UNCHANGED <<enabled, blocked, mitigated>>
     \/ \E s \in Scripts, field \in {"high", "users"} :
          /\ scripts[s].seen # Never /\ scripts' = [scripts EXCEPT ![s][field] = TRUE]
          /\ UNCHANGED <<enabled, detected, blocked, mitigated>>
     \/ mitigated' = TRUE /\ UNCHANGED <<enabled, detected, scripts, blocked>>
     \* a script of the expected domain, once mitigated, or of another domain is blocked
     \/ \E s \in Scripts :
          /\ mitigated /\ scripts[s].seen # Never /\ enabled
          /\ scripts' = [scripts EXCEPT ![s].blocked = TRUE] /\ blocked' = TRUE
          /\ UNCHANGED <<enabled, detected, mitigated>>
     \/ blocked' = TRUE /\ UNCHANGED <<enabled, detected, scripts, mitigated>>
  /\ UNCHANGED <<phase, clock, part, snapshot, polled, complete, verdict>>

Verify == ReadPart \/ Judge
Next == Verify \/ ReadFails \/ Tick \/ Telemetry
Spec == Init /\ [][Next]_vars

-----------------------------------------------------------------------------
TypeOK ==
  /\ enabled \in BOOLEAN /\ detected \in BOOLEAN /\ blocked \in BOOLEAN /\ mitigated \in BOOLEAN
  /\ scripts \in [Scripts -> [seen : {Never, -1} \cup Nat, high : BOOLEAN, users : BOOLEAN,
                              blocked : BOOLEAN]]
  /\ phase \in {"detection", "mitigation"} /\ changes \in 0..MaxChanges
  /\ clock \in Nat /\ polled \in 0..clock /\ part \in 1..7
  /\ complete \in BOOLEAN /\ verdict \in {-1, 0, 2, 3}

(* A verified detection rests on one script of the expected domain that was   *)
(* seen since the start, is High Risk and has users: what was true of several *)
(* scripts, or of another visit, is not added up.                             *)
OneScriptProves ==
  verdict = VERIFIED =>
    \E s \in Scripts : scripts[s].seen >= 0 /\ scripts[s].high /\ scripts[s].users

(* The verifier gives up only after its time, and never when the evidence was *)
(* complete before the last snapshot was begun, unless the defense was off.   *)
PendingHonest == verdict = PENDING => clock >= PollMin /\ ~complete

(* A snapshot is begun after the deadline by less than the pause, where the   *)
(* sleep went past it, and so it is the last one.                             *)
PollsBounded == polled < PollMin + Pause
=============================================================================
