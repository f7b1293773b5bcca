----------------------------- MODULE Acceptance -----------------------------
(***************************************************************************)
(* The acceptance phase of the live verifier (scripts/demo_verify.py with  *)
(* demo_verify_evidence.py): one set of synthetic requests per domain,     *)
(* then polling of telemetry and of the generator's status until every     *)
(* control is attributed or the deadline comes. The tenant answers each    *)
(* request as it likes, by any control; events and detections become       *)
(* readable late or never, in any order, among those of other users.       *)
(* Time is in seconds and passes where two stamps are compared: before a   *)
(* domain's requests, perhaps between the attack and the probe of the MUD  *)
(* user, and in the sleep between two polls.                               *)
(***************************************************************************)
EXTENDS Integers, Sequences

CONSTANTS
  Domains,     \* the domains, in the order of outputs["domains"]
  Ordinary,    \* controls proved by one denied request each: WAF, schema, endpoint
  Burst,       \* requests of a burst
  Window,      \* MIN_TELEMETRY_WINDOW
  Poll,        \* poll_seconds
  Deadline,    \* bound: the deadline of the phase
  MaxStrangers,\* bound: events of other users
  None

Domain == {Domains[i] : i \in DOMAIN Domains}
Control == Ordinary \cup {"rate-limit", "mud"}
Time == 0..Deadline

(* A request: who asks whom, what it is for, and the probe it becomes. A   *)
(* user is named by the control it stands for; each name is fresh.         *)
Request == [host : Domain, user : Control \cup {"plain"},
            expect : {"allow", "deny", "rate", "attack", "observe"}]

(* Which control stopped a request: its security event.                    *)
Event == [host : Domain, user : Control \cup {"plain", "stranger"},
          by : Control \cup {"waf", "other"}, time : Time]

VARIABLES
  pc,          \* where the verifier is
  todo,        \* the requests it has not sent
  now,
  probe,       \* the required probes: when each was sent
  attacked,    \* attack_started_at of each MUD user
  mitigation,  \* mitigation_sent_at and mitigation_blocked of each MUD user
  events,      \* every security event there is
  detected,    \* when each MUD user was rated High, in the suspicious user log
  read,        \* this poll: the events that were readable, the end of the window
  gates,       \* what this poll found
  traffic,     \* the state of the generator's catalog traffic
  strangers            \* counts the events of others, for the bound

vars == <<pc, todo, now, probe, attacked, mitigation, events, detected,
          read, gates, traffic, strangers>>

tenant == <<detected, strangers>>
known == <<probe, attacked, mitigation>>

Repeat(n, r) == [i \in 1..n |-> r]

(* probes: for one host, admin, schema and waf as pairs of an allowed and  *)
(* a denied request; the burst of one rate-limited user with the           *)
(* independent user and the unrelated path; the MUD user.                  *)
Program(h) ==
  LET ask(u, e) == [host |-> h, user |-> u, expect |-> e]
      paired[S \in SUBSET Ordinary] ==
        IF S = {} THEN <<>>
        ELSE LET k == CHOOSE k \in S : TRUE
             IN <<ask("plain", "allow"), ask(k, "deny")>> \o paired[S \ {k}]
  IN paired[Ordinary]
     \o Repeat(Burst, ask("rate-limit", "rate"))
     \o <<ask("plain", "allow"), ask("plain", "allow")>>
     \o Repeat(Burst, ask("mud", "attack"))
     \o <<ask("mud", "observe"), ask("plain", "allow")>>

Nothing == [readable |-> {}, end |-> 0]
NoGates == [mud_detection |-> FALSE, mud_mitigation |-> FALSE,
            controls_attributed |-> FALSE, scheduled_traffic |-> FALSE]

Init ==
  /\ pc = "probe" /\ todo = Program(Domains[1]) /\ now = 0
  /\ probe = [p \in Domain \X Control |-> None]
  /\ attacked = [h \in Domain |-> None]
  /\ mitigation = [h \in Domain |-> [sent_at |-> None, blocked |-> FALSE]]
  /\ events = {} /\ detected = [h \in Domain |-> None]
  /\ read = Nothing
  /\ gates = NoGates /\ traffic = "warming"
  /\ strangers = 0

-----------------------------------------------------------------------------
(* _ProbeSender.send, _rate_requests                                       *)

(* What can be the answer of a request the verifier goes on with: allowed  *)
(* (None) or denied by a control. Any other answer is request_fails.       *)
Answers(r) ==
  CASE r.expect = "allow" -> {None}
    [] r.expect = "deny" -> {r.user, "other"}
    [] r.expect = "rate" -> IF r = todo[2] /\ probe[r.host, "rate-limit"] = None
                              /\ Len(SelectSeq(todo, LAMBDA q : q = r)) = Burst
                            THEN {None} ELSE {None, "rate-limit"}
    [] r.expect = "attack" -> {None, "waf"}
    [] OTHER -> {None, "mud"}

Denied(r, by) == [host |-> r.host, user |-> r.user, by |-> by, time |-> now]

(* The probe a request becomes: a denied request, the first 429 of a       *)
(* burst, or the request after the attack of the MUD user.                 *)
BecomesProbe(r, by) ==
  \/ r.expect \in {"deny", "observe"}
  \/ r.expect = "rate" /\ by # None /\ probe[r.host, "rate-limit"] = None

(* The last requests of a burst are not followed by the next ones unless   *)
(* one was denied.                                                         *)
BurstProved(r) == r.expect = "attack" => probe[r.host, "rate-limit"] # None

send ==
  /\ pc = "probe" /\ todo # <<>>
  /\ LET r == Head(todo) IN
       /\ BurstProved(r)
       /\ \E by \in Answers(r), stamp \in IF r.expect = "observe" THEN {now, now + 1} ELSE {now} :
            /\ now' = stamp
            /\ events' = IF by = None THEN events
                         ELSE events \cup {[Denied(r, by) EXCEPT !.time = stamp]}
            /\ probe' = IF BecomesProbe(r, by) THEN [probe EXCEPT ![<<r.host, r.user>>] = stamp]
                        ELSE probe
       /\ attacked' = IF r.expect = "attack" /\ attacked[r.host] = None
                      THEN [attacked EXCEPT ![r.host] = now] ELSE attacked
       /\ todo' = Tail(todo)
  /\ UNCHANGED <<pc, mitigation, tenant, read, gates, traffic>>

NextDomain(h) ==
  LET i == CHOOSE i \in DOMAIN Domains : Domains[i] = h
  IN IF i = Len(Domains) THEN None ELSE Domains[i + 1]

LastHost == CHOOSE h \in Domain : attacked[h] # None /\
              (NextDomain(h) = None \/ attacked[NextDomain(h)] = None)

next_domain ==
  /\ pc = "probe" /\ todo = <<>>
  /\ IF NextDomain(LastHost) = None
     THEN pc' = "status" /\ UNCHANGED <<todo, now>>
     ELSE pc' = pc /\ todo' = Program(NextDomain(LastHost)) /\ now' = now + 1
  /\ UNCHANGED <<known, events, tenant, read, gates, traffic>>

-----------------------------------------------------------------------------
(* _poll_acceptance                                                        *)

(* traffic_failure: a scheduled run failed since the phase began.          *)
status ==
  /\ pc = "status"
  /\ pc' = IF traffic = "failed" THEN "failure" ELSE "events"
  /\ UNCHANGED <<todo, now, known, events, tenant, read, gates, traffic>>

(* ordinary: for each probe, the events of its user in a window that       *)
(* begins with the probe. pages() reads them all (TelemetryPages).         *)
InWindow(e, p, end) ==
  /\ e.host = p[1] /\ e.user = p[2]
  /\ (IF probe[p] < end - Window THEN probe[p] ELSE end - Window) <= e.time
  /\ e.time <= end + 1

read_events == {e \in read.readable : \E p \in Domain \X Control : InWindow(e, p, read.end)}

(* Any of the events there are can be readable by now.                     *)
ordinary ==
  /\ pc = "events"
  /\ \E S \in SUBSET events : read' = [readable |-> S, end |-> now]
  /\ pc' = "mud"
  /\ UNCHANGED <<todo, now, known, events, tenant, gates, traffic>>

(* Mutant: a denial by any control proves the one that is asked for.       *)
attributed_anyhow(e, p, by, since) ==
  /\ e.host = p[1] /\ e.user = p[2]
  /\ since <= e.time /\ e.time <= read.end

(* attributed: exact scope, identity, time and control.                    *)
attributed(e, p, by, since) ==
  /\ e.host = p[1] /\ e.user = p[2] /\ e.by = by
  /\ since <= e.time /\ e.time <= read.end

Telemetry(p, by, since) == \E e \in read_events : attributed(e, p, by, since)

(* A detection of the user between its attack and the end of the window,   *)
(* and a WAF event of the same attack no later than the detection.         *)
detection_attributed(h) ==
  /\ detected[h] # None /\ attacked[h] <= detected[h] /\ detected[h] <= read.end
  /\ \E e \in read_events :
       attributed(e, <<h, "mud">>, "waf", attacked[h]) /\ e.time <= detected[h] + 1

detection_ready == \A h \in Domain : detection_attributed(h)

(* Mutant: a MUD event since the first probe counts as mitigation.         *)
mitigated_since_probe ==
  \A h \in Domain :
    /\ mitigation[h].sent_at # None /\ mitigation[h].blocked
    /\ Telemetry(<<h, "mud">>, "mud", probe[h, "mud"])

(* The mitigation of every user: sent, blocked and attributed.             *)
mitigated ==
  \A h \in Domain :
    /\ mitigation[h].sent_at # None /\ mitigation[h].blocked
    /\ Telemetry(<<h, "mud">>, "mud", mitigation[h].sent_at)

(* telemetry_ready of every probe but the MUD users'.                      *)
controls == \A p \in Domain \X (Control \ {"mud"}) : Telemetry(p, p[2], probe[p])

(* _mud_evidence                                                           *)
mud_evidence ==
  LET again == detection_ready /\ ~mitigated IN
    /\ pc = "mud"
    /\ gates' = [gates EXCEPT !.mud_detection = detection_ready, !.mud_mitigation = mitigated,
                              !.controls_attributed = controls /\ mitigated]
    /\ pc' = IF again THEN "mitigate" ELSE "ready"
    /\ todo' = IF again THEN Domains ELSE <<>>
    /\ UNCHANGED <<now, known, events, tenant, read, traffic>>

Probed(h, blocked) ==
  mitigation' = [mitigation EXCEPT
    ![h].sent_at = IF @ = None THEN now ELSE @, ![h].blocked = blocked]

(* mitigation_probe of one user, its answer and that of the other user.    *)
mitigation_probe ==
  /\ pc = "mitigate"
  /\ \E by \in {None, "mud", "other"} :
       LET h == Head(todo) IN
         /\ Probed(h, by # None)
         /\ events' = IF by = None THEN events
                      ELSE events \cup {[host |-> h, user |-> "mud", by |-> by, time |-> now]}
  /\ todo' = Tail(todo)
  /\ pc' = IF todo' = <<>> THEN "ready" ELSE pc
  /\ UNCHANGED <<now, probe, attacked, tenant, read, gates, traffic>>

(* continuous_traffic_ready of a second status, then the verdict, the end  *)
(* of the time or the sleep. The next poll writes every gate again.        *)
verdict ==
  /\ pc = "ready"
  /\ LET found == [gates EXCEPT !.scheduled_traffic = traffic = "ready"] IN
       /\ IF \A g \in DOMAIN found : found[g] THEN pc' = "verified" /\ UNCHANGED now
          ELSE IF now + Poll >= Deadline THEN pc' = "pending" /\ UNCHANGED now
          ELSE pc' = "status" /\ now' = now + Poll
       /\ gates' = IF pc' = "status" THEN NoGates ELSE found
       /\ read' = IF pc' = "status" THEN Nothing ELSE read
  /\ UNCHANGED <<todo, known, events, tenant, traffic>>

Running == pc \notin {"verified", "pending", "failure"}

(* EvidenceError: an unexpected answer, an incomplete page, the deadline.  *)
evidence_error ==
  /\ Running
  /\ pc' = "failure"
  /\ UNCHANGED <<todo, now, known, events, tenant, read, gates, traffic>>

verifier ==
  \/ send \/ next_domain \/ status \/ ordinary \/ mud_evidence \/ mitigation_probe
  \/ verdict \/ evidence_error

-----------------------------------------------------------------------------
(* The tenant and the generator                                            *)

(* A user that was seen attacking is rated High.                           *)
Detected ==
  /\ pc = "mud"
  /\ \E h \in Domain :
       /\ detected[h] = None
       /\ \E e \in events : e.host = h /\ e.user = "mud" /\ e.by = "waf"
       /\ detected' = [detected EXCEPT ![h] = now]
  /\ UNCHANGED <<pc, todo, now, known, events, read, gates, traffic, strangers>>

(* Somebody else is stopped by a control.                                  *)
Stranger ==
  /\ pc = "status" /\ strangers < MaxStrangers
  /\ \E h \in Domain, by \in Control \cup {"waf"} :
       events' = events \cup {[host |-> h, user |-> "stranger", by |-> by, time |-> now]}
  /\ strangers' = strangers + 1
  /\ UNCHANGED <<pc, todo, now, known, detected, read, gates, traffic>>

TrafficTurns ==
  /\ pc \in {"status", "ready"}
  /\ traffic' \in {"ready", "failed"} \ {traffic}
  /\ UNCHANGED <<pc, todo, now, known, events, tenant, read, gates>>

Next == verifier \/ Detected \/ Stranger \/ TrafficTurns

Spec == Init /\ [][Next]_vars

-----------------------------------------------------------------------------
TypeOK ==
  /\ pc \in {"probe", "status", "events", "mud", "mitigate", "ready",
             "verified", "pending", "failure"}
  /\ \A i \in DOMAIN todo : todo[i] \in Domain \cup Request
  /\ now \in Time
  /\ probe \in [Domain \X Control -> Time \cup {None}]
  /\ attacked \in [Domain -> Time \cup {None}]
  /\ mitigation \in [Domain -> [sent_at : Time \cup {None}, blocked : BOOLEAN]]
  /\ events \subseteq Event /\ detected \in [Domain -> Time \cup {None}]
  /\ read.readable \subseteq events /\ read.end \in Time
  /\ DOMAIN gates = DOMAIN NoGates
  /\ traffic \in {"warming", "ready", "failed"}

(* An acceptance is verified only if every control of every domain stopped *)
(* a request of this very run, for its own reason: denials by another      *)
(* control, and events of other users, never stand in for it.              *)
VerifiedControlsEnforced ==
  pc = "verified" =>
    \A h \in Domain :
      /\ \A k \in Control \ {"mud"} :
           \E e \in events : e.host = h /\ e.user = k /\ e.by = k
      /\ \E e \in events : e.host = h /\ e.user = "mud" /\ e.by = "waf"
      /\ \E e \in events : e.host = h /\ e.user = "mud" /\ e.by = "mud"

(* The mitigation that is accepted came after the detection, in every      *)
(* domain: a user that was stopped before it was rated High, or only for a *)
(* while, does not count (mitigation_probe, the first mitigation time).    *)
MitigationFollowsDetection ==
  pc = "verified" =>
    \A h \in Domain :
      /\ detected[h] # None
      /\ \E e \in events : e.host = h /\ e.user = "mud" /\ e.by = "mud"
                           /\ e.time >= mitigation[h].sent_at
                           /\ mitigation[h].sent_at >= detected[h]
=============================================================================
