------------------------------ MODULE Readiness ------------------------------
(* scripts/demo_verify.py --phase readiness: the verifier reads the controls  *)
(* of the load balancer, polls cloud-init in both guests until it is done,    *)
(* checks its final unit, the services of the origin, the applications and    *)
(* the catalog of the generator, all before one deadline.  Guests boot and    *)
(* everything else comes up and goes down while it looks.                     *)
EXTENDS Integers, Sequences, SequencesExt

CONSTANTS
  Domains,         \* the applications
  Timeout, Poll,   \* --timeout-seconds, --poll-seconds
  ReadTime,        \* bound: the longest time a read takes
  MaxFlips,        \* bound: how often something goes up or down
  Warnings         \* the warnings a stage of cloud-init may end with

CloudStages == <<"init-local", "init", "modules-config", "modules-final">>
Stages == DOMAIN CloudStages
Guests == {"origin", "generator"}
Controls == {"http_loadbalancer", "app_firewall", "user_identification",
             "malicious_user_mitigation"}
Items == Controls \cup Domains \cup {"origin-services", "catalog"}

VARIABLES
  boot,     \* stages that cloud-init has finished, in each guest
  warned,   \* the warnings that each stage ends with
  broken,   \* the stage that ends with an error, 0 if none does
  unit,     \* what the cloud-final unit ends with
  up,       \* the items that are as they should be
  flips,    \* how often an item changed
  seen,     \* the items that were up at some time since the start
  check,    \* the check that comes next, or is being waited for
  clock,    \* time since the start
  verdict   \* "none", "verified", or why the verifier failed
guests == <<boot, warned, broken, unit>>
vars == <<guests, up, flips, seen, check, clock, verdict>>

-----------------------------------------------------------------------------
(* What `cloud-init status --format json` says of a guest.                    *)
Reported(g) == 1..boot[g]
Errors(g) == broken[g] \in Reported(g)
WarningsOf(g) == {s \in Reported(g) : warned[g][s] # "none"}
Status(g) ==
  IF boot[g] = 0 THEN "not run"
  ELSE IF boot[g] < Len(CloudStages) THEN "running"
  ELSE IF Errors(g) THEN "error" ELSE "done"

(* The only warnings that are accepted: in every stage exactly the one about  *)
(* Azure's reprovision data, all stages finished.                             *)
RecoveredAzure(g) == \A s \in Stages : s \in Reported(g) /\ warned[g][s] = "azure"

cloud_init_state(g) ==
  IF Errors(g) THEN "rejected"
  ELSE IF Status(g) \in {"running", "not run"} THEN "pending"
  ELSE IF WarningsOf(g) = {} \/ RecoveredAzure(g) THEN "done" ELSE "rejected"

-----------------------------------------------------------------------------
(* The checks in their order.  effective reads the load balancer and then the *)
(* three objects it refers to; readiness looks at the origin and then at the  *)
(* generator, and asks each application once.                                 *)
DomainList == SetToSeq(Domains)
Checks ==
  <<"http_loadbalancer", "app_firewall", "user_identification", "malicious_user_mitigation",
    "origin", "generator", "origin-services">> \o DomainList \o <<"catalog">>

(* Client.remaining raises once the deadline has passed.                      *)
Remaining == Timeout - clock

Ends(v) == verdict' = v /\ UNCHANGED check
Passed_early == IF check[1] = Len(Checks) - 1 THEN Ends("verified")
                ELSE check' = <<check[1] + 1, "look">> /\ UNCHANGED verdict
Passed_beyond == check' = <<check[1] + 1, "look">> /\ UNCHANGED verdict
Passed == IF check[1] = Len(Checks)
          THEN Ends("verified")
          ELSE check' = <<check[1] + 1, "look">> /\ UNCHANGED verdict
Current == Checks[check[1]]

(* A command over ssh is killed at the deadline; a request over HTTP may take *)
(* its time, since its timeout is one of the socket.                          *)
Takes(killed, d) == clock' = IF killed THEN Min({clock + d, Timeout}) ELSE clock + d
Read(killed, Outcome) ==
  /\ verdict = "none"
  /\ IF Remaining <= 0
     THEN Ends("deadline") /\ UNCHANGED clock
     ELSE \E d \in 0..ReadTime :
            /\ Takes(killed, d)
            /\ IF killed /\ d >= Remaining
               THEN Ends("deadline")
               ELSE Outcome \/ Ends("unavailable")
  /\ UNCHANGED <<guests, up, flips, seen>>

ItemIsUp == IF Current \in up THEN Passed ELSE Ends(Current)

(* The load balancer and each object it refers to must be read, be enabled,   *)
(* be the one asked for and have the demo's settings.                         *)
ReadControl == Current \in Controls /\ Read(FALSE, ItemIsUp)
ReadApplication == Current \in Domains /\ Read(FALSE, ItemIsUp)
ReadOriginServices == Current = "origin-services" /\ Read(TRUE, ItemIsUp)
ReadCatalog == Current = "catalog" /\ Read(TRUE, ItemIsUp)

ReadCloudInit ==
  /\ Current \in Guests /\ check[2] = "look"
  /\ Read(TRUE,
          LET state == cloud_init_state(Current) IN
            IF state = "rejected" THEN Ends("cloud-init")
            ELSE /\ check' = <<check[1], IF state = "done" THEN "unit" ELSE "sleep">>
                 /\ UNCHANGED verdict)

ReadUnit ==
  /\ Current \in Guests /\ check[2] = "unit"
  /\ Read(TRUE, IF unit[Current] = "success" THEN Passed ELSE Ends("final-unit"))

SleepTime == Min({Poll, Remaining})
Sleep ==
  /\ verdict = "none" /\ Current \in Guests /\ check[2] = "sleep"
  /\ IF Remaining <= 0
     THEN Ends("deadline") /\ UNCHANGED clock
     ELSE /\ clock' = clock + SleepTime
          /\ check' = <<check[1], "look">> /\ UNCHANGED verdict
  /\ UNCHANGED <<guests, up, flips, seen>>

-----------------------------------------------------------------------------
(* cloud-init finishes a stage, also after one that ended with an error.      *)
BootStage(g) ==
  /\ boot[g] < Len(CloudStages)
  /\ boot' = [boot EXCEPT ![g] = @ + 1]
  /\ UNCHANGED <<warned, broken, unit, up, flips, seen, check, clock, verdict>>

Flip(item) ==
  /\ flips < MaxFlips /\ flips' = flips + 1
  /\ up' = SymDiff(up, {item})
  /\ seen' = seen \cup up'
  /\ UNCHANGED <<guests, check, clock, verdict>>

(* How a guest may boot: as it should, with one warning in all stages or in   *)
(* the second only, with an error in the third, or with a failed final unit.  *)
Boots ==
  LET Boot(w, b, u) == [warned |-> w, broken |-> b, unit |-> u]
      All(w) == [s \in Stages |-> w]
      One(w) == [s \in Stages |-> IF s = 2 THEN w ELSE "none"] IN
  {Boot(All(w), 0, "success") : w \in Warnings} \cup {Boot(One(w), 0, "success") : w \in Warnings}
    \cup {Boot(All("none"), 3, "success"), Boot(All("none"), 0, "failed")}

Init ==
  /\ boot \in {[g \in Guests |-> n] : n \in {0, 3}}
  /\ \E of \in [Guests -> Boots] :
       /\ warned = [g \in Guests |-> of[g].warned]
       /\ broken = [g \in Guests |-> of[g].broken]
       /\ unit = [g \in Guests |-> of[g].unit]
  /\ up \in {Items} \cup {Items \ {i} : i \in Items}
  /\ flips = 0 /\ seen = up
  /\ check = <<1, "look">> /\ clock = 0 /\ verdict = "none"

Verify == \/ ReadControl \/ ReadCloudInit \/ ReadUnit \/ Sleep
          \/ ReadOriginServices \/ ReadApplication \/ ReadCatalog
Next == Verify \/ (\E g \in Guests : BootStage(g)) \/ (\E i \in Items : Flip(i))
Spec == Init /\ [][Next]_vars

-----------------------------------------------------------------------------
TypeOK ==
  /\ boot \in [Guests -> 0..Len(CloudStages)] /\ broken \in [Guests -> 0..Len(CloudStages)]
  /\ warned \in [Guests -> [Stages -> {"none", "azure", "other"}]]
  /\ unit \in [Guests -> {"success", "failed"}]
  /\ up \subseteq Items /\ seen \subseteq Items /\ flips \in 0..MaxFlips
  /\ check \in (DOMAIN Checks) \X {"look", "unit", "sleep"}
  /\ clock \in Nat
  /\ verdict \in {"none", "verified", "deadline", "unavailable", "cloud-init", "final-unit"} \cup Items

Sound(g) ==
  /\ broken[g] = 0 /\ unit[g] = "success"
  /\ \/ \A s \in Stages : warned[g][s] = "none"
     \/ \A s \in Stages : warned[g][s] = "azure"

(* A verified report rests on this run: both guests have finished booting as  *)
(* they should, and every control, application and service was up after the   *)
(* start, whatever changed while the verifier was waiting for something else. *)
VerifiedObserved ==
  verdict = "verified" =>
    /\ \A g \in Guests : boot[g] = Len(CloudStages) /\ Sound(g)
    /\ Items \subseteq seen

(* A guest that boots as it should is never rejected for being looked at in   *)
(* the middle of its boot, with some of the accepted warnings reported.       *)
BootNeverRejected ==
  verdict \in {"cloud-init", "final-unit"} => ~Sound(Current)

(* The verifier stops at its deadline, but for the read it is in.             *)
ReadinessBounded == clock <= Timeout + ReadTime
=============================================================================
