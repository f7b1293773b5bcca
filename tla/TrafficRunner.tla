--------------------------- MODULE TrafficRunner ---------------------------
(***************************************************************************)
(* scripts/demo_traffic.py on the traffic generator: attempts started by   *)
(* the timer's service and by hand (run-once) share one flock, a results   *)
(* folder, history.json and status.json; start and stop commands race them *)
(* from other shells; the live verifier reads what `status` prints         *)
(* (scripts/demo_verify.py, _poll_acceptance). Every process can be killed *)
(* between two steps. Each file is replaced in one step (atomic() under the flock; *)
(* AtomicFile looks inside it). One tick of the clock is the period of the *)
(* timer, which starts the service at most once a tick.                    *)
(***************************************************************************)
EXTENDS Naturals, Sequences, FiniteSets

CONSTANTS
  Config,       \* valid contents of config.json
  None,         \* no file, or a configuration that validate_config rejects
  MaxCycles,    \* bound: attempts
  MaxTicks,     \* bound: periods of the timer
  MaxEdits,     \* bound: changes of config.json
  MaxKills,     \* bound: attempts that die
  MaxCommands,  \* bound: start and stop commands
  MaxReaders,   \* bound: verifiers that read, one after the other
  Spent         \* what is spent of each bound at first, for every instance to explore

ASSUME BoundsAssumption ==
  {MaxCycles, MaxTicks, MaxEdits, MaxKills, MaxCommands, MaxReaders} \subseteq Nat
ASSUME NoneAssumption == None \notin Config \cup {"scheduled", "manual"}
ASSUME SpentAssumption ==
  Spent \subseteq [cycles : 0..MaxCycles, edits : 0..MaxEdits, kills : 0..MaxKills,
                   commands : 0..MaxCommands, readers : 0..MaxReaders]

Runner == {"scheduled", "manual"}
Attempt == 1..MaxCycles
Control == 1..MaxCommands     \* the start and stop commands, in the order they begin

VARIABLES
  config, authorization,   \* config.json; authorization.json (the fingerprint it names)
  timer,                   \* the timer is enabled and active
  clock, fired,            \* ticks so far; the tick at which the timer last fired
  run, lock,               \* the local state of each runner; the holder of run.lock
  folders,                 \* results/<run_id>: TRUE once summary.json is in it
  history, status,         \* results/history.json, status.json
  command,                 \* the local state of each start or stop command
  reader,                  \* the verifier that polls `status`
  passed, killed, ended,   \* ghosts: attempts whose attack met its expectations; that died;
                           \* the summaries of those that came to their end
  stopped,                 \* ghost: the last command to end was a stop that no start overlapped
  count                    \* what the bounds count

vars == <<config, authorization, timer, clock, fired, run, lock, folders, history,
          status, command, reader, passed, killed, ended, stopped, count>>

ghosts == <<passed, killed, ended>>
files == <<folders, history, status>>
host == <<config, authorization, timer, clock, fired>>
shells == <<command, stopped>>

Working == {"configuration", "attack", "metrics", "summary", "history", "status"}

(* clean: the measured numbers are there and pass every threshold.         *)
Summary == [id : Attempt, sequence : Nat, trigger : Runner, began : 0..MaxTicks,
            status : {"verified", "failed"}, clean : BOOLEAN]

Cycle == [pc : {"idle", "lock"} \cup Working, value : Config \cup {None},
          summary : Summary \cup {None}, read : Seq(Summary)]

Idle == [pc |-> "idle", value |-> None, summary |-> None, read |-> <<>>]
IdleShell == [op |-> None, pc |-> "idle", value |-> None, alone |-> TRUE]
IdleReader == [pc |-> "idle", since |-> 0, ended |-> {}]

Init ==
  /\ config \in Config /\ authorization = None
  /\ timer = FALSE /\ clock = 0 /\ fired = 0
  /\ run = [r \in Runner |-> Idle] /\ lock = None
  /\ folders = [a \in Attempt |-> None]
  /\ history = <<>> /\ status = [latest |-> None, history |-> <<>>]
  /\ command = [c \in Control |-> IdleShell]
  /\ reader = IdleReader
  /\ passed = {} /\ killed = {} /\ ended = {}
  /\ stopped = FALSE
  /\ count \in Spent

-----------------------------------------------------------------------------
(* run_cycle                                                               *)

(* main: a command line begins with the configuration as it is now.        *)
launch(r) ==
  /\ run[r].pc = "idle"
  /\ count.cycles < MaxCycles
  /\ r = "scheduled" => timer /\ fired < clock
  /\ fired' = IF r = "scheduled" THEN clock ELSE fired
  /\ run' = [run EXCEPT ![r] = [Idle EXCEPT !.pc = "lock", !.value = config]]
  /\ UNCHANGED <<config, authorization, timer, clock, lock, files, shells, reader, ghosts, count>>

begin(r, read) ==
  LET a == count.cycles + 1
      new == [id |-> a, sequence |-> Len(read), trigger |-> r, began |-> clock,
              status |-> "failed", clean |-> FALSE]
  IN /\ count.cycles < MaxCycles
     /\ count' = [count EXCEPT !.cycles = a]
     /\ folders' = [folders EXCEPT ![a] = FALSE]
     /\ run' = [run EXCEPT ![r].pc = "configuration", ![r].summary = new, ![r].read = read]

(* Mutant: an attempt goes on without the flock.                           *)
take_lock_shared(r) ==
  /\ run[r].pc = "lock"
  /\ lock' = r /\ begin(r, history)
  /\ UNCHANGED <<host, history, status, shells, reader, ghosts>>

(* The history is read and the folder made under the flock, which is       *)
(* taken without waiting: the second attempt leaves no trace at all.       *)
take_lock(r) ==
  /\ run[r].pc = "lock"
  /\ \/ lock = None /\ lock' = r /\ begin(r, history)
     \/ lock # None /\ run' = [run EXCEPT ![r] = Idle] /\ UNCHANGED <<lock, folders, count>>
  /\ UNCHANGED <<host, history, status, shells, reader, ghosts>>

Goto(r, pc) == run' = [run EXCEPT ![r].pc = pc]

(* _Attempt.__exit__: an ordinary failure of any stage is published too.   *)
Fails(r) == run' = [run EXCEPT ![r].pc = "summary", ![r].summary.status = "failed"]

(* validate_config: the two domains, the origin, the tier and the MUD flag.  *)
Valid(value) == value # None

(* validate_config, the comparison with authorization.json, cheap_ready.   *)
authorize(r) ==
  /\ run[r].pc = "configuration"
  /\ \/ Valid(run[r].value) /\ authorization = run[r].value /\ Goto(r, "attack")
     \/ Fails(r)
  /\ UNCHANGED <<host, lock, files, shells, reader, ghosts, count>>

(* _attack: Vegeta runs for a fixed time while pc is "attack"; what the    *)
(* requests met with is decided by the targets.                            *)
attack(r) ==
  LET a == run[r].summary.id IN
    /\ run[r].pc = "attack"
    /\ \/ passed' \in {passed, passed \cup {a}} /\ Goto(r, "metrics")
       \/ passed' = passed /\ Fails(r)
    /\ UNCHANGED <<host, lock, files, shells, reader, killed, ended, count>>

(* _report and _update_summary: evaluate() of what was measured, or output *)
(* that cannot be read.                                                    *)
metrics(r) ==
  /\ run[r].pc = "metrics"
  /\ \/ /\ run[r].summary.id \in passed
        /\ run' = [run EXCEPT ![r].pc = "summary",
                              ![r].summary = [@ EXCEPT !.status = "verified", !.clean = TRUE]]
     \/ Fails(r)
  /\ UNCHANGED <<host, lock, files, shells, reader, ghosts, count>>

(* Mutant: the file keeps the latest attempt only.                         *)
Published_latest(r) == <<run[r].summary>>

Published(r) == Append(run[r].read, run[r].summary)

(* Ghost: the attempt came to its end.                                     *)
Ends(r) == ended' = ended \cup {run[r].summary} /\ UNCHANGED <<passed, killed>>

(* _publish, one file after the other.                                     *)
publish_summary(r) ==
  /\ run[r].pc = "summary"
  /\ folders' = [folders EXCEPT ![run[r].summary.id] = TRUE]
  /\ Goto(r, "history")
  /\ UNCHANGED <<host, lock, history, status, shells, reader, ghosts, count>>

publish_history(r) ==
  /\ run[r].pc = "history"
  /\ history' = Published(r)
  /\ Goto(r, "status")
  /\ UNCHANGED <<host, lock, folders, status, shells, reader, ghosts, count>>

(* The status is the last file; the flock goes with the process.           *)
publish_status(r) ==
  /\ run[r].pc = "status"
  /\ status' = [latest |-> run[r].summary, history |-> Published(r)]
  /\ run' = [run EXCEPT ![r] = Idle]
  /\ lock' = None
  /\ Ends(r)
  /\ UNCHANGED <<host, folders, history, shells, reader, count>>

Dead(r) ==
  /\ run' = [run EXCEPT ![r] = Idle]
  /\ lock' = IF lock = r THEN None ELSE lock
  /\ killed' = IF run[r].pc \in Working
               THEN killed \cup {run[r].summary.id} ELSE killed

(* An interrupt, a kill or an error outside the stages (a full disk).      *)
kill(r) ==
  /\ run[r].pc # "idle"
  /\ count.kills < MaxKills
  /\ count' = [count EXCEPT !.kills = @ + 1]
  /\ Dead(r)
  /\ UNCHANGED <<host, files, shells, reader, passed, ended>>

(* Mutant: the status goes first and the history last.                     *)
publish_status_first(r) ==
  /\ run[r].pc = "history"
  /\ status' = [latest |-> run[r].summary, history |-> Published(r)]
  /\ Goto(r, "status")
  /\ UNCHANGED <<host, lock, folders, history, shells, reader, ghosts, count>>

publish_history_last(r) ==
  /\ run[r].pc = "status"
  /\ history' = Published(r)
  /\ run' = [run EXCEPT ![r] = Idle] /\ lock' = None
  /\ Ends(r)
  /\ UNCHANGED <<host, folders, status, shells, reader, count>>

run_cycle_swapped(r) ==
  \/ take_lock(r) \/ authorize(r) \/ attack(r) \/ metrics(r)
  \/ publish_summary(r) \/ publish_status_first(r) \/ publish_history_last(r)

run_cycle(r) ==
  \/ take_lock(r) \/ authorize(r) \/ attack(r) \/ metrics(r)
  \/ publish_summary(r) \/ publish_history(r) \/ publish_status(r)

-----------------------------------------------------------------------------
(* The control commands start and stop                                     *)

Starting(c) == command[c].op = "start" /\ command[c].pc # "idle"

Shell(c, pc) == command' = [command EXCEPT ![c].pc = pc]
Exits(c) == command' = [command EXCEPT ![c] = IdleShell]

invoke(c, op) ==
  LET new == [op |-> op, value |-> None,
              pc |-> IF op = "start" THEN "ready" ELSE "disable",
              alone |-> \A d \in Control \ {c} : ~Starting(d)]
  IN /\ c = count.commands + 1
     /\ count' = [count EXCEPT !.commands = c]
     /\ command' = [d \in Control |->
                     IF d = c THEN new
                     ELSE IF op = "start" THEN [command[d] EXCEPT !.alone = FALSE]
                     ELSE command[d]]
     /\ stopped' = (stopped /\ op # "start")
     /\ UNCHANGED <<host, run, lock, files, reader, ghosts>>

(* start: the configuration is read and cheap_ready passes.                *)
start_ready(c) ==
  /\ command[c].pc = "ready" /\ Valid(config)
  /\ command' = [command EXCEPT ![c].pc = "authorize", ![c].value = config]
  /\ UNCHANGED <<host, run, lock, files, reader, ghosts, stopped, count>>

start_authorize(c) ==
  /\ command[c].pc = "authorize"
  /\ authorization' = command[c].value
  /\ Shell(c, "enable")
  /\ UNCHANGED <<config, timer, clock, fired, run, lock, files, reader, ghosts, stopped, count>>

start_enable(c) ==
  /\ command[c].pc = "enable"
  /\ timer' = TRUE
  /\ Exits(c)
  /\ UNCHANGED <<config, authorization, clock, fired, run, lock, files, reader, ghosts, stopped, count>>

stop_disable(c) ==
  /\ command[c].pc = "disable"
  /\ timer' = FALSE
  /\ Shell(c, "service")
  /\ UNCHANGED <<config, authorization, clock, fired, run, lock, files, reader, ghosts, stopped, count>>

(* systemctl stop kills the process group of the service, wherever it is.  *)
stop_service(c) ==
  /\ command[c].pc = "service"
  /\ Dead("scheduled")
  /\ Shell(c, "unlink")
  /\ UNCHANGED <<host, files, reader, passed, ended, stopped, count>>

stop_unlink(c) ==
  /\ command[c].pc = "unlink"
  /\ authorization' = None
  /\ Exits(c)
  /\ stopped' = command[c].alone
  /\ UNCHANGED <<config, timer, clock, fired, run, lock, files, reader, ghosts, count>>

(* Mutant: the service is stopped before the timer is disabled.            *)
stop_disable_late(c) ==
  /\ command[c].pc = "disable"
  /\ Dead("scheduled")
  /\ Shell(c, "service")
  /\ UNCHANGED <<host, files, reader, passed, ended, stopped, count>>

stop_service_early(c) ==
  /\ command[c].pc = "service"
  /\ timer' = FALSE
  /\ Shell(c, "unlink")
  /\ UNCHANGED <<config, authorization, clock, fired, run, lock, files, reader, ghosts, stopped, count>>

(* systemctl fails (check=True), the checks fail or the shell is killed.   *)
abort(c) ==
  /\ command[c].pc # "idle"
  /\ Exits(c)
  /\ UNCHANGED <<host, run, lock, files, reader, ghosts, stopped, count>>

control_swapped(c) ==
  \/ \E op \in {"start", "stop"} : invoke(c, op)
  \/ start_ready(c) \/ start_authorize(c) \/ start_enable(c)
  \/ stop_disable_late(c) \/ stop_service_early(c) \/ stop_unlink(c) \/ abort(c)

control(c) ==
  \/ \E op \in {"start", "stop"} : invoke(c, op)
  \/ start_ready(c) \/ start_authorize(c) \/ start_enable(c)
  \/ stop_disable(c) \/ stop_service(c) \/ stop_unlink(c) \/ abort(c)

-----------------------------------------------------------------------------
(* The live verifier: _poll_acceptance reads `status` twice a poll         *)

Polling == reader.pc \in {"status", "events"}

Fresh(s) == s.trigger = "scheduled" /\ s.began >= reader.since

(* evaluate_summary: the numbers are judged again, with the guest's status.*)
Sound(s) == s.clean /\ s.status = "verified"

(* Mutant: only the latest attempt is looked at.                           *)
traffic_failure_latest(seen) ==
  seen # <<>> /\ Fresh(seen[Len(seen)]) /\ ~Sound(seen[Len(seen)])

traffic_failure(seen) == \E i \in DOMAIN seen : Fresh(seen[i]) /\ ~Sound(seen[i])

acceptance ==
  /\ ~Polling
  /\ count.readers < MaxReaders
  /\ count' = [count EXCEPT !.readers = @ + 1]
  /\ reader' = [IdleReader EXCEPT !.pc = "status", !.since = clock]
  /\ UNCHANGED <<host, run, lock, files, shells, ghosts>>

(* The first status of a poll: the history is searched for a fresh         *)
(* failure, and never again in this poll. The ghost: what had ended by now.*)
first_status ==
  /\ reader.pc = "status"
  /\ reader' = [reader EXCEPT !.pc = IF traffic_failure(history) THEN "failure" ELSE "events",
                              !.ended = ended]
  /\ UNCHANGED <<host, run, lock, files, shells, ghosts, count>>

(* Events are gathered; then a second status decides, by its catalog passes*)
(* and rates (continuous_traffic_ready) and not by its history. They, the  *)
(* other gates and the deadline are those of Acceptance: any verdict here. *)
(* The deadline is looked at before the sleep, and the next poll reads.    *)
second_status ==
  /\ reader.pc = "events"
  /\ \E pc \in {"verified", "pending", "status"} : reader' = [reader EXCEPT !.pc = pc]
  /\ UNCHANGED <<host, run, lock, files, shells, ghosts, count>>

poll == first_status \/ second_status

(* EvidenceError: ssh fails, telemetry is incomplete, the time is over.    *)
evidence_error ==
  /\ Polling
  /\ reader' = [reader EXCEPT !.pc = "failure"]
  /\ UNCHANGED <<host, run, lock, files, shells, ghosts, count>>

-----------------------------------------------------------------------------
(* The time passes; the configuration is replaced, perhaps by a bad one.   *)
Tick ==
  /\ clock < MaxTicks
  /\ clock' = clock + 1
  /\ UNCHANGED <<config, authorization, timer, fired, run, lock, files, shells, reader, ghosts, count>>

ConfigEdited ==
  /\ count.edits < MaxEdits
  /\ count' = [count EXCEPT !.edits = @ + 1]
  /\ config' \in (Config \cup {None}) \ {config}
  /\ UNCHANGED <<authorization, timer, clock, fired, run, lock, files, shells, reader, ghosts>>

Next ==
  \/ \E r \in Runner : launch(r) \/ run_cycle(r) \/ kill(r)
  \/ \E c \in Control : control(c)
  \/ acceptance \/ poll \/ evidence_error
  \/ Tick \/ ConfigEdited

Spec == Init /\ [][Next]_vars

(* Vegeta runs for 30 s and every other step of an attempt is bounded, so  *)
(* an attempt that began goes on; so does a verifier, whose requests, ssh   *)
(* sessions and sleeps are bounded.                                        *)
FairSpec == Spec /\ (\A r \in Runner : WF_vars(run_cycle(r))) /\ WF_vars(poll)

-----------------------------------------------------------------------------
TypeOK ==
  /\ config \in Config \cup {None} /\ authorization \in Config \cup {None}
  /\ timer \in BOOLEAN /\ clock \in 0..MaxTicks /\ fired \in 0..MaxTicks
  /\ run \in [Runner -> Cycle] /\ lock \in Runner \cup {None}
  /\ folders \in [Attempt -> BOOLEAN \cup {None}]
  /\ history \in Seq(Summary)
  /\ status \in [latest : Summary \cup {None}, history : Seq(Summary)]
  /\ command \in [Control -> [op : {"start", "stop", None},
                              pc : {"idle", "ready", "authorize", "enable",
                                    "disable", "service", "unlink"},
                              value : Config \cup {None}, alone : BOOLEAN]]
  /\ reader \in [pc : {"idle", "status", "events", "verified", "pending", "failure"},
                 since : 0..MaxTicks, ended : SUBSET Summary]
  /\ passed \subseteq Attempt /\ killed \subseteq Attempt /\ ended \subseteq Summary
  /\ stopped \in BOOLEAN
  /\ count \in [cycles : 0..MaxCycles, edits : 0..MaxEdits,
                kills : 0..MaxKills, commands : 0..MaxCommands,
                readers : 0..MaxReaders]
  /\ \A r \in Runner :
       run[r].pc \in Working => run[r].summary \in Summary

(* The published history only ever grows, whatever attempts race, are      *)
(* refused the flock or are killed ("Existing failed history is retained   *)
(* and never relabeled as verified"; the read of run_cycle and the write   *)
(* of _publish are two steps).                                             *)
HistoryAppendOnly ==
  [][/\ Len(history') >= Len(history)
     /\ SubSeq(history', 1, Len(history)) = history]_history

(* status.json never names an attempt the history lacks, and the history   *)
(* it embeds is a prefix of the published one: a kill between the two      *)
(* files leaves an older status, never a newer one (order of _publish).    *)
StatusNeverAhead ==
  /\ Len(status.history) <= Len(history)
  /\ SubSeq(history, 1, Len(status.history)) = status.history
  /\ status.latest # None =>
       status.history # <<>> /\ status.latest = status.history[Len(status.history)]

(* A folder without a summary, or a summary the history lacks, belongs to  *)
(* the attempt at work or to one that was killed: no attempt that ended by *)
(* itself is missing from the evidence.                                    *)
OnlyKilledUnpublished ==
  \A a \in Attempt :
    folders[a] # None =>
      \/ \E i \in DOMAIN history : history[i].id = a
      \/ \E r \in Runner : run[r].pc \in Working /\ run[r].summary.id = a
      \/ a \in killed

(* What the files of an attempt say of each other, at every moment.        *)
Inv == TypeOK /\ StatusNeverAhead /\ OnlyKilledUnpublished

(* When the verifier ends verified or pending, every scheduled attempt that*)
(* began since the verifier did and had come to its end before the last    *)
(* poll's first status met its expectations: no race of attempts, kill, or *)
(* order of the files takes one out of the history that is searched. An    *)
(* attempt that fails after that read is not covered: the second status is *)
(* not searched (_poll_acceptance).                                        *)
VerdictHonest ==
  reader.pc \in {"verified", "pending"} =>
    \A s \in reader.ended : Fresh(s) => Sound(s) /\ s.id \in passed

(* After a stop that no start overlapped, and until the next start, no     *)
(* scheduled attempt exists: the timer cannot fire between the steps of    *)
(* the stop and survive it (main: disable, stop, unlink).                  *)
QuietAfterStop == stopped => ~timer /\ run["scheduled"].pc = "idle"

(* A scheduled attempt that failed while the verifier polls is surfaced by *)
(* it, although later attempts succeed, unless the verifier ends with the  *)
(* poll whose first status came before that failure.                       *)
FailureSurfaces ==
  LET failed == {s \in ended : Fresh(s) /\ ~Sound(s)} IN
    (Polling /\ failed # {})
      ~> \/ reader.pc = "failure"
         \/ ~Polling /\ failed \cap reader.ended = {}
=============================================================================
