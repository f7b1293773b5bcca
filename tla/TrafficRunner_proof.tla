------------------------ MODULE TrafficRunner_proof ------------------------
(***************************************************************************)
(* Proofs about TrafficRunner: its types, what the files of an attempt say *)
(* of each other, the quiet after a stop and the verdict of the verifier.   *)
(***************************************************************************)
EXTENDS TrafficRunner, SequenceTheorems, TLAPS

USE DEF Runner

(* The part of the type invariant about runners and what they publish.     *)
RunOK ==
  /\ run \in [Runner -> Cycle]
  /\ \A r \in Runner : run[r].pc \in Working => run[r].summary \in Summary

FilesOK ==
  /\ lock \in Runner \cup {None}
  /\ folders \in [Attempt -> BOOLEAN \cup {None}]
  /\ history \in Seq(Summary)
  /\ status \in [latest : Summary \cup {None}, history : Seq(Summary)]
  /\ passed \subseteq Attempt /\ killed \subseteq Attempt

HostOK ==
  /\ config \in Config \cup {None} /\ authorization \in Config \cup {None}
  /\ timer \in BOOLEAN /\ clock \in 0..MaxTicks /\ fired \in 0..MaxTicks

ShellPc == {"idle", "ready", "authorize", "enable", "disable", "service", "unlink"}

ShellState == [op : {"start", "stop", None}, pc : ShellPc,
               value : Config \cup {None}, alone : BOOLEAN]

ShellOK == command \in [Control -> ShellState] /\ stopped \in BOOLEAN

ReaderOK ==
  reader \in [pc : {"idle", "status", "events", "verified", "pending", "failure"},
              since : 0..MaxTicks, ended : SUBSET Summary]

EndedOK == ended \subseteq Summary

CountOK ==
  count \in [cycles : 0..MaxCycles, edits : 0..MaxEdits, kills : 0..MaxKills,
             commands : 0..MaxCommands, readers : 0..MaxReaders]

LEMMA TypeParts ==
  TypeOK <=> RunOK /\ FilesOK /\ HostOK /\ ShellOK /\ ReaderOK /\ CountOK /\ EndedOK
  BY DEF TypeOK, RunOK, FilesOK, HostOK, ShellOK, ShellState, ShellPc, ReaderOK, CountOK, EndedOK

LEMMA NoneIsNoRunner == \A r \in Runner : r # None
  BY NoneAssumption

LEMMA IdleIsCycle == Idle \in Cycle /\ Idle.pc = "idle" /\ "idle" \notin Working
  BY DEF Idle, Cycle, Working

-----------------------------------------------------------------------------
(* What a step leaves of the runner that takes it.                         *)
LEMMA GotoFrame ==
  ASSUME RunOK, NEW r \in Runner, NEW pc \in Working, run[r].pc \in Working, Goto(r, pc)
  PROVE  /\ RunOK'
         /\ run'[r].pc = pc /\ run'[r].summary = run[r].summary /\ run'[r].read = run[r].read
         /\ \A w \in Runner : w # r => run'[w] = run[w]
  BY DEF RunOK, Goto, Cycle

LEMMA FailsFrame ==
  ASSUME RunOK, NEW r \in Runner, run[r].pc \in Working, Fails(r)
  PROVE  /\ RunOK'
         /\ run'[r].pc = "summary" /\ run'[r].read = run[r].read
         /\ run'[r].summary = [run[r].summary EXCEPT !.status = "failed"]
         /\ \A w \in Runner : w # r => run'[w] = run[w]
  <1> DEFINE failed == [run[r].summary EXCEPT !.status = "failed"]
             next == [run[r] EXCEPT !.pc = "summary", !.summary = failed]
  <1>1. run[r] \in Cycle /\ run[r].summary \in Summary
    BY DEF RunOK
  <1>2. failed \in Summary
    BY <1>1 DEF Summary
  <1>3. next \in Cycle /\ next.pc = "summary" /\ next.read = run[r].read /\ next.summary = failed
    BY <1>1, <1>2 DEF Cycle, Working
  <1>4. run' = [run EXCEPT ![r] = next]
    BY DEF Fails
  <1> HIDE DEF failed, next
  <1>5. /\ run' \in [Runner -> Cycle] /\ run'[r] = next
        /\ \A w \in Runner : w # r => run'[w] = run[w]
    BY <1>3, <1>4 DEF RunOK
  <1> QED
    BY <1>2, <1>3, <1>5 DEF RunOK, failed

LEMMA IdleFrame ==
  ASSUME RunOK, NEW r \in Runner, run' = [run EXCEPT ![r] = Idle]
  PROVE  /\ RunOK' /\ run'[r] = Idle
         /\ \A w \in Runner : w # r => run'[w] = run[w]
  BY IdleIsCycle DEF RunOK

-----------------------------------------------------------------------------
(* Only the holder of the flock is at work, for publishing it has read the *)
(* history as it is, and an attempt that is verified met its expectations. *)
OneAtWork == \A r \in Runner : run[r].pc \in Working <=> lock = r

ReadIsHistory ==
  \A r \in Runner :
    /\ run[r].pc \in Working \ {"status"} => run[r].read = history
    /\ run[r].pc = "status" => history = Published(r)

VerifiedPassed ==
  /\ \A i \in DOMAIN history : Sound(history[i]) => history[i].id \in passed
  /\ \A r \in Runner :
       run[r].pc \in Working /\ run[r].summary.status = "verified" => run[r].summary.id \in passed

(* What is published, and what the attempt at work will publish.           *)
Evidence == StatusNeverAhead /\ OnlyKilledUnpublished

PublishInv ==
  /\ RunOK /\ FilesOK
  /\ OneAtWork /\ ReadIsHistory /\ VerifiedPassed /\ Evidence

(* What the published history is in a state and after a step.              *)
Grows ==
  /\ Len(history') >= Len(history)
  /\ SubSeq(history', 1, Len(history)) = history

LEMMA SameGrows == ASSUME FilesOK, history' = history PROVE Grows
  <1>1. Len(history) \in Nat
    BY LenProperties DEF FilesOK
  <1> QED
    BY <1>1, SubSeqFull DEF Grows, FilesOK

(* A step that leaves runners and files alone.                             *)
LEMMA HostStep ==
  ASSUME PublishInv, UNCHANGED <<run, lock, files, ghosts>>
  PROVE  PublishInv' /\ Grows
  BY SameGrows DEF PublishInv, RunOK, FilesOK, OneAtWork, ReadIsHistory, VerifiedPassed, Evidence,
     StatusNeverAhead, OnlyKilledUnpublished, files, ghosts, Published, Sound

(* A step of the attempt at work before it publishes its history.          *)
LEMMA WorkStep ==
  ASSUME PublishInv, RunOK', NEW r \in Runner,
         run[r].pc \in Working \ {"status"}, run'[r].pc \in Working \ {"status"},
         run'[r].read = run[r].read, run'[r].summary.id = run[r].summary.id,
         run'[r].summary.status = "verified" => run[r].summary.id \in passed',
         \A w \in Runner : w # r => run'[w] = run[w],
         UNCHANGED <<lock, history, status, killed>>,
         folders' = folders \/ folders' = [folders EXCEPT ![run[r].summary.id] = TRUE],
         passed \subseteq passed', passed' \subseteq Attempt
  PROVE  PublishInv' /\ Grows
  <1>1. FilesOK'
    BY DEF PublishInv, FilesOK
  <1>2. OneAtWork'
    BY DEF PublishInv, OneAtWork
  <1>3. ReadIsHistory'
    BY DEF PublishInv, ReadIsHistory, Published
  <1>4. VerifiedPassed'
    BY DEF PublishInv, VerifiedPassed, Sound
  <1>5. StatusNeverAhead'
    BY DEF PublishInv, Evidence, StatusNeverAhead
  <1>6. OnlyKilledUnpublished'
    <2> SUFFICES ASSUME NEW a \in Attempt, folders'[a] # None
                 PROVE  \/ \E i \in DOMAIN history' : history'[i].id = a
                        \/ \E w \in Runner : run'[w].pc \in Working /\ run'[w].summary.id = a
                        \/ a \in killed'
      BY DEF OnlyKilledUnpublished
    <2>1. CASE folders[a] # None
      BY <2>1 DEF PublishInv, Evidence, OnlyKilledUnpublished
    <2>2. CASE folders[a] = None
      <3>1. a = run[r].summary.id
        BY <2>2 DEF PublishInv, FilesOK
      <3> QED
        BY <3>1
    <2> QED
      BY <2>1, <2>2
  <1> QED
    BY <1>1, <1>2, <1>3, <1>4, <1>5, <1>6, SameGrows DEF PublishInv, Evidence

(* A runner leaves: it waited for the flock, or its attempt died.          *)
LEMMA LeaveStep ==
  ASSUME PublishInv, NEW r \in Runner, run' = [run EXCEPT ![r] = Idle],
         lock' = IF lock = r THEN None ELSE lock,
         UNCHANGED <<files, passed>>, killed \subseteq killed', killed' \subseteq Attempt,
         run[r].pc \in Working => run[r].summary.id \in killed'
  PROVE  PublishInv' /\ Grows
  <1>1. /\ RunOK' /\ run'[r].pc = "idle" /\ "idle" \notin Working
        /\ \A w \in Runner : w # r => run'[w] = run[w]
    BY IdleFrame, IdleIsCycle DEF PublishInv
  <1>2. FilesOK'
    BY DEF PublishInv, FilesOK, files
  <1>3. OneAtWork'
    BY <1>1, NoneIsNoRunner DEF PublishInv, OneAtWork
  <1>4. ReadIsHistory'
    BY <1>1 DEF PublishInv, ReadIsHistory, Published, files
  <1>5. VerifiedPassed'
    BY <1>1 DEF PublishInv, VerifiedPassed, Sound, files
  <1>6. Evidence'
    BY <1>1 DEF PublishInv, Evidence, StatusNeverAhead, OnlyKilledUnpublished, files
  <1> QED
    BY <1>1, <1>2, <1>3, <1>4, <1>5, <1>6, SameGrows DEF PublishInv, files

-----------------------------------------------------------------------------
LEMMA LaunchStep ==
  ASSUME PublishInv, HostOK, NEW r \in Runner, launch(r)
  PROVE  PublishInv' /\ Grows
  <1> DEFINE new == [Idle EXCEPT !.pc = "lock", !.value = config]
  <1>1. new \in Cycle /\ new.pc = "lock" /\ "lock" \notin Working /\ "idle" \notin Working
    BY EmptySeq DEF HostOK, Idle, Cycle, Working
  <1>2. run[r].pc = "idle" /\ run' = [run EXCEPT ![r] = new] /\ UNCHANGED <<lock, files, ghosts>>
    BY DEF launch
  <1> HIDE DEF new
  <1>3. /\ RunOK' /\ run'[r].pc = "lock"
        /\ \A w \in Runner : w # r => run'[w] = run[w]
    BY <1>1, <1>2 DEF PublishInv, RunOK
  <1>4. FilesOK' /\ OneAtWork'
    BY <1>1, <1>2, <1>3 DEF PublishInv, FilesOK, OneAtWork, files, ghosts
  <1>5. "lock" # "status"
    OBVIOUS
  <1>6. ReadIsHistory'
    BY <1>1, <1>2, <1>3, <1>5 DEF PublishInv, ReadIsHistory, Published, files
  <1>7. VerifiedPassed'
    BY <1>1, <1>2, <1>3 DEF PublishInv, VerifiedPassed, Sound, files, ghosts
  <1>8. Evidence'
    BY <1>1, <1>2, <1>3 DEF PublishInv, Evidence, StatusNeverAhead, OnlyKilledUnpublished,
       files, ghosts
  <1> QED
    BY <1>2, <1>3, <1>4, <1>6, <1>7, <1>8, SameGrows DEF PublishInv, files

LEMMA TakeLockStep ==
  ASSUME PublishInv, HostOK, CountOK, NEW r \in Runner, take_lock(r)
  PROVE  PublishInv' /\ Grows
  <1>0. UNCHANGED <<history, status, passed, killed>> /\ run[r].pc = "lock" /\ "lock" \notin Working
    BY DEF take_lock, ghosts, Working
  <1>1. CASE lock # None /\ run' = [run EXCEPT ![r] = Idle] /\ UNCHANGED <<lock, folders>>
    <2>1. lock # r
      BY <1>0 DEF PublishInv, OneAtWork
    <2> QED
      BY <1>0, <1>1, <2>1, LeaveStep DEF files, PublishInv, FilesOK
  <1>2. CASE lock = None /\ lock' = r /\ begin(r, history)
    <2> DEFINE a == count.cycles + 1
               new == [id |-> a, sequence |-> Len(history), trigger |-> r, began |-> clock,
                       status |-> "failed", clean |-> FALSE]
               next == [run[r] EXCEPT !.pc = "configuration", !.summary = new, !.read = history]
    <2>1. /\ count.cycles < MaxCycles /\ folders' = [folders EXCEPT ![a] = FALSE]
          /\ run' = [run EXCEPT ![r] = next]
      BY <1>2 DEF begin
    <2>2. a \in Attempt
      BY <2>1, BoundsAssumption DEF CountOK, Attempt
    <2>3. new \in Summary
      BY <2>2, LenProperties DEF Summary, PublishInv, FilesOK, HostOK
    <2>4. /\ next \in Cycle /\ next.pc = "configuration" /\ next.pc \in Working
          /\ next.summary = new /\ next.read = history
      BY <2>3 DEF PublishInv, RunOK, FilesOK, Cycle, Working
    <2>5. new.id = a /\ new.status = "failed"
      OBVIOUS
    <2> HIDE DEF a, new, next
    <2>6. /\ run'[r] = next /\ run' \in [Runner -> Cycle]
          /\ \A w \in Runner : w # r => run'[w] = run[w]
      BY <2>1, <2>4 DEF PublishInv, RunOK
    <2>7. RunOK' /\ FilesOK'
      BY <1>0, <1>2, <2>1, <2>2, <2>3, <2>4, <2>6 DEF PublishInv, RunOK, FilesOK
    <2>8. OneAtWork'
      BY <1>0, <1>2, <2>4, <2>6, NoneIsNoRunner DEF PublishInv, OneAtWork
    <2>9. ReadIsHistory' /\ VerifiedPassed'
      BY <1>0, <2>4, <2>5, <2>6 DEF PublishInv, ReadIsHistory, VerifiedPassed, Published, Sound
    <2>10. StatusNeverAhead'
      BY <1>0 DEF PublishInv, Evidence, StatusNeverAhead
    <2>11. OnlyKilledUnpublished'
      <3> SUFFICES ASSUME NEW b \in Attempt, folders'[b] # None
                   PROVE  \/ \E i \in DOMAIN history' : history'[i].id = b
                          \/ \E w \in Runner : run'[w].pc \in Working /\ run'[w].summary.id = b
                          \/ b \in killed'
        BY DEF OnlyKilledUnpublished
      <3>1. CASE b = a
        BY <2>4, <2>5, <2>6, <3>1
      <3>2. CASE b # a
        BY <1>0, <2>1, <2>6, <3>2 DEF PublishInv, FilesOK, Evidence, OnlyKilledUnpublished
      <3> QED
        BY <3>1, <3>2
    <2> QED
      BY <1>0, <2>7, <2>8, <2>9, <2>10, <2>11, SameGrows DEF PublishInv, Evidence
  <1> QED
    BY <1>1, <1>2 DEF take_lock

LEMMA PublishHistoryStep ==
  ASSUME PublishInv, NEW r \in Runner, publish_history(r)
  PROVE  PublishInv' /\ Grows
  <1>1. /\ run[r].pc = "history" /\ history' = Published(r) /\ Goto(r, "status")
        /\ UNCHANGED <<lock, folders, status, passed, killed>>
    BY DEF publish_history, ghosts
  <1>2. run[r].pc \in Working /\ run[r].read = history /\ run[r].summary \in Summary
    BY <1>1 DEF PublishInv, RunOK, ReadIsHistory, Working
  <1>3. /\ RunOK' /\ run'[r].pc = "status"
        /\ run'[r].summary = run[r].summary /\ run'[r].read = run[r].read
        /\ \A w \in Runner : w # r => run'[w] = run[w]
    BY <1>1, <1>2, GotoFrame DEF PublishInv, Working
  <1>4. /\ history' = Append(history, run[r].summary)
        /\ history \in Seq(Summary) /\ history' \in Seq(Summary)
        /\ Len(history) \in Nat /\ Len(history') = Len(history) + 1
        /\ \A i \in 1..Len(history) : history'[i] = history[i]
        /\ history'[Len(history) + 1] = run[r].summary
    BY <1>1, <1>2, AppendProperties, LenProperties DEF Published, PublishInv, FilesOK
  <1>5. \A n \in 0..Len(history) : SubSeq(history', 1, n) = SubSeq(history, 1, n)
    BY <1>4
  <1>6. Grows
    BY <1>4, <1>5, SubSeqFull DEF Grows
  <1>7. FilesOK'
    BY <1>1, <1>4 DEF PublishInv, FilesOK
  <1>8. OneAtWork'
    BY <1>1, <1>2, <1>3 DEF PublishInv, OneAtWork, Working
  <1>9. \A w \in Runner : w # r => run[w].pc \notin Working
    BY <1>2 DEF PublishInv, OneAtWork
  <1>10. ReadIsHistory'
    BY <1>1, <1>3, <1>9 DEF ReadIsHistory, Published, Working
  <1>11. VerifiedPassed'
    <2>1. \A i \in DOMAIN history' : Sound(history'[i]) => history'[i].id \in passed'
      <3> SUFFICES ASSUME NEW i \in 1..(Len(history) + 1), Sound(history'[i])
                   PROVE  history'[i].id \in passed'
        BY <1>4
      <3>1. CASE i \in 1..Len(history)
        BY <1>1, <1>4, <3>1 DEF PublishInv, VerifiedPassed, Sound
      <3>2. CASE i = Len(history) + 1
        BY <1>1, <1>2, <1>4, <3>2 DEF PublishInv, VerifiedPassed, Sound
      <3> QED
        BY <1>4, <3>1, <3>2
    <2>2. \A w \in Runner : run'[w].pc \in Working /\ run'[w].summary.status = "verified"
                            => run'[w].summary.id \in passed'
      BY <1>1, <1>2, <1>3 DEF PublishInv, VerifiedPassed
    <2> QED
      BY <2>1, <2>2 DEF VerifiedPassed, Sound
  <1>12. StatusNeverAhead'
    <2>1. Len(status.history) \in Nat
      BY LenProperties DEF PublishInv, FilesOK
    <2>2. /\ Len(status.history) <= Len(history)
          /\ SubSeq(history, 1, Len(status.history)) = status.history
      BY DEF PublishInv, Evidence, StatusNeverAhead
    <2>3. SubSeq(history', 1, Len(status.history)) = status.history
      BY <1>4, <1>5, <2>1, <2>2
    <2> QED
      BY <1>1, <1>4, <2>1, <2>2, <2>3 DEF PublishInv, Evidence, StatusNeverAhead
  <1>13. OnlyKilledUnpublished'
    <2> SUFFICES ASSUME NEW a \in Attempt, folders[a] # None
                 PROVE  \/ \E i \in DOMAIN history' : history'[i].id = a
                        \/ \E w \in Runner : run'[w].pc \in Working /\ run'[w].summary.id = a
                        \/ a \in killed'
      BY <1>1 DEF OnlyKilledUnpublished
    <2>1. CASE \E i \in DOMAIN history : history[i].id = a
      BY <1>4, <2>1
    <2>2. CASE \E w \in Runner : run[w].pc \in Working /\ run[w].summary.id = a
      BY <1>3, <2>2 DEF Working
    <2>3. CASE a \in killed
      BY <1>1, <2>3
    <2> QED
      BY <2>1, <2>2, <2>3 DEF PublishInv, Evidence, OnlyKilledUnpublished
  <1> QED
    BY <1>3, <1>6, <1>7, <1>8, <1>10, <1>11, <1>12, <1>13 DEF PublishInv, Evidence

LEMMA PublishStatusStep ==
  ASSUME PublishInv, NEW r \in Runner, publish_status(r)
  PROVE  PublishInv' /\ Grows
  <1>1. /\ run[r].pc = "status" /\ run' = [run EXCEPT ![r] = Idle] /\ lock' = None
        /\ status' = [latest |-> run[r].summary, history |-> Published(r)]
        /\ UNCHANGED <<history, folders, passed, killed>>
    BY DEF publish_status, Ends
  <1>2. run[r].pc \in Working /\ run[r].summary \in Summary /\ run[r].read \in Seq(Summary)
    BY <1>1 DEF PublishInv, RunOK, Working, Cycle
  <1>3. history = Append(run[r].read, run[r].summary)
    BY <1>1 DEF PublishInv, ReadIsHistory, Published
  <1>4. /\ history \in Seq(Summary) /\ history # <<>> /\ Len(history) \in Nat
        /\ Len(history) \in DOMAIN history /\ history[Len(history)] = run[r].summary
    BY <1>2, <1>3, AppendProperties, LenProperties
  <1>5. /\ RunOK' /\ run'[r].pc = "idle" /\ "idle" \notin Working
        /\ \A w \in Runner : w # r => run'[w] = run[w]
    BY <1>1, IdleFrame, IdleIsCycle DEF PublishInv
  <1>6. FilesOK'
    BY <1>1, <1>2, <1>3, <1>4 DEF PublishInv, FilesOK, Published
  <1>7. OneAtWork'
    BY <1>1, <1>2, <1>5, NoneIsNoRunner DEF PublishInv, OneAtWork
  <1>8. ReadIsHistory'
    BY <1>1, <1>5 DEF PublishInv, ReadIsHistory, Published
  <1>9. VerifiedPassed'
    BY <1>1, <1>5 DEF PublishInv, VerifiedPassed, Sound
  <1>10. StatusNeverAhead'
    BY <1>1, <1>3, <1>4, SubSeqFull DEF StatusNeverAhead, Published
  <1>11. OnlyKilledUnpublished'
    BY <1>1, <1>4, <1>5 DEF PublishInv, Evidence, OnlyKilledUnpublished
  <1> QED
    BY <1>1, <1>5, <1>6, <1>7, <1>8, <1>9, <1>10, <1>11, SameGrows DEF PublishInv, Evidence

LEMMA AttemptStep ==
  ASSUME PublishInv, NEW r \in Runner,
         authorize(r) \/ attack(r) \/ metrics(r) \/ publish_summary(r)
  PROVE  PublishInv' /\ Grows
  <1>0. /\ run[r].pc \in Working \ {"status"} /\ run[r] \in Cycle /\ run[r].summary \in Summary
        /\ run[r].summary.id \in Attempt
    BY DEF PublishInv, RunOK, Working, Summary, authorize, attack, metrics, publish_summary
  <1>1. RunOK
    BY DEF PublishInv
  <1>2. ASSUME Fails(r), UNCHANGED <<lock, files, ghosts>>
        PROVE  PublishInv' /\ Grows
    <2>1. /\ RunOK' /\ run'[r].pc = "summary" /\ run'[r].read = run[r].read
          /\ run'[r].summary = [run[r].summary EXCEPT !.status = "failed"]
          /\ \A w \in Runner : w # r => run'[w] = run[w]
      BY <1>0, <1>1, <1>2, FailsFrame
    <2>2. run'[r].summary.id = run[r].summary.id /\ run'[r].summary.status = "failed"
      BY <1>0, <2>1 DEF Summary
    <2>3. run'[r].pc \in Working \ {"status"} /\ passed \subseteq Attempt
      BY <2>1 DEF Working, PublishInv, FilesOK
    <2> QED
      BY <1>0, <1>2, <2>1, <2>2, <2>3, WorkStep DEF files, ghosts
  <1>3. ASSUME NEW pc \in Working \ {"status"}, Goto(r, pc), UNCHANGED <<lock, history, status, killed>>,
               folders' = folders \/ folders' = [folders EXCEPT ![run[r].summary.id] = TRUE],
               passed \subseteq passed', passed' \subseteq Attempt
        PROVE  PublishInv' /\ Grows
    <2>1. /\ RunOK' /\ run'[r].pc = pc /\ run'[r].summary = run[r].summary
          /\ run'[r].read = run[r].read /\ \A w \in Runner : w # r => run'[w] = run[w]
      BY <1>0, <1>1, <1>3, GotoFrame
    <2>2. run'[r].summary.status = "verified" => run[r].summary.id \in passed'
      BY <1>0, <1>3, <2>1 DEF PublishInv, VerifiedPassed
    <2> QED
      BY <1>0, <1>3, <2>1, <2>2, WorkStep
  <1>4. passed \subseteq Attempt
    BY DEF PublishInv, FilesOK
  <1>5. CASE authorize(r)
    BY <1>2, <1>3, <1>4, <1>5 DEF authorize, files, ghosts, Working
  <1>6. CASE attack(r)
    <2>1. CASE Fails(r) /\ passed' = passed
      BY <1>2, <1>6, <2>1 DEF attack, files, ghosts
    <2>2. CASE Goto(r, "metrics") /\ passed' \in {passed, passed \cup {run[r].summary.id}}
      <3>1. passed \subseteq passed' /\ passed' \subseteq Attempt
        BY <1>0, <1>4, <2>2
      <3> QED
        BY <1>3, <1>6, <2>2, <3>1 DEF attack, files, Working
    <2> QED
      BY <1>6, <2>1, <2>2 DEF attack
  <1>7. CASE metrics(r)
    <2>1. CASE Fails(r)
      BY <1>2, <1>7, <2>1 DEF metrics
    <2>2. CASE ~Fails(r)
      <3> DEFINE good == [run[r].summary EXCEPT !.status = "verified", !.clean = TRUE]
                 next == [run[r] EXCEPT !.pc = "summary", !.summary = good]
      <3>1. /\ run[r].summary.id \in passed /\ run' = [run EXCEPT ![r] = next]
            /\ UNCHANGED <<lock, files, ghosts>>
        BY <1>7, <2>2 DEF metrics
      <3>2. good \in Summary /\ good.id = run[r].summary.id
        BY <1>0 DEF Summary
      <3>3. next \in Cycle /\ next.pc = "summary" /\ next.summary = good /\ next.read = run[r].read
        BY <1>0, <3>2 DEF Cycle, Working
      <3> HIDE DEF good, next
      <3>4. /\ run'[r] = next /\ run' \in [Runner -> Cycle]
            /\ \A w \in Runner : w # r => run'[w] = run[w]
        BY <1>1, <3>1, <3>3 DEF RunOK
      <3>5. RunOK' /\ run'[r].pc \in Working \ {"status"}
        BY <1>1, <3>2, <3>3, <3>4 DEF RunOK, Working
      <3> QED
        BY <1>0, <1>4, <3>1, <3>2, <3>3, <3>4, <3>5, WorkStep DEF files, ghosts
    <2> QED
      BY <2>1, <2>2
  <1>8. CASE publish_summary(r)
    BY <1>3, <1>4, <1>8 DEF publish_summary, ghosts, Working
  <1> QED
    BY <1>5, <1>6, <1>7, <1>8

(* A kill, or the stop of the service.                                     *)
LEMMA DeadStep ==
  ASSUME PublishInv, NEW r \in Runner, Dead(r), UNCHANGED <<files, passed>>
  PROVE  PublishInv' /\ Grows
  <1>1. run[r].pc \in Working => run[r].summary.id \in Attempt
    BY DEF PublishInv, RunOK, Summary
  <1>2. killed \subseteq killed' /\ killed' \subseteq Attempt
    BY <1>1 DEF Dead, PublishInv, FilesOK
  <1> QED
    BY <1>2, LeaveStep DEF Dead

LEMMA InitPublish == Init => PublishInv
  <1> SUFFICES ASSUME Init PROVE PublishInv
    OBVIOUS
  <1>1. \A r \in Runner : run[r] = Idle /\ run[r].pc = "idle"
    BY DEF Init, Idle
  <1>2. RunOK /\ FilesOK
    BY <1>1, IdleIsCycle, EmptySeq DEF Init, RunOK, FilesOK
  <1>3. OneAtWork /\ ReadIsHistory /\ VerifiedPassed
    BY <1>1, IdleIsCycle, NoneIsNoRunner DEF Init, OneAtWork, ReadIsHistory, VerifiedPassed, Working
  <1>4. StatusNeverAhead
    BY SubSeqFull, EmptySeq DEF Init, StatusNeverAhead
  <1>5. OnlyKilledUnpublished
    BY DEF Init, OnlyKilledUnpublished
  <1> QED
    BY <1>2, <1>3, <1>4, <1>5 DEF PublishInv, Evidence

(* Every step keeps the invariant and extends the history.                 *)
LEMMA NextPublish ==
  ASSUME PublishInv, HostOK, CountOK, [Next]_vars
  PROVE  PublishInv' /\ Grows
  <1>1. ASSUME NEW r \in Runner, launch(r) \/ run_cycle(r) \/ kill(r)
        PROVE  PublishInv' /\ Grows
    BY <1>1, LaunchStep, TakeLockStep, AttemptStep, PublishHistoryStep, PublishStatusStep, DeadStep
       DEF run_cycle, kill
  <1>2. ASSUME NEW c \in Control, control(c)
        PROVE  PublishInv' /\ Grows
    <2>1. CASE stop_service(c)
      BY <2>1, DeadStep DEF stop_service
    <2>2. CASE ~stop_service(c)
      BY <1>2, <2>2, HostStep DEF control, invoke, start_ready, start_authorize, start_enable,
         stop_disable, stop_unlink, abort
    <2> QED
      BY <2>1, <2>2
  <1>3. CASE acceptance \/ poll \/ evidence_error \/ Tick \/ ConfigEdited
    BY <1>3, HostStep DEF acceptance, poll, first_status, second_status, evidence_error, Tick,
       ConfigEdited
  <1>4. CASE UNCHANGED vars
    BY <1>4, HostStep DEF vars, files, ghosts
  <1> QED
    BY <1>1, <1>2, <1>3, <1>4 DEF Next

-----------------------------------------------------------------------------
(* The types of the rest: the host, the shells, the reader and the counts. *)
OuterOK == HostOK /\ ShellOK /\ ReaderOK /\ CountOK

LEMMA CountStep ==
  ASSUME CountOK, CountOK' \/ UNCHANGED count, UNCHANGED <<host, shells, reader>>,
         HostOK, ShellOK, ReaderOK
  PROVE  OuterOK'
  BY DEF OuterOK, CountOK, HostOK, ShellOK, ReaderOK, host, shells

LEMMA RunnerOuter ==
  ASSUME OuterOK, NEW r \in Runner, launch(r) \/ run_cycle(r) \/ kill(r)
  PROVE  OuterOK'
  <1>1. HostOK /\ ShellOK /\ ReaderOK /\ CountOK
    BY DEF OuterOK
  <1>2. CASE launch(r)
    BY <1>1, <1>2 DEF launch, OuterOK, HostOK, ShellOK, ReaderOK, CountOK, shells
  <1>3. CASE take_lock(r)
    <2>1. CASE UNCHANGED count
      BY <1>1, <1>3, <2>1, CountStep DEF take_lock
    <2>2. CASE begin(r, history)
      <3>1. CountOK'
        BY <1>1, <2>2, BoundsAssumption DEF begin, CountOK
      <3> QED
        BY <1>1, <1>3, <3>1, CountStep DEF take_lock
    <2> QED
      BY <1>3, <2>1, <2>2 DEF take_lock
  <1>4. CASE authorize(r) \/ attack(r) \/ metrics(r)
    BY <1>1, <1>4, CountStep DEF authorize, attack, metrics
  <1>5. CASE publish_summary(r) \/ publish_history(r) \/ publish_status(r)
    BY <1>1, <1>5, CountStep DEF publish_summary, publish_history, publish_status
  <1>6. CASE kill(r)
    <2>1. CountOK'
      BY <1>1, <1>6, BoundsAssumption DEF kill, CountOK
    <2> QED
      BY <1>1, <1>6, <2>1, CountStep DEF kill
  <1> QED
    BY <1>2, <1>3, <1>4, <1>5, <1>6 DEF run_cycle

(* What a step leaves of the command that takes it.                        *)
LEMMA ShellFrame ==
  ASSUME ShellOK, NEW c \in Control, NEW pc \in ShellPc, NEW value \in Config \cup {None},
         \/ command' = [command EXCEPT ![c].pc = pc]
         \/ command' = [command EXCEPT ![c].pc = pc, ![c].value = value]
         \/ pc = "idle" /\ Exits(c)
  PROVE  /\ command' \in [Control -> ShellState] /\ command'[c].pc = pc
         /\ pc # "idle" => command'[c].op = command[c].op /\ command'[c].alone = command[c].alone
         /\ \A d \in Control : d # c => command'[d] = command[d]
  <1>1. IdleShell \in ShellState /\ IdleShell.pc = "idle"
    BY DEF IdleShell, ShellState, ShellPc
  <1>2. CASE pc = "idle" /\ command' = [command EXCEPT ![c] = IdleShell]
    BY <1>1, <1>2 DEF ShellOK
  <1>3. CASE command' = [command EXCEPT ![c].pc = pc]
    BY <1>3 DEF ShellOK, ShellState
  <1>4. CASE command' = [command EXCEPT ![c].pc = pc, ![c].value = value]
    BY <1>4 DEF ShellOK, ShellState
  <1> QED
    BY <1>2, <1>3, <1>4 DEF Exits

LEMMA InvokeFrame ==
  ASSUME ShellOK, NEW c \in Control, NEW op \in {"start", "stop"}, invoke(c, op)
  PROVE  /\ command' \in [Control -> ShellState]
         /\ command'[c].op = op
         /\ command'[c].pc = IF op = "start" THEN "ready" ELSE "disable"
         /\ command'[c].alone = \A d \in Control \ {c} : ~Starting(d)
         /\ \A d \in Control : d # c =>
              /\ command'[d].op = command[d].op /\ command'[d].pc = command[d].pc
              /\ command'[d].alone = (command[d].alone /\ op # "start")
  <1> DEFINE new == [op |-> op, value |-> None,
                     pc |-> IF op = "start" THEN "ready" ELSE "disable",
                     alone |-> \A d \in Control \ {c} : ~Starting(d)]
             then(d) == IF d = c THEN new
                        ELSE IF op = "start" THEN [command[d] EXCEPT !.alone = FALSE]
                        ELSE command[d]
  <1>1. new \in ShellState
    BY DEF ShellState, ShellPc
  <1>2. command' = [d \in Control |-> then(d)]
    BY DEF invoke
  <1>3. new.op = op /\ new.pc = (IF op = "start" THEN "ready" ELSE "disable")
        /\ new.alone = \A d \in Control \ {c} : ~Starting(d)
    OBVIOUS
  <1> HIDE DEF new
  <1>4. ASSUME NEW d \in Control PROVE then(d) \in ShellState
    BY <1>1 DEF ShellOK, ShellState
  <1>5. ASSUME NEW d \in Control, d # c
        PROVE  /\ then(d).op = command[d].op /\ then(d).pc = command[d].pc
               /\ then(d).alone = (command[d].alone /\ op # "start")
    BY <1>5 DEF ShellOK, ShellState
  <1>6. then(c) = new
    OBVIOUS
  <1> HIDE DEF then
  <1> QED
    BY <1>2, <1>3, <1>4, <1>5, <1>6

LEMMA ControlOuter ==
  ASSUME OuterOK, NEW c \in Control, control(c)
  PROVE  OuterOK'
  <1>1. HostOK /\ ShellOK /\ ReaderOK /\ CountOK
    BY DEF OuterOK
  <1>2. ASSUME NEW op \in {"start", "stop"}, invoke(c, op)
        PROVE  OuterOK'
    <2>1. /\ c = count.commands + 1 /\ count' = [count EXCEPT !.commands = c]
          /\ stopped' = (stopped /\ op # "start")
          /\ UNCHANGED <<host, reader>>
      BY <1>2 DEF invoke
    <2>2. ShellOK'
      BY <1>1, <1>2, <2>1, InvokeFrame DEF ShellOK
    <2>3. CountOK'
      BY <1>1, <2>1, BoundsAssumption DEF CountOK, Control
    <2> QED
      BY <1>1, <2>1, <2>2, <2>3 DEF OuterOK, HostOK, ReaderOK, host
  <1>3. ASSUME command' \in [Control -> ShellState]
        PROVE  ~(\E op \in {"start", "stop"} : invoke(c, op)) => OuterOK'
    <2>1. CASE start_ready(c) \/ start_authorize(c) \/ start_enable(c)
      BY <1>1, <1>3, <2>1 DEF start_ready, start_authorize, start_enable, host,
         OuterOK, HostOK, ShellOK, ShellState, ReaderOK, CountOK
    <2>2. CASE stop_disable(c) \/ stop_service(c) \/ stop_unlink(c) \/ abort(c)
      BY <1>1, <1>3, <2>2 DEF stop_disable, stop_service, stop_unlink, abort, host,
         OuterOK, HostOK, ShellOK, ShellState, ReaderOK, CountOK
    <2> QED
      BY <2>1, <2>2 DEF control
  <1>4. CASE start_ready(c)
    <2>1. config \in Config \cup {None}
      BY <1>1 DEF HostOK
    <2>2. command' \in [Control -> ShellState]
      BY <1>1, <1>4, <2>1, ShellFrame DEF start_ready, ShellPc
    <2> QED
      BY <1>2, <1>3, <2>2
  <1>5. CASE start_authorize(c) \/ start_enable(c) \/ stop_disable(c) \/ stop_service(c)
             \/ stop_unlink(c) \/ abort(c)
    <2>1. command' \in [Control -> ShellState]
      BY <1>1, <1>5, ShellFrame DEF start_authorize, start_enable, stop_disable, stop_service,
         stop_unlink, abort, Shell, ShellPc
    <2> QED
      BY <1>2, <1>3, <2>1
  <1> QED
    BY <1>2, <1>4, <1>5 DEF control

LEMMA ReaderOuter ==
  ASSUME OuterOK, EndedOK, acceptance \/ poll \/ evidence_error
  PROVE  OuterOK'
  <1>1. HostOK /\ ShellOK /\ ReaderOK /\ CountOK
    BY DEF OuterOK
  <1>2. CASE acceptance
    <2>1. reader' = [pc |-> "status", since |-> clock, ended |-> {}] /\ ReaderOK'
      BY <1>1, <1>2 DEF acceptance, IdleReader, HostOK, ReaderOK
    <2>2. CountOK'
      BY <1>1, <1>2, BoundsAssumption DEF acceptance, CountOK
    <2> QED
      BY <1>1, <1>2, <2>1, <2>2 DEF acceptance, OuterOK, HostOK, ShellOK, host, shells
  <1>3. CASE first_status
    BY <1>1, <1>3 DEF first_status, EndedOK, OuterOK, HostOK, ShellOK, ReaderOK, CountOK, host, shells
  <1>4. CASE second_status \/ evidence_error
    BY <1>1, <1>4 DEF second_status, evidence_error, OuterOK, HostOK, ShellOK, ReaderOK, CountOK,
       host, shells
  <1> QED
    BY <1>2, <1>3, <1>4 DEF poll

LEMMA NextOuter ==
  ASSUME OuterOK, EndedOK, [Next]_vars
  PROVE  OuterOK'
  <1>1. HostOK /\ ShellOK /\ ReaderOK /\ CountOK
    BY DEF OuterOK
  <1>2. CASE Tick
    BY <1>1, <1>2, BoundsAssumption DEF Tick, OuterOK, HostOK, ShellOK, ReaderOK, CountOK, shells
  <1>3. CASE ConfigEdited
    BY <1>1, <1>3, BoundsAssumption DEF ConfigEdited, OuterOK, HostOK, ShellOK, ReaderOK, CountOK,
       shells
  <1>4. CASE UNCHANGED vars
    BY <1>1, <1>4 DEF vars, OuterOK, HostOK, ShellOK, ReaderOK, CountOK, host, shells
  <1> QED
    BY <1>2, <1>3, <1>4, RunnerOuter, ControlOuter, ReaderOuter DEF Next

LEMMA InitOuter == Init => OuterOK
  <1> SUFFICES ASSUME Init PROVE OuterOK
    OBVIOUS
  <1>1. IdleShell \in ShellState
    BY DEF IdleShell, ShellState, ShellPc
  <1>0. 0 \in 0..MaxTicks
    BY BoundsAssumption
  <1>2. HostOK /\ ReaderOK
    <2>1. HostOK
      BY <1>0 DEF Init, HostOK
    <2>2. reader = [pc |-> "idle", since |-> 0, ended |-> {}]
      BY DEF Init, IdleReader
    <2> QED
      BY <1>0, <2>1, <2>2 DEF ReaderOK
  <1>3. ShellOK
    BY <1>1 DEF Init, ShellOK
  <1>4. CountOK
    BY SpentAssumption DEF Init, CountOK
  <1> QED
    BY <1>2, <1>3, <1>4 DEF OuterOK

(* What came to its end is in the history, and stays there.                *)
Recorded(s) == \E i \in DOMAIN history : history[i] = s

EndedPublished == \A s \in ended : Recorded(s)

RunnerInv == PublishInv /\ OuterOK /\ EndedOK /\ EndedPublished

(* Only the last step of an attempt adds to what has ended.                *)
LEMMA EndedStep ==
  ASSUME [Next]_vars
  PROVE  \/ ended' = ended
         \/ \E r \in Runner : publish_status(r)
  BY DEF Next, vars, launch, run_cycle, take_lock, authorize, attack, metrics, publish_summary,
     publish_history, kill, control, invoke, start_ready, start_authorize,
     start_enable, stop_disable, stop_service, stop_unlink, abort, Tick, ConfigEdited,
     acceptance, poll, first_status, second_status, evidence_error, ghosts

LEMMA NextEnded ==
  ASSUME RunnerInv, [Next]_vars, Grows, FilesOK'
  PROVE  EndedOK' /\ EndedPublished'
  <1>1. /\ history \in Seq(Summary) /\ history' \in Seq(Summary)
        /\ Len(history) \in Nat /\ Len(history') \in Nat
        /\ DOMAIN history = 1..Len(history) /\ DOMAIN history' = 1..Len(history')
    BY LenProperties DEF RunnerInv, PublishInv, FilesOK
  <1>2. \A i \in 1..Len(history) : i \in 1..Len(history') /\ history'[i] = history[i]
    <2>1. \A i \in 1..Len(history) : SubSeq(history', 1, Len(history))[i] = history'[i]
      BY <1>1 DEF Grows
    <2> QED
      BY <1>1, <2>1 DEF Grows
  <1>3. \A s : Recorded(s) => Recorded(s)'
    BY <1>1, <1>2 DEF Recorded
  <1>4. CASE ended' = ended
    BY <1>3, <1>4 DEF RunnerInv, EndedOK, EndedPublished
  <1>5. ASSUME NEW r \in Runner, publish_status(r)
        PROVE  EndedOK' /\ EndedPublished'
    <2>1. PICK s : s = run[r].summary
      OBVIOUS
    <2>2. run[r].pc = "status" /\ ended' = ended \cup {s} /\ history' = history
      BY <1>5, <2>1 DEF publish_status, Ends
    <2>3. s \in Summary /\ run[r] \in Cycle
      BY <2>1, <2>2 DEF RunnerInv, PublishInv, RunOK, Working
    <2>4. history = Append(run[r].read, s)
      BY <2>1, <2>2 DEF RunnerInv, PublishInv, ReadIsHistory, Published
    <2>5. history[Len(history)] = s /\ Len(history) \in DOMAIN history
      BY <2>3, <2>4, AppendProperties, LenProperties DEF Cycle
    <2>6. Recorded(s)'
      BY <2>2, <2>5 DEF Recorded
    <2>7. EndedOK'
      BY <2>2, <2>3 DEF RunnerInv, EndedOK
    <2>8. EndedPublished'
      BY <1>3, <2>2, <2>6 DEF RunnerInv, EndedPublished
    <2> QED
      BY <2>7, <2>8
  <1> QED
    BY <1>4, <1>5, EndedStep

LEMMA RunnerInvHolds == Spec => []RunnerInv
  <1>1. Init => RunnerInv
    BY InitPublish, InitOuter DEF RunnerInv, Init, EndedOK, EndedPublished
  <1>2. ASSUME RunnerInv, [Next]_vars PROVE RunnerInv'
    <2>1. PublishInv' /\ Grows
      BY <1>2, NextPublish DEF RunnerInv, OuterOK
    <2> QED
      BY <1>2, <2>1, NextOuter, NextEnded DEF RunnerInv, PublishInv
  <1>3. RunnerInv /\ [Next]_vars => RunnerInv'
    BY <1>2
  <1> QED
    BY <1>1, <1>3, PTL DEF Spec

(* The files keep their types, the status names nothing the history lacks, *)
(* and only killed attempts are missing from the history, for every number *)
(* of attempts, commands, kills and readers.                               *)
THEOREM EvidenceKept == Spec => []Inv
  <1>1. RunnerInv => Inv
    BY TypeParts DEF RunnerInv, PublishInv, OuterOK, Evidence, Inv
  <1> QED
    BY <1>1, RunnerInvHolds, PTL

(* The published history only ever grows.                                  *)
THEOREM HistoryGrows == Spec => HistoryAppendOnly
  <1>1. RunnerInv /\ [Next]_vars =>
          [/\ Len(history') >= Len(history)
           /\ SubSeq(history', 1, Len(history)) = history]_history
    BY NextPublish DEF RunnerInv, OuterOK, Grows
  <1> QED
    BY <1>1, RunnerInvHolds, PTL DEF Spec, HistoryAppendOnly

-----------------------------------------------------------------------------
(* Why it is quiet after a stop. A stop that is marked alone knows that no *)
(* start is under way, so that nothing enables the timer it disabled, and  *)
(* once the service is stopped nothing begins another scheduled attempt.   *)
Calm == \A d \in Control : ~Starting(d)

StopQuiet ==
  \A c \in Control :
    /\ command[c].pc \in {"disable", "service", "unlink"} => command[c].op = "stop"
    /\ command[c].pc \in {"ready", "authorize", "enable"} => command[c].op = "start"
    /\ command[c].op = "stop" /\ command[c].alone =>
         /\ command[c].pc # "idle" => Calm
         /\ command[c].pc \in {"service", "unlink"} => ~timer
         /\ command[c].pc = "unlink" => run["scheduled"].pc = "idle"

StoppedQuiet == stopped => Calm /\ ~timer /\ run["scheduled"].pc = "idle"

QuietInv == StopQuiet /\ StoppedQuiet

(* Without the timer no attempt is begun but by hand.                      *)
LEMMA RunnerQuiet ==
  ASSUME RunnerInv, NEW r \in Runner, launch(r) \/ run_cycle(r) \/ kill(r),
         ~timer, run["scheduled"].pc = "idle"
  PROVE  run'["scheduled"].pc = "idle"
  <1>1. r # "scheduled"
    BY DEF launch, run_cycle, take_lock, authorize, attack, metrics, publish_summary,
       publish_history, publish_status, kill
  <1>2. \E v : run' = [run EXCEPT ![r] = v]
    BY DEF launch, run_cycle, take_lock, begin, authorize, attack, metrics, publish_summary,
       publish_history, publish_status, kill, Goto, Fails, Dead
  <1> QED
    BY <1>1, <1>2 DEF RunnerInv, PublishInv, RunOK

(* A step that neither moves a command nor touches the timer.              *)
LEMMA CommandsRest ==
  ASSUME QuietInv, UNCHANGED <<command, stopped, timer>>,
         ~timer /\ run["scheduled"].pc = "idle" => run'["scheduled"].pc = "idle"
  PROVE  QuietInv'
  BY DEF QuietInv, StopQuiet, StoppedQuiet, Calm, Starting

(* A step of a start command: it is under way, so nothing is quiet yet.    *)
LEMMA StartQuiet ==
  ASSUME QuietInv, RunnerInv, NEW c \in Control,
         start_ready(c) \/ start_authorize(c) \/ start_enable(c)
  PROVE  QuietInv'
  <1>0. ShellOK /\ config \in Config \cup {None}
    BY DEF RunnerInv, OuterOK, HostOK
  <1>1. command[c].pc \in {"ready", "authorize", "enable"} /\ UNCHANGED <<run, stopped>>
    BY DEF start_ready, start_authorize, start_enable
  <1>2. command[c].op = "start" /\ ~Calm
    BY <1>1 DEF QuietInv, StopQuiet, Calm, Starting
  <1>3. /\ command'[c].pc \in {"authorize", "enable", "idle"}
        /\ command'[c].pc # "idle" => command'[c].op = "start"
        /\ \A d \in Control : d # c => command'[d] = command[d]
    BY <1>0, <1>2, ShellFrame DEF start_ready, start_authorize, start_enable, Shell, ShellPc
  <1>4. StopQuiet'
    BY <1>2, <1>3 DEF QuietInv, StopQuiet
  <1> QED
    BY <1>1, <1>2, <1>4 DEF QuietInv, StoppedQuiet

(* A step of a stop command, or one that ends a command without effect.    *)
LEMMA StopSteps ==
  ASSUME QuietInv, RunnerInv, NEW c \in Control,
         stop_disable(c) \/ stop_service(c) \/ stop_unlink(c) \/ abort(c)
  PROVE  QuietInv'
  <1>0. ShellOK /\ RunOK
    BY DEF RunnerInv, OuterOK, PublishInv
  <1>1. /\ command'[c].pc \in {"service", "unlink", "idle"}
        /\ command'[c].pc # "idle" =>
             command'[c].op = command[c].op /\ command'[c].alone = command[c].alone
        /\ \A d \in Control : d # c => command'[d] = command[d]
    BY <1>0, ShellFrame DEF stop_disable, stop_service, stop_unlink, abort, Shell, ShellPc
  <1>2. Calm => Calm'
    BY <1>1 DEF Calm, Starting, QuietInv, StopQuiet, stop_disable, stop_service, stop_unlink, abort
  <1>3. ~timer => ~timer'
    BY DEF stop_disable, stop_service, stop_unlink, abort, host
  <1>4. run["scheduled"].pc = "idle" => run'["scheduled"].pc = "idle"
    BY <1>0, IdleFrame, IdleIsCycle DEF stop_disable, stop_service, stop_unlink, abort, Dead
  <1>5. CASE stop_disable(c)
    <2>1. command'[c].pc = "service" /\ command[c].pc = "disable" /\ ~timer' /\ stopped' = stopped
      BY <1>0, <1>5, ShellFrame DEF stop_disable, Shell, ShellPc
    <2> QED
      BY <1>1, <1>2, <1>3, <1>4, <2>1 DEF QuietInv, StopQuiet, StoppedQuiet
  <1>6. CASE stop_service(c)
    <2>1. command'[c].pc = "unlink" /\ command[c].pc = "service" /\ stopped' = stopped
      BY <1>0, <1>6, ShellFrame DEF stop_service, Shell, ShellPc
    <2>2. run'["scheduled"].pc = "idle"
      BY <1>0, <1>6, IdleFrame, IdleIsCycle DEF stop_service, Dead
    <2> QED
      BY <1>1, <1>2, <1>3, <2>1, <2>2 DEF QuietInv, StopQuiet, StoppedQuiet
  <1>7. CASE stop_unlink(c)
    <2>1. command[c].pc = "unlink" /\ command'[c].pc = "idle" /\ stopped' = command[c].alone
      BY <1>7, <1>0, ShellFrame DEF stop_unlink, ShellPc
    <2>2. StopQuiet'
      BY <1>1, <1>2, <1>3, <1>4, <2>1 DEF QuietInv, StopQuiet
    <2>3. command[c].alone => Calm /\ ~timer /\ run["scheduled"].pc = "idle"
      BY <2>1 DEF QuietInv, StopQuiet
    <2> QED
      BY <1>2, <1>3, <1>4, <2>1, <2>2, <2>3 DEF QuietInv, StoppedQuiet
  <1>8. CASE abort(c)
    <2>1. command'[c].pc = "idle" /\ stopped' = stopped
      BY <1>8, <1>0, ShellFrame DEF abort, ShellPc
    <2> QED
      BY <1>1, <1>2, <1>3, <1>4, <2>1 DEF QuietInv, StopQuiet, StoppedQuiet
  <1> QED
    BY <1>5, <1>6, <1>7, <1>8

(* A command begins: a start ends the quiet, a stop looks for starts.      *)
LEMMA InvokeQuiet ==
  ASSUME QuietInv, RunnerInv, NEW c \in Control, NEW op \in {"start", "stop"}, invoke(c, op)
  PROVE  QuietInv'
  <1>1. /\ command'[c].op = op
        /\ command'[c].pc = IF op = "start" THEN "ready" ELSE "disable"
        /\ command'[c].alone = \A d \in Control \ {c} : ~Starting(d)
        /\ \A d \in Control : d # c =>
             /\ command'[d].op = command[d].op /\ command'[d].pc = command[d].pc
             /\ command'[d].alone = (command[d].alone /\ op # "start")
    BY InvokeFrame DEF RunnerInv, OuterOK
  <1>2. stopped' = (stopped /\ op # "start") /\ UNCHANGED <<timer, run>>
    BY DEF invoke, host
  <1>3. CASE op = "start"
    BY <1>1, <1>2, <1>3 DEF QuietInv, StopQuiet, StoppedQuiet
  <1>4. CASE op = "stop"
    <2>1. ~Starting(c)'
      BY <1>1, <1>4 DEF Starting
    <2>2. \A d \in Control : d # c => (Starting(d)' <=> Starting(d))
      BY <1>1 DEF Starting
    <2>3. Calm => Calm'
      BY <2>1, <2>2 DEF Calm
    <2>4. command'[c].alone => Calm'
      BY <1>1, <2>1, <2>2 DEF Calm
    <2>5. StopQuiet'
      <3> SUFFICES ASSUME NEW d \in Control
                   PROVE  /\ command'[d].pc \in {"disable", "service", "unlink"} => command'[d].op = "stop"
                          /\ command'[d].pc \in {"ready", "authorize", "enable"} => command'[d].op = "start"
                          /\ command'[d].op = "stop" /\ command'[d].alone =>
                               /\ command'[d].pc # "idle" => Calm'
                               /\ command'[d].pc \in {"service", "unlink"} => ~timer'
                               /\ command'[d].pc = "unlink" => run'["scheduled"].pc = "idle"
        BY DEF StopQuiet
      <3>1. CASE d = c
        BY <1>1, <1>4, <2>4, <3>1
      <3>2. CASE d # c
        BY <1>1, <1>2, <1>4, <2>3, <3>2 DEF QuietInv, StopQuiet
      <3> QED
        BY <3>1, <3>2
    <2> QED
      BY <1>2, <1>4, <2>3, <2>5 DEF QuietInv, StoppedQuiet
  <1> QED
    BY <1>3, <1>4

LEMMA NextQuiet ==
  ASSUME QuietInv, RunnerInv, [Next]_vars
  PROVE  QuietInv'
  <1>1. ASSUME NEW r \in Runner, launch(r) \/ run_cycle(r) \/ kill(r)
        PROVE  QuietInv'
    <2>1. UNCHANGED <<command, stopped, timer>>
      BY <1>1 DEF launch, run_cycle, take_lock, authorize, attack, metrics, publish_summary,
         publish_history, publish_status, kill, host, shells
    <2> QED
      BY <1>1, <2>1, RunnerQuiet, CommandsRest
  <1>2. ASSUME NEW c \in Control, control(c)
        PROVE  QuietInv'
    BY <1>2, StartQuiet, StopSteps, InvokeQuiet DEF control
  <1>3. CASE acceptance \/ poll \/ evidence_error \/ Tick \/ ConfigEdited \/ UNCHANGED vars
    <2>1. UNCHANGED <<command, stopped, timer, run>>
      BY <1>3 DEF acceptance, poll, first_status, second_status, evidence_error, Tick, ConfigEdited,
         vars, host, shells
    <2> QED
      BY <2>1, CommandsRest
  <1> QED
    BY <1>1, <1>2, <1>3 DEF Next

(* After a stop that no start overlapped nothing scheduled runs, however   *)
(* many starts, stops and attempts interleave before and after it.         *)
THEOREM StopIsQuiet == Spec => []QuietAfterStop
  <1>1. Init => QuietInv
    BY DEF Init, QuietInv, StopQuiet, StoppedQuiet, IdleShell
  <1>2. QuietInv /\ RunnerInv /\ [Next]_vars => QuietInv'
    BY NextQuiet
  <1>3. QuietInv => QuietAfterStop
    BY DEF QuietInv, StoppedQuiet, QuietAfterStop
  <1> QED
    BY <1>1, <1>2, <1>3, RunnerInvHolds, PTL DEF Spec

-----------------------------------------------------------------------------
(* What a verdict rests on: from the first status of a poll on, everything *)
(* that had ended by then and is fresh met its expectations.               *)
Judged(s) == Fresh(s) => Sound(s) /\ s.id \in passed

VerdictInv ==
  reader.pc \in {"events", "verified", "pending"} => \A s \in reader.ended : Judged(s)

(* The other steps leave the verifier alone, and no attempt loses what it  *)
(* has passed.                                                             *)
LEMMA ReaderRests ==
  ASSUME [Next]_vars
  PROVE  /\ reader' = reader \/ acceptance \/ first_status \/ second_status \/ evidence_error
         /\ passed \subseteq passed'
  BY DEF Next, vars, launch, run_cycle, take_lock, authorize, attack, metrics, publish_summary,
     publish_history, publish_status, kill, control, invoke, start_ready, start_authorize,
     start_enable, stop_disable, stop_service, stop_unlink, abort, Tick, ConfigEdited,
     acceptance, poll, first_status, second_status, evidence_error, ghosts, Ends

LEMMA NextVerdict ==
  ASSUME RunnerInv, VerdictInv, [Next]_vars
  PROVE  VerdictInv'
  <1>1. ReaderOK
    BY DEF RunnerInv, OuterOK
  <1>2. CASE reader' = reader
    BY <1>2, ReaderRests DEF VerdictInv, Judged, Fresh, Sound
  <1>3. CASE acceptance \/ evidence_error
    <2>1. reader'.pc \in {"status", "failure"}
      BY <1>1, <1>3 DEF acceptance, evidence_error, IdleReader, ReaderOK
    <2> QED
      BY <2>1 DEF VerdictInv
  <1>4. CASE first_status
    <2>1. reader'.since = reader.since /\ reader'.ended = ended /\ passed' = passed
      BY <1>1, <1>4 DEF first_status, ReaderOK, ghosts
    <2>2. CASE traffic_failure(history)
      <3>1. reader'.pc = "failure"
        BY <1>1, <1>4, <2>2 DEF first_status, ReaderOK
      <3> QED
        BY <3>1 DEF VerdictInv
    <2>3. CASE ~traffic_failure(history)
      <3>1. \A i \in DOMAIN history : Judged(history[i])
        BY <2>3 DEF traffic_failure, Judged, RunnerInv, PublishInv, VerifiedPassed
      <3>2. \A s \in ended : Judged(s)
        BY <3>1 DEF RunnerInv, EndedPublished, Recorded
      <3> QED
        BY <2>1, <3>2 DEF VerdictInv, Judged, Fresh, Sound
    <2> QED
      BY <2>2, <2>3
  <1>5. CASE second_status
    <2>1. /\ reader.pc = "events" /\ reader'.since = reader.since
          /\ reader'.ended = reader.ended /\ passed' = passed
      BY <1>1, <1>5 DEF second_status, ReaderOK, ghosts
    <2> QED
      BY <2>1 DEF VerdictInv, Judged, Fresh, Sound
  <1> QED
    BY <1>2, <1>3, <1>4, <1>5, ReaderRests

(* What a verdict says of the attempts, for any number of them, of kills   *)
(* and of polls: those that had ended before the last poll's first status  *)
(* met their expectations. The verifier judges the summaries again, a      *)
(* sound summary is of an attempt that passed, and nothing that came to    *)
(* its end is missing from the history.                                    *)
THEOREM VerdictIsHonest == Spec => []VerdictHonest
  <1>1. Init => VerdictInv
    BY DEF Init, IdleReader, VerdictInv
  <1>2. RunnerInv /\ VerdictInv /\ [Next]_vars => VerdictInv'
    BY NextVerdict
  <1>3. VerdictInv => VerdictHonest
    BY DEF VerdictInv, VerdictHonest, Judged
  <1> QED
    BY <1>1, <1>2, <1>3, RunnerInvHolds, PTL DEF Spec
=============================================================================
