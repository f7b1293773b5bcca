-------------------------- MODULE AtomicFile_proof --------------------------
(***************************************************************************)
(* A file that is saved under a lock holds a whole document at every       *)
(* moment, for any writers and documents, both for save_json, which        *)
(* creates its temporary file exclusively and removes it on the way out,   *)
(* and for atomic, which opens the one that is there.                      *)
(***************************************************************************)
EXTENDS AtomicFile, TLAPS

-----------------------------------------------------------------------------
(* The lock: only its holder is in a save, and while a process is, the     *)
(* temporary name points to what it opened.                                *)
LockKept == \A w \in Writer : writer[w].pc # "idle" <=> holder = w

OpenIsTmp ==
  \A w \in Writer :
    writer[w].pc \in {"open", "written"} =>
      /\ tmp # None /\ writer[w].inode = tmp /\ writer[w].value \in Value
      /\ writer[w].pc = "written" => content[tmp] = writer[w].value

(* The two names never point to one inode, and a new inode is new.         *)
NamesApart ==
  /\ tmp # None => tmp <= saves
  /\ file # None => file <= saves /\ file # tmp

FileInv == TypeOK /\ LockKept /\ OpenIsTmp /\ NamesApart /\ FileWhole

(* A temporary file that somebody still has to remove.                     *)
Cleans == Exclusive /\ crashes = 0 /\ tmp # None => \E w \in Writer : holder = w

LEMMA FileInit ==
  ASSUME BoundsAreNumbers, NoneIsNothing, Init
  PROVE  FileInv /\ Cleans
  BY DEF BoundsAreNumbers, NoneIsNothing, Init, FileInv, TypeOK, LockKept, OpenIsTmp, NamesApart, FileWhole,
     Cleans, Idle, Writing, Inode

(* A save begins: under the lock nobody else is in one.                    *)
LEMMA FileOpens ==
  ASSUME BoundsAreNumbers, NoneIsNothing, Locked, Exclusive \in BOOLEAN, FileInv, Cleans,
         NEW w \in Writer, open(w)
  PROVE  FileInv' /\ Cleans'
  <1> USE DEF BoundsAreNumbers, NoneIsNothing
  <1>1. /\ writer[w].pc = "idle" /\ saves < MaxSaves /\ holder = None /\ saves' = saves + 1
        /\ file' = file /\ crashes' = crashes
    BY DEF open, Begins
  <1>2. TypeOK /\ LockKept /\ OpenIsTmp /\ NamesApart /\ FileWhole
    BY DEF FileInv
  <1>3. \A v \in Writer : writer[v].pc = "idle"
    BY <1>1, <1>2 DEF LockKept
  <1>4. /\ saves \in Nat /\ saves + 1 \in Inode /\ saves' \in 0..MaxSaves
        /\ \A i \in Inode : i # None
    BY <1>1, <1>2 DEF TypeOK, Inode
  <1>5. ASSUME NEW i \in Inode, Opens(w, i), tmp' = i, file # i, i <= saves + 1,
               creator' \in [Inode -> Writer \cup {None}]
        PROVE  FileInv' /\ Cleans'
    <2>1. PICK v \in Value :
            /\ content' = [content EXCEPT ![i] = Partial]
            /\ writer' = [writer EXCEPT ![w] = [pc |-> "open", inode |-> i, value |-> v]]
            /\ holder' = w
      BY <1>5 DEF Opens
    <2>2. /\ writer' \in [Writer -> Writing] /\ writer'[w].pc = "open"
          /\ writer'[w].inode = i /\ writer'[w].value = v
          /\ \A x \in Writer : x # w => writer'[x] = writer[x]
      BY <1>2, <2>1 DEF TypeOK, Writing
    <2>3. /\ content' \in [Inode -> Value \cup {Partial, None}]
          /\ \A j \in Inode : j # i => content'[j] = content[j]
      BY <1>2, <2>1 DEF TypeOK
    <2>4. TypeOK'
      BY <1>1, <1>2, <1>4, <1>5, <2>1, <2>2, <2>3 DEF TypeOK
    <2>5. LockKept'
      BY <1>3, <2>1, <2>2 DEF LockKept
    <2>6. OpenIsTmp'
      BY <1>3, <1>4, <1>5, <2>2 DEF OpenIsTmp
    <2>7. NamesApart'
      BY <1>1, <1>2, <1>4, <1>5 DEF NamesApart, TypeOK, Inode
    <2>8. FileWhole'
      BY <1>1, <1>2, <1>5, <2>3 DEF FileWhole, TypeOK
    <2>9. Cleans'
      BY <2>1 DEF Cleans
    <2> QED
      BY <2>4, <2>5, <2>6, <2>7, <2>8, <2>9 DEF FileInv
  <1>6. CASE Creates(w)
    <2>1. /\ tmp' = saves + 1 /\ Opens(w, saves + 1)
          /\ creator' \in [Inode -> Writer \cup {None}]
      BY <1>2, <1>6 DEF Creates, TypeOK
    <2>2. file # saves + 1 /\ saves + 1 <= saves + 1
      BY <1>2, <1>4 DEF NamesApart, TypeOK, Inode
    <2> QED
      BY <1>4, <1>5, <2>1, <2>2
  <1>7. CASE tmp # None /\ ~Exclusive /\ Opens(w, tmp) /\ UNCHANGED <<tmp, creator>>
    <2>1. /\ tmp \in Inode /\ file # tmp /\ tmp <= saves + 1 /\ tmp' = tmp
          /\ creator' \in [Inode -> Writer \cup {None}]
      BY <1>2, <1>4, <1>7 DEF NamesApart, TypeOK, Inode
    <2> QED
      BY <1>5, <1>7, <2>1
  <1>8. CASE tmp # None /\ Exclusive /\ UNCHANGED <<content, writer, holder, tmp, creator>>
    BY <1>1, <1>2, <1>4, <1>8
       DEF FileInv, TypeOK, LockKept, OpenIsTmp, NamesApart, FileWhole, Cleans, Inode
  <1> QED
    BY <1>6, <1>7, <1>8 DEF open

(* A step of the process that is in a save leaves the others alone.        *)
LEMMA OthersIdle ==
  ASSUME FileInv, NEW w \in Writer, writer[w].pc # "idle"
  PROVE  holder = w /\ \A v \in Writer : v # w => writer[v].pc = "idle"
  BY DEF FileInv, LockKept

(* A process that leaves its save, or goes on to remove what it left.      *)
LEMMA FileLeaves ==
  ASSUME BoundsAreNumbers, NoneIsNothing, Locked, Exclusive \in BOOLEAN, FileInv, Cleans,
         NEW w \in Writer, writer[w].pc # "idle",
         \/ writer' = [writer EXCEPT ![w] = Idle] /\ holder' = None
         \/ Exclusive /\ Goto(w, "cleanup") /\ UNCHANGED holder,
         NamesApart', FileWhole', tmp' \in Inode \cup {None}, file' \in Inode \cup {None},
         UNCHANGED <<disk, saves>>, crashes' \in 0..MaxCrashes,
         \/ ~Exclusive \/ tmp' = None \/ crashes' # 0 \/ holder' = holder
  PROVE  FileInv' /\ Cleans'
  <1> USE DEF BoundsAreNumbers, NoneIsNothing
  <1>1. holder = w /\ \A v \in Writer : v # w => writer[v].pc = "idle"
    BY OthersIdle
  <1>2. TypeOK
    BY DEF FileInv
  <1>3. content' = content /\ creator' = creator /\ saves' = saves
    BY DEF disk
  <1>4. None \notin Writer
    OBVIOUS
  <1>5. /\ writer' \in [Writer -> Writing] /\ writer'[w].pc \in {"idle", "cleanup"}
        /\ \A v \in Writer : v # w => writer'[v] = writer[v]
        /\ writer'[w].pc = "idle" <=> holder' = None
        /\ holder' \in {None, w}
    <2>1. CASE writer' = [writer EXCEPT ![w] = Idle] /\ holder' = None
      BY <1>2, <2>1 DEF TypeOK, Writing, Idle
    <2>2. CASE Goto(w, "cleanup") /\ UNCHANGED holder
      <3>1. writer' = [writer EXCEPT ![w] = [writer[w] EXCEPT !.pc = "cleanup"]]
        BY <2>2 DEF Goto
      <3>2. writer[w] \in Writing
        BY <1>2 DEF TypeOK
      <3> DEFINE r == [writer[w] EXCEPT !.pc = "cleanup"]
      <3>3. r \in Writing /\ r.pc = "cleanup"
        BY <3>2 DEF Writing
      <3> HIDE DEF r
      <3>4. /\ writer' \in [Writer -> Writing] /\ writer'[w] = r
            /\ \A v \in Writer : v # w => writer'[v] = writer[v]
        BY <1>2, <3>1, <3>3 DEF TypeOK, r
      <3> QED
        BY <1>1, <1>4, <2>2, <3>3, <3>4
    <2> QED
      BY <2>1, <2>2
  <1>6. TypeOK'
    BY <1>2, <1>3, <1>5 DEF TypeOK
  <1>7. LockKept'
    BY <1>1, <1>4, <1>5 DEF LockKept
  <1>8. OpenIsTmp'
    BY <1>1, <1>5 DEF OpenIsTmp
  <1>9. Cleans'
    <2> SUFFICES ASSUME Exclusive, crashes' = 0, tmp' # None
                 PROVE  \E v \in Writer : holder' = v
      BY DEF Cleans
    <2> QED
      BY <1>1
  <1> QED
    BY <1>6, <1>7, <1>8, <1>9 DEF FileInv

(* A process writes its document into its own inode, which is not the      *)
(* published file.                                                         *)
LEMMA FileWrites ==
  ASSUME BoundsAreNumbers, NoneIsNothing, Locked, Exclusive \in BOOLEAN, FileInv, Cleans,
         NEW w \in Writer, write(w)
  PROVE  FileInv' /\ Cleans'
  <1> USE DEF BoundsAreNumbers, NoneIsNothing
  <1>1. /\ writer[w].pc = "open" /\ tmp' = tmp /\ file' = file /\ creator' = creator
        /\ holder' = holder /\ saves' = saves /\ crashes' = crashes
        /\ content' = [content EXCEPT ![writer[w].inode] = writer[w].value]
        /\ writer' = [writer EXCEPT ![w] = [writer[w] EXCEPT !.pc = "written"]]
    BY DEF write, names, Goto
  <1>2. TypeOK /\ LockKept /\ OpenIsTmp /\ NamesApart /\ FileWhole
    BY DEF FileInv
  <1>3. holder = w /\ \A v \in Writer : v # w => writer[v].pc = "idle"
    BY <1>1, OthersIdle
  <1>4. tmp # None /\ tmp \in Inode /\ writer[w].inode = tmp /\ writer[w].value \in Value
    BY <1>1, <1>2 DEF OpenIsTmp, TypeOK
  <1> DEFINE r == [writer[w] EXCEPT !.pc = "written"]
  <1>5. writer[w] \in Writing
    BY <1>2 DEF TypeOK
  <1>6. /\ r \in Writing /\ r.pc = "written" /\ r.inode = writer[w].inode
        /\ r.value = writer[w].value
    BY <1>5 DEF Writing
  <1> HIDE DEF r
  <1>7. /\ writer' \in [Writer -> Writing] /\ writer'[w] = r
        /\ \A v \in Writer : v # w => writer'[v] = writer[v]
    BY <1>1, <1>2, <1>6 DEF TypeOK, r
  <1>8. /\ content' \in [Inode -> Value \cup {Partial, None}] /\ content'[tmp] = writer[w].value
        /\ \A i \in Inode : i # tmp => content'[i] = content[i]
    BY <1>1, <1>2, <1>4 DEF TypeOK
  <1>9. TypeOK'
    BY <1>1, <1>2, <1>7, <1>8 DEF TypeOK
  <1>10. LockKept' /\ Cleans'
    BY <1>1, <1>2, <1>3, <1>6, <1>7 DEF LockKept, Cleans
  <1>11. OpenIsTmp'
    BY <1>1, <1>3, <1>4, <1>6, <1>7, <1>8 DEF OpenIsTmp
  <1>12. NamesApart' /\ FileWhole'
    BY <1>1, <1>2, <1>8 DEF NamesApart, FileWhole, TypeOK
  <1> QED
    BY <1>9, <1>10, <1>11, <1>12 DEF FileInv

(* What is published is what the process wrote.                            *)
LEMMA FileRenames ==
  ASSUME BoundsAreNumbers, NoneIsNothing, Locked, Exclusive \in BOOLEAN, FileInv, Cleans,
         NEW w \in Writer, rename(w)
  PROVE  FileInv' /\ Cleans'
  <1>1. TypeOK /\ OpenIsTmp /\ NamesApart
    BY DEF FileInv
  <1>2. writer[w].pc = "written"
    BY DEF rename
  <1>3. tmp # None /\ writer[w].value \in Value /\ content[tmp] = writer[w].value
    BY <1>1, <1>2 DEF OpenIsTmp
  <1>4. /\ file' = tmp /\ tmp' = None /\ UNCHANGED <<disk, saves>> /\ crashes' = crashes
        /\ content' = content
    BY <1>3 DEF rename, disk
  <1>5. NamesApart' /\ FileWhole'
    BY <1>1, <1>3, <1>4 DEF NamesApart, FileWhole
  <1>6. /\ tmp' \in Inode \cup {None} /\ file' \in Inode \cup {None}
        /\ crashes' \in 0..MaxCrashes
    BY <1>1, <1>4 DEF TypeOK
  <1>7. \/ writer' = [writer EXCEPT ![w] = Idle] /\ holder' = None
        \/ Exclusive /\ Goto(w, "cleanup") /\ UNCHANGED holder
    BY DEF rename, After, Leave
  <1> QED
    BY <1>2, <1>4, <1>5, <1>6, <1>7, FileLeaves

LEMMA FileWriteFails ==
  ASSUME BoundsAreNumbers, NoneIsNothing, Locked, Exclusive \in BOOLEAN, FileInv, Cleans,
         NEW w \in Writer, write_fails(w)
  PROVE  FileInv' /\ Cleans'
  <1>1. TypeOK /\ NamesApart /\ FileWhole
    BY DEF FileInv
  <1>2. /\ writer[w].pc = "open" /\ file' = file /\ tmp' = tmp /\ UNCHANGED <<disk, saves>>
        /\ crashes' = crashes /\ content' = content /\ saves' = saves
    BY DEF write_fails, names, disk
  <1>3. /\ NamesApart' /\ FileWhole' /\ tmp' \in Inode \cup {None}
        /\ file' \in Inode \cup {None} /\ crashes' \in 0..MaxCrashes
    BY <1>1, <1>2 DEF NamesApart, FileWhole, TypeOK
  <1>4. \/ ~Exclusive /\ writer' = [writer EXCEPT ![w] = Idle] /\ holder' = None
        \/ Exclusive /\ Goto(w, "cleanup") /\ UNCHANGED holder
    BY DEF write_fails, After, Leave
  <1> QED
    BY <1>2, <1>3, <1>4, FileLeaves

LEMMA FileCleans ==
  ASSUME BoundsAreNumbers, NoneIsNothing, Locked, Exclusive \in BOOLEAN, FileInv, Cleans,
         NEW w \in Writer, cleanup(w)
  PROVE  FileInv' /\ Cleans'
  <1>1. TypeOK /\ NamesApart /\ FileWhole
    BY DEF FileInv
  <1>2. /\ writer[w].pc = "cleanup" /\ file' = file /\ tmp' = None /\ UNCHANGED <<disk, saves>>
        /\ crashes' = crashes /\ content' = content /\ saves' = saves
        /\ writer' = [writer EXCEPT ![w] = Idle] /\ holder' = None
    BY DEF cleanup, Leave, disk
  <1>3. /\ NamesApart' /\ FileWhole' /\ tmp' \in Inode \cup {None}
        /\ file' \in Inode \cup {None} /\ crashes' \in 0..MaxCrashes
    BY <1>1, <1>2 DEF NamesApart, FileWhole, TypeOK
  <1> QED
    BY <1>2, <1>3, FileLeaves

(* A killed process gives up its lock and leaves what it was writing.      *)
LEMMA FileCrashes ==
  ASSUME BoundsAreNumbers, NoneIsNothing, Locked, Exclusive \in BOOLEAN, FileInv, Cleans,
         NEW w \in Writer, crash(w)
  PROVE  FileInv' /\ Cleans'
  <1>1. TypeOK /\ NamesApart /\ FileWhole
    BY DEF FileInv
  <1>2. /\ writer[w].pc # "idle" /\ file' = file /\ tmp' = tmp /\ UNCHANGED <<disk, saves>>
        /\ crashes < MaxCrashes /\ crashes' = crashes + 1 /\ content' = content
        /\ saves' = saves /\ writer' = [writer EXCEPT ![w] = Idle]
    BY DEF crash, names, disk
  <1>3. holder = w /\ holder' = None
    BY <1>2, OthersIdle DEF crash
  <1>4. /\ NamesApart' /\ FileWhole' /\ tmp' \in Inode \cup {None}
        /\ file' \in Inode \cup {None}
    BY <1>1, <1>2 DEF NamesApart, FileWhole, TypeOK
  <1>5. crashes' \in 0..MaxCrashes /\ crashes' # 0
    BY <1>1, <1>2 DEF TypeOK, BoundsAreNumbers
  <1> QED
    BY <1>2, <1>3, <1>4, <1>5, FileLeaves

LEMMA FileInvariant ==
  ASSUME BoundsAreNumbers, NoneIsNothing, Locked, Exclusive \in BOOLEAN
  PROVE  Spec => [](FileInv /\ Cleans)
  <1>1. Init => FileInv /\ Cleans
    BY FileInit
  <1>2. FileInv /\ Cleans /\ [Next]_vars => FileInv' /\ Cleans'
    <2> SUFFICES ASSUME FileInv, Cleans, [Next]_vars
                 PROVE  FileInv' /\ Cleans'
      OBVIOUS
    <2>1. CASE Next
      BY <2>1, FileOpens, FileWrites, FileRenames, FileWriteFails, FileCleans, FileCrashes
         DEF Next
    <2>2. CASE UNCHANGED vars
      BY <2>2 DEF vars, FileInv, TypeOK, LockKept, OpenIsTmp, NamesApart, FileWhole, Cleans
    <2> QED
      BY <2>1, <2>2
  <1> QED
    BY <1>1, <1>2, PTL DEF Spec

-----------------------------------------------------------------------------
(* Under the lock of its operation a saved file holds a whole document at  *)
(* every moment, through failed writes and kills: save_json of             *)
(* demo_lifecycle_state.py and atomic of demo_traffic.py.                  *)
THEOREM SavedFileIsWhole ==
  ASSUME BoundsAreNumbers, NoneIsNothing, Locked, Exclusive \in BOOLEAN
  PROVE  Spec => []FileWhole
  <1>1. FileInv => FileWhole
    BY DEF FileInv
  <1> QED
    BY <1>1, FileInvariant, PTL

(* As long as no process is killed, save_json leaves no temporary file     *)
(* behind that would refuse the next save, whichever writes fail.          *)
THEOREM SavesCleanUp ==
  ASSUME BoundsAreNumbers, NoneIsNothing, Locked, Exclusive = TRUE
  PROVE  Spec => []NothingLeftBehind
  <1>1. FileInv /\ Cleans => NothingLeftBehind
    BY DEF FileInv, Cleans, NothingLeftBehind, LockKept
  <1>2. Spec => [](FileInv /\ Cleans)
    BY FileInvariant
  <1> QED
    BY <1>1, <1>2, PTL
=============================================================================
