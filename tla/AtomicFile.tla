----------------------------- MODULE AtomicFile -----------------------------
(***************************************************************************)
(* How the lifecycle and the traffic runner replace a JSON file: both      *)
(* write a temporary file of one fixed name and rename it. save_json       *)
(* (demo_lifecycle_state.py) creates it exclusively and removes it on the  *)
(* way out; atomic (demo_traffic.py) opens it whether it is there or not.  *)
(* Names point to inodes, so a rename moves an inode that somebody else    *)
(* may still be writing. Locked: the writers hold the lock of their        *)
(* operation (the lifecycle's, or run.lock); `start` writes without one.   *)
(***************************************************************************)
EXTENDS Naturals

CONSTANTS
  Writer,      \* processes that save the same path
  Value,       \* documents
  None,
  Exclusive,   \* TRUE: save_json; FALSE: atomic
  Locked,
  MaxSaves,    \* bound: saves
  MaxCrashes   \* bound: processes killed in a save

BoundsAreNumbers == MaxSaves \in Nat /\ MaxCrashes \in Nat
NoneIsNothing == None \notin Value \cup (1..MaxSaves) \cup Writer

Partial == "partial"
Inode == 1..MaxSaves

VARIABLES
  tmp, file,   \* the inodes the two names point to
  content,     \* what each inode holds
  creator,     \* who created each inode
  writer,      \* the local state of each process
  holder,      \* who holds the lock of the operation
  saves, crashes

vars == <<tmp, file, content, creator, writer, holder, saves, crashes>>
names == <<tmp, file>>
disk == <<content, creator>>

Writing == [pc : {"idle", "open", "written", "cleanup"}, inode : Inode \cup {None},
            value : Value \cup {None}]
Idle == [pc |-> "idle", inode |-> None, value |-> None]

Init ==
  /\ tmp = None /\ file = None
  /\ content = [i \in Inode |-> None] /\ creator = [i \in Inode |-> None]
  /\ writer = [w \in Writer |-> Idle] /\ holder = None
  /\ saves = 0 /\ crashes = 0

Goto(w, pc) == writer' = [writer EXCEPT ![w].pc = pc]
Leave(w) == writer' = [writer EXCEPT ![w] = Idle] /\ holder' = None

(* The temporary file is created, or the one that is there is emptied.     *)
Opens(w, i) ==
  \E v \in Value :
    /\ content' = [content EXCEPT ![i] = Partial]
    /\ writer' = [writer EXCEPT ![w] = [pc |-> "open", inode |-> i, value |-> v]]
    /\ holder' = IF Locked THEN w ELSE None

Begins(w) ==
  /\ writer[w].pc = "idle" /\ saves < MaxSaves
  /\ Locked => holder = None
  /\ saves' = saves + 1

Creates(w) ==
  /\ tmp = None /\ tmp' = saves + 1
  /\ creator' = [creator EXCEPT ![saves + 1] = w]
  /\ Opens(w, saves + 1)

(* Mutant: the file itself is opened for writing.                          *)
open_in_place(w) ==
  /\ Begins(w)
  /\ \/ file = None /\ Creates(w)
     \/ file # None /\ Opens(w, file) /\ UNCHANGED <<tmp, creator>>
  /\ UNCHANGED <<file, crashes>>

(* os.open, or Path.write_text: FileExistsError ends the save before try.  *)
open(w) ==
  /\ Begins(w)
  /\ \/ Creates(w)
     \/ /\ tmp # None
        /\ IF Exclusive THEN UNCHANGED <<content, writer, holder>> ELSE Opens(w, tmp)
        /\ UNCHANGED <<tmp, creator>>
  /\ UNCHANGED <<file, crashes>>

(* json.dump, flush and fsync; the writer closes its own inode.            *)
write(w) ==
  /\ writer[w].pc = "open"
  /\ content' = [content EXCEPT ![writer[w].inode] = writer[w].value]
  /\ Goto(w, "written")
  /\ UNCHANGED <<names, creator, holder, saves, crashes>>

After(w) == IF Exclusive THEN Goto(w, "cleanup") /\ UNCHANGED holder ELSE Leave(w)

(* temporary.replace(path); without a temporary file it raises.            *)
rename(w) ==
  /\ writer[w].pc = "written"
  /\ IF tmp # None THEN file' = tmp /\ tmp' = None ELSE UNCHANGED names
  /\ After(w)
  /\ UNCHANGED <<disk, saves, crashes>>

(* A document that cannot be written, or a full disk.                      *)
write_fails(w) ==
  /\ writer[w].pc = "open"
  /\ After(w)
  /\ UNCHANGED <<names, disk, saves, crashes>>

(* finally: whatever bears the temporary name is removed.                  *)
cleanup(w) ==
  /\ writer[w].pc = "cleanup"
  /\ tmp' = None
  /\ Leave(w)
  /\ UNCHANGED <<file, disk, saves, crashes>>

crash(w) ==
  /\ writer[w].pc # "idle" /\ crashes < MaxCrashes
  /\ crashes' = crashes + 1
  /\ writer' = [writer EXCEPT ![w] = Idle]
  /\ holder' = IF holder = w THEN None ELSE holder
  /\ UNCHANGED <<names, disk, saves>>

Next ==
  \E w \in Writer :
    open(w) \/ write(w) \/ rename(w) \/ write_fails(w) \/ cleanup(w) \/ crash(w)

Spec == Init /\ [][Next]_vars

-----------------------------------------------------------------------------
TypeOK ==
  /\ tmp \in Inode \cup {None} /\ file \in Inode \cup {None}
  /\ content \in [Inode -> Value \cup {Partial, None}]
  /\ creator \in [Inode -> Writer \cup {None}]
  /\ writer \in [Writer -> Writing] /\ holder \in Writer \cup {None}
  /\ saves \in 0..MaxSaves /\ crashes \in 0..MaxCrashes

(* The published file holds a whole document at every moment, through      *)
(* failures, kills and racing writers ("Publish local JSON without         *)
(* exposing a partially written receipt", "Atomically save private JSON"). *)
FileWhole == file # None => content[file] \in Value

(* Where no process was killed, no temporary file outlives the saves, so   *)
(* that the next save is not refused.                                      *)
NothingLeftBehind ==
  (crashes = 0 /\ \A w \in Writer : writer[w].pc = "idle") => tmp = None
=============================================================================
