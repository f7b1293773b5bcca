--------------------------- MODULE TelemetryPages ---------------------------
(***************************************************************************)
(* Client.pages and _split_pages of scripts/demo_verify_client.py: a       *)
(* telemetry window is read page by page through a scroll; a window of too *)
(* many pages is split in halves, which are read one after the other. The  *)
(* recursion of the code is a stack of windows here. Records are indexed   *)
(* late, at any time stamp, while the read goes on; a scroll shows either  *)
(* the index of its first page or the index as it is now, newest first, and*)
(* may show a page again that it has shown.                                *)
(***************************************************************************)
EXTENDS Integers, Sequences, FiniteSets

CONSTANTS
  Record,      \* the records there can be
  TimeOf,      \* their time stamps, in seconds
  Newer,       \* the order of the listing: <<r, s>> when r comes first
  MaxTime,     \* bound: the latest time stamp
  MinWindow,   \* MIN_TELEMETRY_WINDOW
  InitialWindow, \* INITIAL_TELEMETRY_WINDOW
  PageLimit,   \* PAGE_LIMIT
  MaxPages,    \* MAX_PAGES
  MaxInserts,  \* bound: records indexed during the read
  None

ASSUME NumbersAssumption ==
  {MaxTime, MinWindow, InitialWindow, PageLimit, MaxPages, MaxInserts} \subseteq Nat \ {0}
ASSUME TimeAssumption == TimeOf \in [Record -> 0..MaxTime]
ASSUME OrderAssumption ==
  /\ Newer \subseteq Record \X Record
  /\ \A r \in Record : <<r, r>> \notin Newer
  /\ \A r, s \in Record : r = s \/ <<r, s>> \in Newer \/ <<s, r>> \in Newer
  /\ \A r, s, t \in Record : <<r, s>> \in Newer /\ <<s, t>> \in Newer => <<r, t>> \in Newer
ASSUME RecordAssumption ==
  /\ IsFiniteSet(Record)
  /\ \A S \in SUBSET Record : S # None
  /\ None \notin Nat

Window == {w \in (0..MaxTime) \X (0..MaxTime) : w[1] <= w[2]}

VARIABLES
  index,     \* the records of the telemetry store
  wanted,    \* ghost: what the window held when the read began
  result,    \* what pages() returned
  pc,        \* the client
  stack,     \* windows to read
  scroll,    \* the window being read and the listing of its first page
  records, total, seen, pages,  \* the local variables of pages()
  gathered,  \* the records of the windows read so far
  repeated,  \* ghost: a page shown before made the count of a window
  inserts

vars == <<index, wanted, result, pc, stack, scroll, records, total, seen, pages,
          gathered, repeated, inserts>>
local == <<records, total, seen, pages>>
taken == <<gathered, repeated>>

Init ==
  /\ index \in SUBSET Record
  /\ wanted = None /\ result = None /\ pc = "idle"
  /\ stack = <<>> /\ scroll = None
  /\ records = <<>> /\ total = None /\ seen = {} /\ pages = 0
  /\ gathered = {} /\ repeated = FALSE /\ inserts = 0

-----------------------------------------------------------------------------
(* The payload: start_time and end_time, rounded outwards to seconds.      *)
Query(w) ==
  {r \in Record : /\ (IF w[1] < w[2] - MinWindow THEN w[1] ELSE w[2] - MinWindow) <= TimeOf[r]
                  /\ TimeOf[r] <= w[2] + 1}

(* The records of a set, newest first.                                     *)
Listing(S) ==
  [i \in 1..Cardinality(S) |->
     CHOOSE r \in S : Cardinality({s \in S : <<s, r>> \in Newer}) = i - 1]

(* The read of one window by the verifier begins.                          *)
ask ==
  /\ pc = "idle" /\ wanted = None
  /\ \E w \in Window :
       /\ wanted' = {r \in index : w[1] <= TimeOf[r] /\ TimeOf[r] <= w[2]}
       /\ stack' = <<w>>
  /\ pc' = "open"
  /\ UNCHANGED <<index, result, scroll, local, taken, inserts>>

(* Mutant: the halves do not meet.                                         *)
Halves_apart(w) ==
  LET mid == (w[1] + w[2]) \div 2 IN <<<<w[1], mid - 2>>, <<mid + 2, w[2]>>>>

Halves(w) == LET mid == (w[1] + w[2]) \div 2 IN <<<<w[1], mid>>, <<mid, w[2]>>>>

(* An ordinary window that is too long is split without a request.         *)
Long(w) == w[2] - w[1] > InitialWindow

(* The first request of a window; without one left the union is returned.  *)
open ==
  /\ pc = "open"
  /\ IF stack = <<>>
     THEN /\ result' = gathered
          /\ pc' = "idle"
          /\ UNCHANGED <<stack, scroll, local>>
     ELSE IF Long(Head(stack))
     THEN /\ stack' = Halves(Head(stack)) \o Tail(stack)
          /\ UNCHANGED <<result, pc, scroll, local>>
     ELSE /\ \E kept \in {None, Listing(index \cap Query(Head(stack)))} :
               scroll' = [window |-> Head(stack), kept |-> kept]
          /\ stack' = Tail(stack)
          /\ records' = <<>> /\ total' = None /\ seen' = {} /\ pages' = 0
          /\ pc' = "page"
          /\ UNCHANGED result
  /\ UNCHANGED <<index, wanted, taken, inserts>>

(* The listing the scroll shows now, and a page of it.                     *)
Shown == IF scroll.kept = None THEN Listing(index \cap Query(scroll.window)) ELSE scroll.kept

Min2(a, b) == IF a < b THEN a ELSE b

Following ==
  {SubSeq(Shown, Len(records) + 1, Len(records) + n) :
     n \in 0..Min2(PageLimit, Len(Shown) - Len(records))}

(* A page continues the listing after the records so far, or is one that   *)
(* was shown before.                                                       *)
Batches == Following \cup seen

(* Another page is asked for.                                              *)
More(batch, found) ==
  /\ pages + 1 < MaxPages
  /\ records' = found /\ total' = Len(Shown)
  /\ seen' = seen \cup {batch} /\ pages' = pages + 1
  /\ UNCHANGED <<pc, stack, taken>>

(* As many records as total_hits promised: this window is done, also with  *)
(* a page that was seen before, for the count is looked at first.          *)
Whole(batch, found) ==
  /\ gathered' = gathered \cup {found[i] : i \in DOMAIN found}
  /\ repeated' = (repeated \/ batch \in seen)
  /\ pc' = "open"
  /\ UNCHANGED <<stack, local>>

(* Mutant: a window of any size is split.                                  *)
Split_unbounded ==
  /\ pages + 1 = MaxPages
  /\ stack' = Halves(scroll.window) \o stack
  /\ pc' = "open"
  /\ UNCHANGED <<taken, local>>

(* The bound of pages is reached: the two halves are read instead.         *)
Split ==
  /\ pages + 1 = MaxPages
  /\ scroll.window[2] - scroll.window[1] > MinWindow
  /\ stack' = Halves(scroll.window) \o stack
  /\ pc' = "open"
  /\ UNCHANGED <<taken, local>>

(* One page: the same total on every page, progress, and no page too many. *)
(* Every other answer is a failure (fail).                                 *)
page ==
  /\ pc = "page"
  /\ \E batch \in Batches :
    LET found == records \o batch
    IN /\ total \in {None, Len(Shown)} /\ Len(found) <= Len(Shown)
       /\ \/ Len(found) = Len(Shown) /\ Whole(batch, found)
          \/ /\ Len(found) < Len(Shown)
             /\ batch # <<>> /\ batch \notin seen
             /\ More(batch, found) \/ Split
       /\ UNCHANGED <<index, wanted, result, scroll, inserts>>

(* Mutant: a read that fails returns what it has.                          *)
fail_partial ==
  /\ pc \in {"open", "page"}
  /\ pc' = "idle" /\ result' = gathered
  /\ UNCHANGED <<index, wanted, stack, scroll, local, taken, inserts>>

(* EvidenceError: transport, a malformed or incomplete page, the deadline. *)
fail ==
  /\ pc \in {"open", "page"}
  /\ pc' = "failed"
  /\ UNCHANGED <<index, wanted, result, stack, scroll, local, taken, inserts>>

client == open \/ page \/ fail

(* A record is indexed while the read goes on.                             *)
Insert ==
  /\ pc \in {"open", "page"} /\ inserts < MaxInserts
  /\ \E r \in Record \ index : index' = index \cup {r}
  /\ inserts' = inserts + 1
  /\ UNCHANGED <<wanted, result, pc, stack, scroll, local, taken>>

Next == ask \/ client \/ Insert

Spec == Init /\ [][Next]_vars

(* api() answers or fails within remaining().                              *)
FairSpec == Spec /\ WF_vars(client)

-----------------------------------------------------------------------------
TypeOK ==
  /\ index \subseteq Record
  /\ wanted \in (SUBSET Record) \cup {None} /\ result \in (SUBSET Record) \cup {None}
  /\ pc \in {"idle", "open", "page", "failed"}
  /\ \A i \in DOMAIN stack : stack[i] \in Window
  /\ scroll # None => scroll.window \in Window
  /\ \A i \in DOMAIN records : records[i] \in Record
  /\ total \in Nat \cup {None} /\ pages \in 0..(MaxPages - 1)
  /\ gathered \subseteq Record /\ repeated \in BOOLEAN /\ inserts \in 0..MaxInserts

(* The windows that were read and those on the stack cover what is wanted: *)
(* splitting loses nothing between the halves, nor does a window that is   *)
(* done, unless a page that was shown before made its count.               *)
StackCovers ==
  (wanted # None /\ ~repeated /\ pc \in {"open", "page"}) =>
    \A r \in wanted :
      \/ r \in gathered
      \/ pc = "page" /\ r \in Query(scroll.window)
      \/ \E i \in DOMAIN stack : r \in Query(stack[i])

(* The invariant the refinement below rests on.                            *)
Inv == TypeOK /\ StackCovers

(* pages() implements a complete read of a growing index: no page that     *)
(* shifts or is short makes a record disappear unnoticed, nor does a page  *)
(* that repeats, unless it is the one that makes the count of total_hits:  *)
(* the code returns before it looks for a repetition (CompleteRead).       *)
Read == INSTANCE CompleteRead WITH
  Record <- Record, None <- None, index <- index, wanted <- wanted, result <- result,
  repeated <- repeated

ImplementsCompleteRead == Read!Spec

(* A read ends, however windows are split.                                 *)
ReadEnds == pc = "open" ~> pc \in {"idle", "failed"}
=============================================================================
