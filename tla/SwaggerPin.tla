----------------------------- MODULE SwaggerPin -----------------------------
(***************************************************************************)
(* scripts/swagger_upload.py: upload() pins the schema document to one     *)
(* exact version of one object of the tenant's object store and publishes  *)
(* the pin as a receipt file. Uploaders run on any number of hosts; those  *)
(* that share a receipt path also share its flock. The tenant processes a  *)
(* PUT at any time after it was sent, also after the client has given up,  *)
(* or never; its answer may be lost. A GET is one atomic read: the single  *)
(* retry after 429 or 503 is the same read, later.                         *)
(***************************************************************************)
EXTENDS Naturals, FiniteSets

CONSTANTS
  Uploader,    \* processes that may run upload(), one run after another
  Receipt,     \* receipt paths
  Text,        \* schema documents
  Version,     \* version names the store can assign
  None,
  MaxUploads,  \* bound: runs of upload()
  MaxRemovals  \* bound: versions removed from the store by somebody else

ASSUME BoundsAssumption == MaxUploads \in Nat /\ MaxRemovals \in Nat
ASSUME NoneAssumption ==
  None \notin Uploader \cup Text \cup Version /\ None \notin [text : Text, version : Version]

VARIABLES
  up,        \* the local state of each uploader's last run
  holder,    \* who holds the flock of each receipt's .lock file
  receipts,  \* the receipt files
  objects,   \* the tenant's store: the text each version holds now
  stored,    \* history: every pair <<version, text>> the store has ever held
  flight,    \* PUT requests sent and not processed
  answers,   \* PUT answers not read
  uploads,   \* runs begun
  removals   \* versions removed from outside

vars == <<up, holder, receipts, objects, stored, flight, answers, uploads, removals>>

tenant == <<objects, stored, flight, answers, removals>>

P == INSTANCE PinLedger

Stage == {"idle", "check", "reread", "list", "read", "relist", "put", "answer",
          "readback", "publish", "return", "done", "failed"}

PinStage == {"reread", "read", "relist", "readback", "publish", "return", "done"}

Run == [pc : Stage, id : 0..MaxUploads, receipt : Receipt \cup {None},
        text : Text \cup {None}, pin : Version \cup {None}]

Put == [id : 1..MaxUploads, text : Text]
Answer == [id : 1..MaxUploads, version : Version]

Idle == [pc |-> "idle", id |-> 0, receipt |-> None, text |-> None, pin |-> None]

Active(u) == up[u].pc \notin {"idle", "done", "failed"}

Init ==
  /\ up = [u \in Uploader |-> Idle]
  /\ holder = [r \in Receipt |-> None]
  /\ receipts = [r \in Receipt |-> None]
  /\ objects = [v \in Version |-> None]
  /\ stored = {}
  /\ flight = {} /\ answers = {}
  /\ uploads = 0 /\ removals = 0

-----------------------------------------------------------------------------
Goto(u, pc) == up' = [up EXCEPT ![u].pc = pc]
Choose(u, pc, v) == up' = [up EXCEPT ![u].pc = pc, ![u].pin = v]

(* The set listing() reads: the versions the object has now.               *)
listing == {v \in Version : objects[v] # None}

(* upload: the flock is taken without waiting.                             *)
begin(u) ==
  \E r \in Receipt, t \in Text :
    /\ ~Active(u) /\ uploads < MaxUploads
    /\ uploads' = uploads + 1
    /\ LET new(pc) == [pc |-> pc, id |-> uploads + 1, receipt |-> r, text |-> t, pin |-> None]
       IN \/ /\ holder[r] = None
             /\ holder' = [holder EXCEPT ![r] = u]
             /\ up' = [up EXCEPT ![u] = new("check")]
          \/ /\ holder[r] # None
             /\ up' = [up EXCEPT ![u] = new("failed")]
             /\ UNCHANGED holder
    /\ UNCHANGED <<receipts, tenant>>

(* _saved_pin: a receipt of another text is refused (fail).                *)
saved_pin(u) ==
  LET saved == receipts[up[u].receipt] IN
    /\ up[u].pc = "check"
    /\ \/ saved = None /\ Goto(u, "list")
       \/ saved # None /\ saved.text = up[u].text /\ Choose(u, "reread", saved.version)
    /\ UNCHANGED <<holder, receipts, tenant, uploads>>

(* The pin of a receipt is verified again and returned; no receipt is      *)
(* written and nothing is uploaded in its place.                           *)
verify_saved(u) ==
  /\ up[u].pc = "reread"
  /\ objects[up[u].pin] = up[u].text
  /\ Goto(u, "return")
  /\ UNCHANGED <<holder, receipts, tenant, uploads>>

(* _existing_pin: first listing. Several versions are refused (fail).      *)
list_before(u) ==
  /\ up[u].pc = "list"
  /\ \/ listing = {} /\ Goto(u, "put")
     \/ \E v \in Version : listing = {v} /\ Choose(u, "read", v)
  /\ UNCHANGED <<holder, receipts, tenant, uploads>>

(* _existing_pin: ContentMismatchError leads to an upload of the text; a   *)
(* version that is gone is an error (fail).                                *)
read_candidate(u) ==
  /\ up[u].pc = "read"
  /\ \/ objects[up[u].pin] = up[u].text /\ Goto(u, "relist")
     \/ objects[up[u].pin] \notin {up[u].text, None} /\ Goto(u, "put")
  /\ UNCHANGED <<holder, receipts, tenant, uploads>>

(* Mutant: only a version that was uploaded gets a receipt.                *)
list_after_unpublished(u) ==
  /\ up[u].pc = "relist"
  /\ listing = {up[u].pin}
  /\ Goto(u, "return")
  /\ UNCHANGED <<holder, receipts, tenant, uploads>>

list_after(u) ==
  /\ up[u].pc = "relist"
  /\ listing = {up[u].pin}
  /\ Goto(u, "publish")
  /\ UNCHANGED <<holder, receipts, tenant, uploads>>

(* Mutant: a PUT without an answer is sent again.                          *)
put_retried(u) ==
  /\ up[u].pc \in {"put", "answer"}
  /\ flight' = flight \cup {[id |-> up[u].id, text |-> up[u].text]}
  /\ Goto(u, "answer")
  /\ UNCHANGED <<holder, receipts, objects, stored, answers, uploads, removals>>

(* _new_pin: the PUT is sent once; request() never repeats it.             *)
put(u) ==
  /\ up[u].pc = "put"
  /\ flight' = flight \cup {[id |-> up[u].id, text |-> up[u].text]}
  /\ Goto(u, "answer")
  /\ UNCHANGED <<holder, receipts, objects, stored, answers, uploads, removals>>

put_answer(u) ==
  \E a \in answers :
    /\ up[u].pc = "answer" /\ a.id = up[u].id
    /\ answers' = answers \ {a}
    /\ Choose(u, "readback", a.version)
    /\ UNCHANGED <<holder, receipts, objects, stored, flight, uploads, removals>>

(* Mutant: the version the answer names is taken without reading it.       *)
verify_new_trusting(u) ==
  /\ up[u].pc = "readback"
  /\ Goto(u, "publish")
  /\ UNCHANGED <<holder, receipts, tenant, uploads>>

(* _new_pin: verify of the version the answer named.                       *)
verify_new(u) ==
  /\ up[u].pc = "readback"
  /\ objects[up[u].pin] = up[u].text
  /\ Goto(u, "publish")
  /\ UNCHANGED <<holder, receipts, tenant, uploads>>

(* _publish_receipt: os.link fails when the receipt exists.                *)
publish_receipt(u) ==
  /\ up[u].pc = "publish"
  /\ receipts[up[u].receipt] = None
  /\ receipts' = [receipts EXCEPT ![up[u].receipt] =
                    [text |-> up[u].text, version |-> up[u].pin]]
  /\ Goto(u, "return")
  /\ UNCHANGED <<holder, tenant, uploads>>

(* Mutant: the run ends in a stage of no meaning.                          *)
return_closed(u) ==
  /\ up[u].pc = "return"
  /\ holder' = [holder EXCEPT ![up[u].receipt] = None]
  /\ Goto(u, "closed")
  /\ UNCHANGED <<receipts, tenant, uploads>>

(* The path is returned and the lock file closed.                          *)
return(u) ==
  /\ up[u].pc = "return"
  /\ holder' = [holder EXCEPT ![up[u].receipt] = None]
  /\ Goto(u, "done")
  /\ UNCHANGED <<receipts, tenant, uploads>>

(* Mutant: the wait for an answer has no deadline.                         *)
fail_answered(u) ==
  /\ Active(u) /\ up[u].pc # "answer"
  /\ holder' = [holder EXCEPT ![up[u].receipt] = None]
  /\ Goto(u, "failed")
  /\ UNCHANGED <<receipts, tenant, uploads>>

(* Mutant: a failed run removes the receipt.                               *)
fail_unpublishing(u) ==
  /\ Active(u)
  /\ holder' = [holder EXCEPT ![up[u].receipt] = None]
  /\ receipts' = [receipts EXCEPT ![up[u].receipt] = None]
  /\ Goto(u, "failed")
  /\ UNCHANGED <<tenant, uploads>>

(* Any error, the end of the shared deadline, or death of the process: the *)
(* lock goes with the file descriptor. A receipt that was published stays. *)
fail(u) ==
  /\ Active(u)
  /\ holder' = [holder EXCEPT ![up[u].receipt] = None]
  /\ Goto(u, "failed")
  /\ UNCHANGED <<receipts, tenant, uploads>>

Step(u) ==
  \/ saved_pin(u) \/ verify_saved(u) \/ list_before(u) \/ read_candidate(u)
  \/ list_after(u) \/ put(u) \/ put_answer(u) \/ verify_new(u)
  \/ publish_receipt(u) \/ return(u) \/ fail(u)

-----------------------------------------------------------------------------
(* The object store. A text it holds already is not stored again           *)
(* (STORED_OBJECT_STATUS_ALREADY_EXISTS) or is stored once more; a new     *)
(* version takes a name that is free now, perhaps one used before. The     *)
(* answer may name any version the object has: the client trusts none.     *)
StorePut ==
  \E q \in flight, v, named \in Version :
    /\ objects[v] \in {None, q.text}
    /\ objects' = [objects EXCEPT ![v] = q.text]
    /\ objects'[named] # None
    /\ stored' = stored \cup {<<v, q.text>>}
    /\ flight' = flight \ {q}
    /\ answers' = answers \cup {[id |-> q.id, version |-> named]}
    /\ UNCHANGED <<up, holder, receipts, uploads, removals>>

StoreDrop ==
  \E q \in flight :
    /\ flight' = flight \ {q}
    /\ UNCHANGED <<up, holder, receipts, objects, stored, answers, uploads, removals>>

(* A version is removed by somebody else.                                  *)
StoreRemove ==
  \E v \in listing :
    /\ removals < MaxRemovals
    /\ objects' = [objects EXCEPT ![v] = None]
    /\ removals' = removals + 1
    /\ UNCHANGED <<up, holder, receipts, stored, flight, answers, uploads>>

Next ==
  \/ \E u \in Uploader : begin(u) \/ Step(u)
  \/ StorePut \/ StoreDrop \/ StoreRemove

Spec == Init /\ [][Next]_vars

(* Client.remaining() bounds every request and every read by one deadline, *)
(* so a run that has begun goes on or fails.                               *)
FairSpec == Spec /\ \A u \in Uploader : WF_vars(Step(u))

-----------------------------------------------------------------------------
TypeOK ==
  /\ up \in [Uploader -> Run]
  /\ holder \in [Receipt -> Uploader \cup {None}]
  /\ receipts \in [Receipt -> P!Pin \cup {None}]
  /\ objects \in [Version -> Text \cup {None}]
  /\ stored \in SUBSET (Version \X Text)
  /\ flight \in SUBSET Put /\ answers \in SUBSET Answer
  /\ uploads \in 0..MaxUploads /\ removals \in 0..MaxRemovals
  /\ \A u \in Uploader :
       /\ up[u].pc # "idle" => up[u].id # 0 /\ up[u].receipt \in Receipt /\ up[u].text \in Text
       /\ up[u].pc \in PinStage => up[u].pin \in Version

(* A receipt pairs a text with a version that held exactly this text,      *)
(* although answers come late or to nobody, uploaders of other receipts    *)
(* and texts race, and versions are removed and their names used again     *)
(* (verify before _publish_receipt).                                       *)
ReceiptExact ==
  \A r \in Receipt :
    receipts[r] # None => <<receipts[r].version, receipts[r].text>> \in stored

(* A path that upload() printed is the one its receipt holds, for ever:    *)
(* whoever reads the receipt later deploys what the caller deployed        *)
(* (upload: a private receipt is published before the pin is returned).    *)
ReturnedPinReceipted ==
  \A u \in Uploader :
    up[u].pc \in {"return", "done"} =>
      receipts[up[u].receipt] = [text |-> up[u].text, version |-> up[u].pin]

(* One run adds at most one version to the store, however its PUT, the     *)
(* answer and the retries of the reads go (Client.request retries only     *)
(* GET).                                                                   *)
OneVersionPerRun == Cardinality(stored) <= uploads

(* The uploader implements the write-once ledger of exact pins.            *)
ImplementsPinLedger == P!Spec

(* The flock of a receipt is always freed again: a lost answer or a dead   *)
(* tenant does not lock a receipt for ever (shared deadline, finally).     *)
ReceiptLockFreed == \A r \in Receipt : holder[r] # None ~> holder[r] = None
=============================================================================
