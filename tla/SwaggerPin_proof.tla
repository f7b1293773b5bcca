-------------------------- MODULE SwaggerPin_proof --------------------------
(***************************************************************************)
(* Proofs about SwaggerPin: its types, the exactness of receipts and of    *)
(* returned pins, that it implements PinLedger, and that a run adds at     *)
(* most one version to the store.                                          *)
(***************************************************************************)
EXTENDS SwaggerPin, FiniteSetTheorems, TLAPS

(* The part of the type invariant about the stage of a run.                *)
FormOK ==
  \A u \in Uploader :
    /\ up[u].pc # "idle" => up[u].id # 0 /\ up[u].receipt \in Receipt /\ up[u].text \in Text
    /\ up[u].pc \in PinStage => up[u].pin \in Version

(* What a change of stage leaves of an active run.                         *)
LEMMA GotoFrame ==
  ASSUME TypeOK, NEW u \in Uploader, NEW pc \in Stage, Active(u), Goto(u, pc),
         pc \in PinStage => up[u].pin \in Version
  PROVE  /\ up' \in [Uploader -> Run]
         /\ up'[u] = [up[u] EXCEPT !.pc = pc]
         /\ \A w \in Uploader : w # u => up'[w] = up[w]
         /\ FormOK'
  <1>1. up[u] \in Run /\ up[u].id # 0 /\ up[u].receipt \in Receipt /\ up[u].text \in Text
    BY DEF TypeOK, Active
  <1>2. [up[u] EXCEPT !.pc = pc] \in Run
    BY <1>1 DEF Run
  <1>3. up' = [up EXCEPT ![u] = [up[u] EXCEPT !.pc = pc]]
    BY DEF Goto
  <1> QED
    BY <1>1, <1>2, <1>3 DEF TypeOK, FormOK, Active, Run

LEMMA ChooseFrame ==
  ASSUME TypeOK, NEW u \in Uploader, NEW pc \in Stage, NEW v \in Version,
         Active(u), Choose(u, pc, v)
  PROVE  /\ up' \in [Uploader -> Run]
         /\ up'[u] = [up[u] EXCEPT !.pc = pc, !.pin = v]
         /\ \A w \in Uploader : w # u => up'[w] = up[w]
         /\ FormOK'
  <1>1. up[u] \in Run /\ up[u].id # 0 /\ up[u].receipt \in Receipt /\ up[u].text \in Text
    BY DEF TypeOK, Active
  <1>2. [up[u] EXCEPT !.pc = pc, !.pin = v] \in Run
    BY <1>1 DEF Run
  <1>3. up' = [up EXCEPT ![u] = [up[u] EXCEPT !.pc = pc, !.pin = v]]
    BY DEF Choose
  <1> QED
    BY <1>1, <1>2, <1>3 DEF TypeOK, FormOK, Active, Run

LEMMA SavedType ==
  ASSUME TypeOK, NEW r \in Receipt, receipts[r] # None
  PROVE  receipts[r].version \in Version /\ receipts[r].text \in Text
  BY DEF TypeOK, P!Pin

LEMMA InitTypes == Init => TypeOK
  BY NoneAssumption, BoundsAssumption DEF Init, TypeOK, Idle, Run, Stage, PinStage, Active

LEMMA BeginTypes ==
  ASSUME TypeOK, NEW u \in Uploader, begin(u)
  PROVE  TypeOK'
  <1>1. PICK r \in Receipt, t \in Text, pc \in {"check", "failed"} :
          /\ uploads < MaxUploads /\ uploads' = uploads + 1
          /\ up' = [up EXCEPT ![u] = [pc |-> pc, id |-> uploads + 1, receipt |-> r,
                                      text |-> t, pin |-> None]]
          /\ holder' = holder \/ holder' = [holder EXCEPT ![r] = u]
    BY DEF begin
  <1>2. uploads + 1 \in 0..MaxUploads /\ uploads + 1 \in 1..MaxUploads
    BY <1>1, BoundsAssumption DEF TypeOK
  <1> DEFINE new == [pc |-> pc, id |-> uploads + 1, receipt |-> r, text |-> t, pin |-> None]
  <1>3. /\ new \in Run /\ new.id # 0 /\ new.receipt \in Receipt /\ new.text \in Text
        /\ new.pc \notin PinStage
    <2>2. pc \in Stage
      BY <1>1 DEF Stage
    <2>3. uploads + 1 # 0
      BY DEF TypeOK
    <2> QED
      BY <1>1, <1>2, <2>2, <2>3 DEF Run, PinStage
  <1> HIDE DEF new
  <1>4. up' = [up EXCEPT ![u] = new]
    BY <1>1 DEF new
  <1>5. UNCHANGED <<receipts, tenant>>
    BY DEF begin
  <1>6. up' \in [Uploader -> Run]
    BY <1>3, <1>4 DEF TypeOK
  <1>7. holder' \in [Receipt -> Uploader \cup {None}]
    BY <1>1 DEF TypeOK
  <1>8. FormOK'
    BY <1>3, <1>4 DEF TypeOK, FormOK, Active, PinStage
  <1> QED
    BY <1>1, <1>2, <1>5, <1>6, <1>7, <1>8 DEF TypeOK, FormOK, tenant

LEMMA StepTypes ==
  ASSUME TypeOK, NEW u \in Uploader, Step(u)
  PROVE  TypeOK'
  <1>0. Active(u) /\ up[u] \in Run /\ up[u].id # 0 /\ up[u].receipt \in Receipt /\ up[u].text \in Text
    <2>1. Active(u)
      BY DEF Step, Active, saved_pin, verify_saved, list_before, read_candidate,
         list_after, put, put_answer, verify_new, publish_receipt, return, fail
    <2> QED
      BY <2>1 DEF TypeOK, Active
  <1>1. CASE saved_pin(u)
    <2>1. CASE receipts[up[u].receipt] = None
      BY <1>0, <1>1, <2>1, GotoFrame, SavedType DEF saved_pin, Stage, PinStage, FormOK, TypeOK, tenant
    <2>2. CASE receipts[up[u].receipt] # None
      BY <1>0, <1>1, <2>2, ChooseFrame, SavedType DEF saved_pin, Stage, PinStage, FormOK, TypeOK, tenant
    <2> QED
      BY <2>1, <2>2
  <1>2. CASE verify_saved(u)
    BY <1>0, <1>2, GotoFrame DEF verify_saved, Stage, PinStage, FormOK, TypeOK, tenant
  <1>3. CASE list_before(u)
    <2>1. CASE Goto(u, "put")
      BY <1>0, <1>3, <2>1, GotoFrame DEF list_before, Stage, PinStage, FormOK, TypeOK, tenant
    <2>2. CASE \E v \in Version : Choose(u, "read", v)
      BY <1>0, <1>3, <2>2, ChooseFrame DEF list_before, Stage, PinStage, FormOK, TypeOK, tenant
    <2> QED
      BY <1>3, <2>1, <2>2 DEF list_before
  <1>4. CASE read_candidate(u)
    BY <1>0, <1>4, GotoFrame DEF read_candidate, Stage, PinStage, FormOK, TypeOK, tenant
  <1>5. CASE list_after(u)
    BY <1>0, <1>5, GotoFrame DEF list_after, Stage, PinStage, FormOK, TypeOK, tenant
  <1>6. CASE put(u)
    <2>1. [id |-> up[u].id, text |-> up[u].text] \in Put
      BY <1>0, BoundsAssumption DEF Run, Put
    <2> QED
      BY <1>0, <1>6, <2>1, GotoFrame DEF put, Stage, PinStage, FormOK, TypeOK
  <1>7. CASE put_answer(u)
    <2>1. PICK a \in answers : /\ answers' = answers \ {a}
                               /\ Choose(u, "readback", a.version)
      BY <1>7 DEF put_answer
    <2>2. a.version \in Version
      BY <2>1 DEF TypeOK, Answer
    <2> QED
      BY <1>0, <1>7, <2>1, <2>2, ChooseFrame DEF put_answer, Stage, PinStage, FormOK, TypeOK
  <1>8. CASE verify_new(u)
    BY <1>0, <1>8, GotoFrame DEF verify_new, Stage, PinStage, FormOK, TypeOK, tenant
  <1>9. CASE publish_receipt(u)
    <2>1. up[u].pin \in Version
      BY <1>9 DEF publish_receipt, TypeOK, PinStage
    <2>2. [text |-> up[u].text, version |-> up[u].pin] \in P!Pin
      BY <1>0, <2>1 DEF P!Pin
    <2> QED
      BY <1>0, <1>9, <2>2, GotoFrame DEF publish_receipt, Stage, PinStage, FormOK, TypeOK, tenant
  <1>10. CASE return(u)
    BY <1>0, <1>10, GotoFrame DEF return, Stage, PinStage, FormOK, TypeOK, tenant
  <1>11. CASE fail(u)
    BY <1>0, <1>11, GotoFrame DEF fail, Stage, PinStage, FormOK, TypeOK, tenant
  <1> QED
    BY <1>1, <1>2, <1>3, <1>4, <1>5, <1>6, <1>7, <1>8, <1>9, <1>10, <1>11 DEF Step

LEMMA NextTypes == TypeOK /\ [Next]_vars => TypeOK'
  <1> SUFFICES ASSUME TypeOK, [Next]_vars
               PROVE  TypeOK'
    OBVIOUS
  <1>1. CASE \E u \in Uploader : begin(u) \/ Step(u)
    BY <1>1, BeginTypes, StepTypes
  <1>2. CASE StorePut
    <2>1. PICK q \in flight, v \in Version, named \in Version :
            /\ objects' = [objects EXCEPT ![v] = q.text]
            /\ stored' = stored \cup {<<v, q.text>>}
            /\ flight' = flight \ {q}
            /\ answers' = answers \cup {[id |-> q.id, version |-> named]}
      BY <1>2 DEF StorePut
    <2>2. q.id \in 1..MaxUploads /\ q.text \in Text
      BY <2>1 DEF TypeOK, Put
    <2>3. [id |-> q.id, version |-> named] \in Answer
      BY <2>2 DEF Answer
    <2> QED
      BY <1>2, <2>1, <2>2, <2>3 DEF StorePut, TypeOK, Active
  <1>3. CASE StoreDrop
    BY <1>3 DEF StoreDrop, TypeOK, Active
  <1>4. CASE StoreRemove
    BY <1>4, BoundsAssumption DEF StoreRemove, listing, TypeOK, Active
  <1>5. CASE UNCHANGED vars
    BY <1>5 DEF vars, TypeOK, Active
  <1> QED
    BY <1>1, <1>2, <1>3, <1>4, <1>5 DEF Next

(* Every reachable state has its types, for any number of uploaders,       *)
(* receipts, texts and versions.                                           *)
THEOREM SwaggerTypeCorrect == Spec => []TypeOK
  BY InitTypes, NextTypes, PTL DEF Spec

-----------------------------------------------------------------------------
(* What the runs know. objects is covered by the history; a run that will  *)
(* publish has read its text under its pin; a run that returns without     *)
(* publishing has its pin from the receipt.                                *)
StoreRemembered ==
  \A v \in Version : objects[v] # None => <<v, objects[v]>> \in stored

PinRead ==
  \A u \in Uploader :
    up[u].pc \in {"relist", "publish"} => <<up[u].pin, up[u].text>> \in stored

SavedKept ==
  \A u \in Uploader :
    up[u].pc = "reread" =>
      receipts[up[u].receipt] = [text |-> up[u].text, version |-> up[u].pin]

PinInv ==
  /\ TypeOK /\ StoreRemembered /\ PinRead /\ SavedKept
  /\ ReceiptExact /\ ReturnedPinReceipted

(* Receipts and history only grow.                                         *)
Monotone ==
  /\ stored \subseteq stored'
  /\ \A r \in Receipt : receipts[r] # None => receipts'[r] = receipts[r]

LEMMA NotNone ==
  ASSUME NEW t \in Text, NEW v \in Version
  PROVE  t # None /\ [text |-> t, version |-> v] # None
  BY NoneAssumption

LEMMA BeginPin ==
  ASSUME PinInv, NEW u \in Uploader, begin(u)
  PROVE  /\ Monotone /\ StoreRemembered' /\ PinRead' /\ SavedKept'
         /\ ReceiptExact' /\ ReturnedPinReceipted'
  <1>1. PICK r \in Receipt, t \in Text, pc \in {"check", "failed"} :
          up' = [up EXCEPT ![u] = [pc |-> pc, id |-> uploads + 1, receipt |-> r,
                                   text |-> t, pin |-> None]]
    BY DEF begin
  <1>2. UNCHANGED <<receipts, objects, stored>>
    BY DEF begin, tenant
  <1>3. \A w \in Uploader : up'[w].pc \notin {"check", "failed"} => up'[w] = up[w]
    BY <1>1 DEF PinInv, TypeOK
  <1>4. Monotone /\ StoreRemembered' /\ ReceiptExact'
    BY <1>2 DEF Monotone, PinInv, StoreRemembered, ReceiptExact
  <1> QED
    BY <1>2, <1>3, <1>4 DEF PinInv, PinRead, SavedKept, ReturnedPinReceipted

(* A step that leaves receipts and store alone keeps the invariant when    *)
(* the run that moves has grounds for its new stage.                       *)
LEMMA QuietStep ==
  ASSUME PinInv, NEW u \in Uploader, UNCHANGED <<receipts, objects, stored>>,
         \A w \in Uploader : w # u => up'[w] = up[w],
         up'[u].pc \in {"relist", "publish"} => <<up'[u].pin, up'[u].text>> \in stored,
         up'[u].pc \in {"reread", "return", "done"} =>
           receipts[up'[u].receipt] = [text |-> up'[u].text, version |-> up'[u].pin]
  PROVE  /\ Monotone /\ StoreRemembered' /\ PinRead' /\ SavedKept'
         /\ ReceiptExact' /\ ReturnedPinReceipted'
  BY DEF PinInv, Monotone, StoreRemembered, PinRead, SavedKept, ReceiptExact,
     ReturnedPinReceipted

LEMMA StepPin ==
  ASSUME PinInv, NEW u \in Uploader, Step(u)
  PROVE  /\ Monotone /\ StoreRemembered' /\ PinRead' /\ SavedKept'
         /\ ReceiptExact' /\ ReturnedPinReceipted'
  <1>0. /\ TypeOK /\ Active(u) /\ up[u] \in Run /\ up[u].receipt \in Receipt
        /\ up[u].text \in Text
    <2>1. Active(u)
      BY DEF Step, Active, saved_pin, verify_saved, list_before, read_candidate,
         list_after, put, put_answer, verify_new, publish_receipt, return, fail
    <2> QED
      BY <2>1 DEF PinInv, TypeOK, Active
  <1>g. ASSUME NEW pc \in Stage, Goto(u, pc)
        PROVE  /\ up'[u].pc = pc /\ up'[u].pin = up[u].pin
               /\ up'[u].text = up[u].text /\ up'[u].receipt = up[u].receipt
               /\ \A w \in Uploader : w # u => up'[w] = up[w]
    BY <1>0, <1>g DEF Goto, TypeOK, Run
  <1>c. ASSUME NEW pc \in Stage, NEW v, Choose(u, pc, v)
        PROVE  /\ up'[u].pc = pc /\ up'[u].pin = v
               /\ up'[u].text = up[u].text /\ up'[u].receipt = up[u].receipt
               /\ \A w \in Uploader : w # u => up'[w] = up[w]
    BY <1>0, <1>c DEF Choose, TypeOK, Run
  <1>1. CASE saved_pin(u)
    <2>1. CASE receipts[up[u].receipt] = None
      BY <1>0, <1>1, <2>1, <1>g, QuietStep DEF saved_pin, Stage, tenant
    <2>2. CASE receipts[up[u].receipt] # None
      <3>1. receipts[up[u].receipt] = [text |-> up[u].text,
                                       version |-> receipts[up[u].receipt].version]
        BY <1>0, <1>1, <2>2 DEF saved_pin, TypeOK, P!Pin
      <3>2. /\ Choose(u, "reread", receipts[up[u].receipt].version)
            /\ UNCHANGED <<receipts, objects, stored>>
        BY <1>1, <2>2 DEF saved_pin, tenant
      <3>3. /\ up'[u].pc = "reread"
            /\ up'[u].pin = receipts[up[u].receipt].version
            /\ up'[u].text = up[u].text /\ up'[u].receipt = up[u].receipt
            /\ \A w \in Uploader : w # u => up'[w] = up[w]
        BY <3>2, <1>c DEF Stage
      <3>4. receipts[up'[u].receipt] = [text |-> up'[u].text, version |-> up'[u].pin]
        BY <3>1, <3>3
      <3> QED
        BY <1>0, <3>2, <3>3, <3>4, QuietStep
    <2> QED
      BY <2>1, <2>2
  <1>2. CASE verify_saved(u)
    BY <1>0, <1>2, <1>g, QuietStep DEF verify_saved, Stage, tenant, PinInv, SavedKept
  <1>3. CASE list_before(u)
    <2>1. CASE Goto(u, "put")
      BY <1>3, <2>1, <1>g, QuietStep DEF list_before, Stage, tenant
    <2>2. CASE \E v \in Version : Choose(u, "read", v)
      BY <1>3, <2>2, <1>c, QuietStep DEF list_before, Stage, tenant
    <2> QED
      BY <1>3, <2>1, <2>2 DEF list_before
  <1>4. CASE read_candidate(u)
    <2>1. up[u].pin \in Version
      BY <1>0, <1>4 DEF read_candidate, TypeOK, PinStage
    <2>2. CASE objects[up[u].pin] = up[u].text
      <3>1. <<up[u].pin, up[u].text>> \in stored
        BY <1>0, <2>1, <2>2, NoneAssumption DEF PinInv, StoreRemembered
      <3> QED
        BY <1>4, <2>2, <3>1, <1>g, QuietStep DEF read_candidate, Stage, tenant
    <2>3. CASE objects[up[u].pin] # up[u].text
      BY <1>4, <2>3, <1>g, QuietStep DEF read_candidate, Stage, tenant
    <2> QED
      BY <2>2, <2>3
  <1>5. CASE list_after(u)
    BY <1>5, <1>g, QuietStep DEF list_after, Stage, tenant, PinInv, PinRead
  <1>6. CASE put(u)
    BY <1>6, <1>g, QuietStep DEF put, Stage
  <1>7. CASE put_answer(u)
    BY <1>7, <1>c, QuietStep DEF put_answer, Stage
  <1>8. CASE verify_new(u)
    <2>1. up[u].pin \in Version
      BY <1>0, <1>8 DEF verify_new, TypeOK, PinStage
    <2>2. <<up[u].pin, up[u].text>> \in stored
      BY <1>0, <1>8, <2>1, NoneAssumption DEF verify_new, PinInv, StoreRemembered
    <2> QED
      BY <1>8, <2>2, <1>g, QuietStep DEF verify_new, Stage, tenant
  <1>9. CASE publish_receipt(u)
    <2> DEFINE pinned == [text |-> up[u].text, version |-> up[u].pin]
    <2>1. /\ up[u].pc = "publish" /\ receipts[up[u].receipt] = None
          /\ receipts' = [receipts EXCEPT ![up[u].receipt] = pinned]
          /\ Goto(u, "return") /\ UNCHANGED <<objects, stored>>
      BY <1>9 DEF publish_receipt, tenant
    <2>2. receipts'[up[u].receipt] = pinned
      BY <1>0, <2>1 DEF TypeOK
    <2>3. Monotone
      BY <1>0, <2>1 DEF Monotone, TypeOK
    <2>4. StoreRemembered' /\ PinRead'
      BY <2>1, <1>g DEF PinInv, StoreRemembered, PinRead, Stage
    <2>5. \A w \in Uploader : up[w].pc \in {"reread", "return", "done"} =>
            /\ receipts[up[w].receipt] # None
            /\ receipts'[up[w].receipt] = receipts[up[w].receipt]
      <3> SUFFICES ASSUME NEW w \in Uploader, up[w].pc \in {"reread", "return", "done"}
                   PROVE  /\ receipts[up[w].receipt] # None
                          /\ receipts'[up[w].receipt] = receipts[up[w].receipt]
        OBVIOUS
      <3>1. up[w].receipt \in Receipt /\ up[w].text \in Text /\ up[w].pin \in Version
        BY <1>0 DEF TypeOK, PinStage
      <3>2. receipts[up[w].receipt] = [text |-> up[w].text, version |-> up[w].pin]
        BY DEF PinInv, SavedKept, ReturnedPinReceipted
      <3> QED
        BY <2>3, <3>1, <3>2, NotNone DEF Monotone
    <2>6. \A r \in Receipt : receipts'[r] = receipts[r] \/ receipts'[r] = pinned
      BY <1>0, <2>1 DEF TypeOK
    <2>7. <<up[u].pin, up[u].text>> \in stored
      BY <2>1 DEF PinInv, PinRead
    <2>8. ReceiptExact'
      BY <2>1, <2>6, <2>7 DEF PinInv, ReceiptExact
    <2>9. SavedKept' /\ ReturnedPinReceipted'
      BY <1>0, <2>1, <2>2, <2>5, <1>g DEF PinInv, SavedKept, ReturnedPinReceipted, Stage
    <2> QED
      BY <2>3, <2>4, <2>8, <2>9
  <1>10. CASE return(u)
    BY <1>10, <1>g, QuietStep DEF return, Stage, tenant, PinInv, ReturnedPinReceipted
  <1>11. CASE fail(u)
    BY <1>11, <1>g, QuietStep DEF fail, Stage, tenant
  <1> QED
    BY <1>1, <1>2, <1>3, <1>4, <1>5, <1>6, <1>7, <1>8, <1>9, <1>10, <1>11 DEF Step

LEMMA StorePin ==
  ASSUME PinInv, StorePut \/ StoreDrop \/ StoreRemove
  PROVE  /\ Monotone /\ StoreRemembered' /\ PinRead' /\ SavedKept'
         /\ ReceiptExact' /\ ReturnedPinReceipted'
  <1>1. UNCHANGED <<up, receipts>> /\ stored \subseteq stored'
    BY DEF StorePut, StoreDrop, StoreRemove
  <1>2. StoreRemembered'
    <2>1. CASE StorePut
      <3>1. PICK q \in flight, v \in Version :
              /\ objects' = [objects EXCEPT ![v] = q.text]
              /\ stored' = stored \cup {<<v, q.text>>}
        BY <2>1 DEF StorePut
      <3> QED
        BY <3>1 DEF PinInv, TypeOK, StoreRemembered
    <2>2. CASE StoreDrop
      BY <2>2 DEF StoreDrop, PinInv, StoreRemembered
    <2>3. CASE StoreRemove
      BY <2>3 DEF StoreRemove, PinInv, TypeOK, StoreRemembered
    <2> QED
      BY <2>1, <2>2, <2>3
  <1> QED
    BY <1>1, <1>2 DEF Monotone, PinInv, PinRead, SavedKept, ReceiptExact, ReturnedPinReceipted

LEMMA PinInvInit == Init => PinInv
  BY InitTypes DEF Init, PinInv, StoreRemembered, PinRead, SavedKept, ReceiptExact,
     ReturnedPinReceipted, Idle

LEMMA PinInvNext == PinInv /\ [Next]_vars => PinInv' /\ Monotone
  <1> SUFFICES ASSUME PinInv, [Next]_vars
               PROVE  PinInv' /\ Monotone
    OBVIOUS
  <1>1. TypeOK'
    BY NextTypes DEF PinInv
  <1>2. CASE UNCHANGED vars
    BY <1>1, <1>2 DEF vars, PinInv, Monotone, StoreRemembered, PinRead, SavedKept,
       ReceiptExact, ReturnedPinReceipted
  <1>3. CASE Next
    BY <1>1, <1>3, BeginPin, StepPin, StorePin DEF Next, PinInv
  <1> QED
    BY <1>2, <1>3

(* A receipt pairs a text with a version that held exactly this text, for  *)
(* any number of uploaders and receipts and whatever becomes of requests,  *)
(* answers and stored versions.                                            *)
THEOREM ReceiptsExact == Spec => []ReceiptExact
  <1>1. PinInv => ReceiptExact
    BY DEF PinInv
  <1> QED
    BY <1>1, PinInvInit, PinInvNext, PTL DEF Spec

(* A pin that a run returned is, for ever, the one its receipt holds.      *)
THEOREM ReturnedPinsReceipted == Spec => []ReturnedPinReceipted
  <1>1. PinInv => ReturnedPinReceipted
    BY DEF PinInv
  <1> QED
    BY <1>1, PinInvInit, PinInvNext, PTL DEF Spec

-----------------------------------------------------------------------------
(* Only publish_receipt and StorePut are steps of the ledger; every other  *)
(* step is a stutter of it.                                                *)
LEMMA LedgerStep == PinInv /\ [Next]_vars => [P!Next]_(P!pinVars)
  <1> SUFFICES ASSUME PinInv, [Next]_vars
               PROVE  P!Next \/ UNCHANGED <<receipts, stored>>
    BY DEF P!pinVars
  <1>1. CASE \E u \in Uploader : begin(u)
    BY <1>1 DEF begin, tenant
  <1>2. ASSUME NEW u \in Uploader, Step(u)
        PROVE  P!Next \/ UNCHANGED <<receipts, stored>>
    <2>1. CASE publish_receipt(u)
      <3> DEFINE r == up[u].receipt
                 t == up[u].text
                 v == up[u].pin
      <3>1. r \in Receipt /\ t \in Text /\ v \in Version
        BY <2>1 DEF publish_receipt, PinInv, TypeOK, PinStage
      <3>2. <<v, t>> \in stored
        BY <2>1 DEF publish_receipt, PinInv, PinRead
      <3>3. P!Publish(r, v, t)
        BY <2>1, <3>2 DEF publish_receipt, tenant, P!Publish
      <3> QED
        BY <3>1, <3>3 DEF P!Next
    <2> QED
      BY <1>2, <2>1 DEF Step, saved_pin, verify_saved, list_before, read_candidate,
         list_after, put, put_answer, verify_new, return, fail, tenant
  <1>3. CASE StorePut
    <2>1. PICK q \in flight, v \in Version :
            stored' = stored \cup {<<v, q.text>>} /\ UNCHANGED receipts
      BY <1>3 DEF StorePut
    <2>2. q.text \in Text
      BY <2>1 DEF PinInv, TypeOK, Put
    <2> QED
      BY <2>1, <2>2 DEF P!Next, P!Store
  <1>4. CASE StoreDrop \/ StoreRemove \/ UNCHANGED vars
    BY <1>4 DEF StoreDrop, StoreRemove, vars
  <1> QED
    BY <1>1, <1>2, <1>3, <1>4 DEF Next

(* The uploaders implement the write-once ledger of exact pins.            *)
THEOREM ImplementsLedger == Spec => ImplementsPinLedger
  <1>1. Init => P!Init
    BY DEF Init, P!Init
  <1> QED
    BY <1>1, PinInvInit, PinInvNext, LedgerStep, PTL DEF Spec, ImplementsPinLedger, P!Spec

-----------------------------------------------------------------------------
(* Every run is counted once: before its PUT was sent, while it is in      *)
(* flight, or by the version the store made of it.                         *)
Unsent == {u \in Uploader : up[u].pc \in {"check", "list", "read", "put"}}

CountOK ==
  /\ IsFiniteSet(stored) /\ IsFiniteSet(flight) /\ IsFiniteSet(Unsent)
  /\ Cardinality(stored) + Cardinality(flight) + Cardinality(Unsent) <= uploads

LEMMA Counts ==
  ASSUME CountOK
  PROVE  Cardinality(stored) \in Nat /\ Cardinality(flight) \in Nat /\ Cardinality(Unsent) \in Nat
  BY FS_CardinalityType DEF CountOK

(* No step of a run but its beginning makes it unsent.                     *)
LEMMA StepUnsent ==
  ASSUME TypeOK, NEW u \in Uploader, Step(u)
  PROVE  /\ Unsent' \subseteq Unsent
         /\ put(u) => Unsent' = Unsent \ {u} /\ u \in Unsent
  <1>1. \A pc : Goto(u, pc) =>
          /\ up'[u].pc = pc /\ \A w \in Uploader : w # u => up'[w] = up[w]
    BY DEF Goto, TypeOK, Run
  <1>2. \A pc, v : Choose(u, pc, v) =>
          /\ up'[u].pc = pc /\ \A w \in Uploader : w # u => up'[w] = up[w]
    BY DEF Choose, TypeOK, Run
  <1>3. CASE put(u)
    BY <1>1, <1>3 DEF put, Unsent
  <1>4. CASE ~put(u)
    BY <1>1, <1>2, <1>4
       DEF Step, saved_pin, verify_saved, list_before, read_candidate,
           list_after, put_answer, verify_new, publish_receipt, return, fail, Unsent
  <1> QED
    BY <1>3, <1>4

LEMMA StepCount ==
  ASSUME TypeOK, CountOK, NEW u \in Uploader, Step(u)
  PROVE  CountOK'
  <1>1. stored' = stored /\ uploads' = uploads /\ uploads \in Nat
    BY DEF Step, saved_pin, verify_saved, list_before, read_candidate, list_after, put,
       put_answer, verify_new, publish_receipt, return, fail, tenant, TypeOK
  <1>2. CASE put(u)
    <2>1. PICK q : flight' = flight \cup {q}
      BY <1>2 DEF put
    <2>2. Unsent' = Unsent \ {u} /\ u \in Unsent
      BY <1>2, StepUnsent
    <2>3. IsFiniteSet(flight') /\ Cardinality(flight') \in {Cardinality(flight), Cardinality(flight) + 1}
      BY <2>1, FS_AddElement DEF CountOK
    <2>4. IsFiniteSet(Unsent') /\ Cardinality(Unsent') = Cardinality(Unsent) - 1
      BY <2>2, FS_RemoveElement DEF CountOK
    <2> QED
      BY <1>1, <2>3, <2>4, Counts DEF CountOK
  <1>3. CASE ~put(u)
    <2>1. flight' = flight
      BY <1>3 DEF Step, saved_pin, verify_saved, list_before, read_candidate, list_after,
         put_answer, verify_new, publish_receipt, return, fail, tenant
    <2>2. Unsent' \in SUBSET Unsent
      BY StepUnsent
    <2>3. IsFiniteSet(Unsent') /\ Cardinality(Unsent') <= Cardinality(Unsent)
      BY <2>2, FS_Subset DEF CountOK
    <2>4. Cardinality(Unsent') \in Nat
      BY <2>3, FS_CardinalityType
    <2> QED
      BY <1>1, <2>1, <2>3, <2>4, Counts DEF CountOK
  <1> QED
    BY <1>2, <1>3

LEMMA BeginCount ==
  ASSUME TypeOK, CountOK, NEW u \in Uploader, begin(u)
  PROVE  CountOK'
  <1>1. /\ stored' = stored /\ flight' = flight
        /\ uploads' = uploads + 1 /\ uploads \in Nat
    BY DEF begin, tenant, TypeOK
  <1>2. Unsent' \in SUBSET (Unsent \cup {u})
    <2>1. PICK new : up' = [up EXCEPT ![u] = new]
      BY DEF begin
    <2> QED
      BY <2>1 DEF Unsent, TypeOK
  <1>3. /\ IsFiniteSet(Unsent \cup {u})
        /\ Cardinality(Unsent \cup {u}) \in {Cardinality(Unsent), Cardinality(Unsent) + 1}
    BY FS_AddElement DEF CountOK
  <1>4. IsFiniteSet(Unsent') /\ Cardinality(Unsent') <= Cardinality(Unsent \cup {u})
    BY <1>2, <1>3, FS_Subset
  <1>5. Cardinality(Unsent') \in Nat
    BY <1>4, FS_CardinalityType
  <1> QED
    BY <1>1, <1>3, <1>4, <1>5, Counts DEF CountOK

LEMMA StoreCount ==
  ASSUME TypeOK, CountOK, StorePut \/ StoreDrop \/ StoreRemove
  PROVE  CountOK'
  <1>1. Unsent' = Unsent /\ uploads' = uploads /\ uploads \in Nat
    BY DEF StorePut, StoreDrop, StoreRemove, Unsent, TypeOK
  <1>2. CASE StorePut
    <2>1. PICK q \in flight, v \in Version : stored' = stored \cup {<<v, q.text>>} /\ flight' = flight \ {q}
      BY <1>2 DEF StorePut
    <2>2. IsFiniteSet(stored') /\ Cardinality(stored') \in {Cardinality(stored), Cardinality(stored) + 1}
      BY <2>1, FS_AddElement DEF CountOK
    <2>3. IsFiniteSet(flight') /\ Cardinality(flight') = Cardinality(flight) - 1
      BY <2>1, FS_RemoveElement DEF CountOK
    <2> QED
      BY <1>1, <2>2, <2>3, Counts DEF CountOK
  <1>3. CASE StoreDrop
    <2>1. PICK q \in flight : stored' = stored /\ flight' = flight \ {q}
      BY <1>3 DEF StoreDrop
    <2>2. IsFiniteSet(flight') /\ Cardinality(flight') = Cardinality(flight) - 1
      BY <2>1, FS_RemoveElement DEF CountOK
    <2> QED
      BY <1>1, <2>1, <2>2, Counts DEF CountOK
  <1>4. CASE StoreRemove
    BY <1>1, <1>4 DEF StoreRemove, CountOK
  <1> QED
    BY <1>2, <1>3, <1>4

(* The store never holds more versions than upload() was run, whatever     *)
(* becomes of requests and answers, for any number of uploaders, texts and *)
(* version names (_new_pin sends one PUT, Client.request repeats none).    *)
THEOREM OneVersionForEachRun == Spec => []OneVersionPerRun
  <1>1. Init => CountOK
    <2> SUFFICES ASSUME Init PROVE CountOK
      OBVIOUS
    <2>1. stored = {} /\ flight = {} /\ Unsent = {} /\ uploads = 0
      BY DEF Init, Unsent, Idle
    <2> QED
      BY <2>1, FS_EmptySet DEF CountOK
  <1>2. TypeOK /\ CountOK /\ [Next]_vars => CountOK'
    <2>1. CASE UNCHANGED vars
      BY <2>1 DEF vars, CountOK, Unsent
    <2> QED
      BY <2>1, BeginCount, StepCount, StoreCount DEF Next
  <1>3. TypeOK /\ CountOK => OneVersionPerRun
    <2> SUFFICES ASSUME TypeOK, CountOK PROVE OneVersionPerRun
      OBVIOUS
    <2>1. uploads \in Nat
      BY DEF TypeOK
    <2> QED
      BY <2>1, Counts DEF CountOK, OneVersionPerRun
  <1> QED
    BY <1>1, <1>2, <1>3, SwaggerTypeCorrect, PTL DEF Spec
=============================================================================
