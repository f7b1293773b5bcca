--------------------------- MODULE GitHubApi_proof ---------------------------
(* Proofs about GitHubApi: its types and the budgets of sleep and of POSTs,   *)
(* the runs of a SHA, and what a dispatch reports.                            *)
EXTENDS GitHubApi, SequenceTheorems, FiniteSetTheorems, TLAPS

Purpose == {"none", "get", "receipt", "post", "recover"}
Frame == [purpose : Purpose, page : 0..MaxPages, attempt : Nat, waited : Nat]
Run == [status : {"active", "success", "failure"}, listed : BOOLEAN]
Failure == [status : Nat, code : STRING, says : STRING,
            retryAfter : Int, remaining : Int, reset : Int]
Result == {"none", "read", "existing", "recovered", "dispatched",
           "deferred", "failed", "cancelled"}

(* The types, of a request, of the command, and of GitHub.                    *)
FrameOK ==
  /\ frame \in Frame /\ outer \in Frame /\ frame.attempt >= 1 /\ outer.attempt >= 1
  /\ frame.purpose = "get" => frame.page >= 1
  /\ frame.purpose = "recover" => outer.purpose = "post" /\ outer.attempt > 1
CallOK ==
  /\ at \in {"idle", "request", "rate"} /\ result \in Result
  /\ error = NoError \/ (error \in Errors /\ Classify(error) = "primary" /\ at = "rate")
  /\ at = "rate" => error \in Errors
  /\ starts \in 0..MaxStarts /\ slept \in Nat /\ posts \in Nat
RunsOK ==
  /\ runs \in Seq(Run) /\ Len(runs) <= MaxRuns /\ lag \in BOOLEAN
  /\ failed \subseteq DOMAIN runs

LEMMA FailuresTyped == Errors \subseteq Failure
  BY LimitsAreNatural DEF Failure

LEMMA TypesOfParts == FrameOK /\ CallOK /\ RunsOK => TypeOK
  <1> SUFFICES ASSUME FrameOK, CallOK, RunsOK PROVE TypeOK
    OBVIOUS
  <1>1. \A i \in DOMAIN runs : runs[i].status \in {"active", "success", "failure"}
    <2>1. DOMAIN runs = 1..Len(runs)
      BY LenProperties DEF RunsOK
    <2>2. \A i \in DOMAIN runs : runs[i] \in Run
      BY <2>1, ElementOfSeq DEF RunsOK
    <2> QED
      BY <2>2 DEF Run
  <1> QED
    BY <1>1 DEF FrameOK, CallOK, RunsOK, TypeOK, Frame, Purpose, Result

-----------------------------------------------------------------------------
(* What a wait is, whatever headers say.                                      *)
LEMMA BackoffType ==
  ASSUME NEW first \in Nat, NEW high \in Nat, NEW n \in Nat \ {0}
  PROVE  Backoff(first, high, n) \in Nat
  <1>1. CASE n > 4
    BY <1>1 DEF Backoff
  <1>2. CASE n <= 4
    <2>1. n \in {1, 2, 3, 4} /\ <<1, 2, 4, 8>>[n] \in Nat
      BY <1>2
    <2>2. first * <<1, 2, 4, 8>>[n] \in Nat
      BY <2>1
    <2> QED
      BY <1>2, <2>2 DEF Backoff, AtMost
  <1> QED
    BY <1>1, <1>2

LEMMA WaitType ==
  ASSUME NEW e \in Failure, NEW n \in Nat \ {0}, NEW jitter \in Jitters
  PROVE  AtLeast(0, Cooldown(e, n) + jitter) \in Nat
  <1>1. Backoff(60, 600, n) \in Nat /\ Backoff(5, 60, n) \in Nat
    <2>1. \A first \in Nat, high \in Nat : Backoff(first, high, n) \in Nat
      BY BackoffType
    <2>2. 60 \in Nat /\ 600 \in Nat /\ 5 \in Nat
      OBVIOUS
    <2> QED
      BY <2>1, <2>2, Zenon
  <1>2. Cooldown(e, n) \in Int
    BY <1>1 DEF Cooldown, AtLeast, Failure
  <1>3. jitter \in Nat
    BY LimitsAreNatural
  <1> QED
    BY <1>2, <1>3 DEF AtLeast

LEMMA Products ==
  ASSUME NEW n \in Nat, NEW b \in Nat
  PROVE  (n + 1) * b = n * b + b /\ n * b \in Nat /\ 0 * b = 0 /\ 1 * b = b
  OBVIOUS

-----------------------------------------------------------------------------
(* retryGitHub: the command ends, the rate limit is read, or the request of   *)
(* frame f is repeated after a wait within its budget.                        *)
Ends(f) == \E r \in {"deferred", "failed"} : Report(r) /\ UNCHANGED slept
ReadsRate(f) ==
  /\ at' = "rate" /\ frame' = f /\ error' \in Errors /\ Classify(error') = "primary"
  /\ UNCHANGED <<outer, result, slept>>
Repeats(f) ==
  \E wait \in Nat :
    /\ f.attempt < Attempts(f) /\ f.waited + wait <= WaitBudget(f)
    /\ Retried([f EXCEPT !.attempt = @ + 1, !.waited = @ + wait])
    /\ at' = "request" /\ error' = NoError
    /\ slept' = slept + wait /\ UNCHANGED result

LEMMA LimitTypes ==
  ASSUME NEW f \in Frame
  PROVE  Attempts(f) \in Nat \ {0} /\ WaitBudget(f) \in Nat
  BY LimitsAreNatural DEF Attempts, WaitBudget

LEMMA SettleOutcome ==
  ASSUME NEW f \in Frame, f.attempt >= 1, NEW e \in Failure, Settle(f, e)
  PROVE  Ends(f) \/ Repeats(f)
  <1>1. PICK jitter \in Jitters :
          LET wait == AtLeast(0, Cooldown(e, f.attempt) + jitter) IN
            IF Exhausted(f, wait)
            THEN Report("deferred") /\ UNCHANGED slept
            ELSE /\ Retried([f EXCEPT !.attempt = @ + 1, !.waited = @ + wait])
                 /\ at' = "request" /\ error' = NoError
                 /\ slept' = slept + wait
                 /\ UNCHANGED result
    BY DEF Settle
  <1> DEFINE wait == AtLeast(0, Cooldown(e, f.attempt) + jitter)
  <1>2. f.attempt \in Nat \ {0} /\ f.waited \in Nat
    BY DEF Frame
  <1>3. wait \in Nat
    BY <1>2, WaitType
  <1> HIDE DEF wait
  <1>4. CASE Exhausted(f, wait)
    BY <1>1, <1>4 DEF wait, Ends
  <1>5. CASE ~Exhausted(f, wait)
    <2>1. f.attempt < Attempts(f) /\ f.waited + wait <= WaitBudget(f)
      BY <1>2, <1>3, <1>5, LimitTypes DEF Exhausted
    <2>2. /\ Retried([f EXCEPT !.attempt = @ + 1, !.waited = @ + wait])
          /\ at' = "request" /\ error' = NoError
          /\ slept' = slept + wait /\ UNCHANGED result
      BY <1>1, <1>5 DEF wait
    <2> QED
      BY <1>3, <2>1, <2>2 DEF Repeats
  <1> QED
    BY <1>4, <1>5

LEMMA CaughtOutcome ==
  ASSUME NEW f \in Frame, f.attempt >= 1, NEW e \in Errors, Caught(f, e)
  PROVE  Ends(f) \/ ReadsRate(f) \/ Repeats(f)
  BY SettleOutcome, FailuresTyped DEF Caught, Ends, ReadsRate

-----------------------------------------------------------------------------
(* What has been slept is what the requests so far may have spent, and a      *)
(* POST is sent once per attempt.                                             *)
SleptOK ==
  /\ frame.attempt <= Attempts(frame) /\ frame.waited <= WaitBudget(frame)
  /\ outer.attempt <= MaxAttempts /\ outer.waited <= Budget
  /\ frame.purpose = "get" => slept <= (frame.page - 1) * Budget + frame.waited
  /\ frame.purpose = "receipt" => slept <= frame.waited
  /\ frame.purpose = "post" => slept <= frame.waited + frame.attempt * ReceiptBudget
  /\ frame.purpose = "recover" =>
       slept <= outer.waited + (outer.attempt - 1) * ReceiptBudget + frame.waited

PostsOK ==
  /\ posts <= MaxAttempts
  /\ frame.purpose = "receipt" => posts = 0
  /\ frame.purpose = "post" => posts <= IF at = "request" THEN frame.attempt - 1 ELSE frame.attempt
  /\ frame.purpose = "recover" => posts <= outer.attempt - 1

ApiInv == FrameOK /\ CallOK /\ RunsOK /\ SleptOK /\ PostsOK

LEMMA NewFrameType ==
  ASSUME NEW purpose \in Purpose, NEW page \in 0..MaxPages
  PROVE  /\ NewFrame(purpose, page) \in Frame
         /\ NewFrame(purpose, page).purpose = purpose /\ NewFrame(purpose, page).page = page
         /\ NewFrame(purpose, page).attempt = 1 /\ NewFrame(purpose, page).waited = 0
  BY DEF NewFrame, Frame

LEMMA NoFrameType ==
  NoFrame \in Frame /\ NoFrame.purpose = "none" /\ NoFrame.attempt = 1 /\ NoFrame.waited = 0
  BY NewFrameType, LimitsAreNatural DEF NoFrame, Purpose

LEMMA Limits ==
  /\ MaxAttempts \in Nat \ {0} /\ ReceiptAttempts \in Nat \ {0}
  /\ Budget \in Nat /\ ReceiptBudget \in Nat /\ MaxPages \in Nat \ {0}
  BY LimitsAreNatural

(* A command that reports keeps nothing of its request.                       *)
LEMMA ReportStep ==
  ASSUME ApiInv, NEW r \in Result, Report(r), UNCHANGED <<starts, slept>>,
         posts' \in Nat, posts' <= MaxAttempts, RunsOK'
  PROVE  ApiInv'
  <1>1. frame' = NoFrame /\ outer' = NoFrame /\ at' = "idle" /\ error' = NoError /\ result' = r
    BY DEF Report
  <1>2. FrameOK' /\ CallOK'
    BY <1>1, NoFrameType DEF ApiInv, FrameOK, CallOK
  <1>3. SleptOK' /\ PostsOK'
    BY <1>1, NoFrameType, Limits DEF SleptOK, PostsOK, Attempts, WaitBudget, Looks
  <1> QED
    BY <1>2, <1>3 DEF ApiInv

(* retryGitHub's catch, in the request itself or in a look's POST.            *)
LEMMA OutcomeStep ==
  ASSUME ApiInv, NEW f \in {frame, outer}, f = frame \/ frame.purpose = "recover",
         Ends(f) \/ ReadsRate(f) \/ Repeats(f), at # "idle",
         UNCHANGED starts, posts' \in Nat, posts' <= MaxAttempts,
         f.purpose = "receipt" => posts' = 0,
         f.purpose = "post" => posts' <= f.attempt,
         f.purpose = "recover" => posts' <= outer.attempt - 1,
         RunsOK'
  PROVE  ApiInv'
  <1>1. f \in Frame /\ f.attempt >= 1 /\ f.attempt \in Nat /\ f.waited \in Nat /\ f.page \in Nat
    BY DEF ApiInv, FrameOK, Frame
  <1>2. /\ slept \in Nat /\ outer.attempt \in Nat /\ outer.waited \in Nat
        /\ frame.waited \in Nat /\ outer.attempt >= 1
    BY DEF ApiInv, FrameOK, CallOK, Frame
  <1>3. CASE Ends(f)
    BY <1>3, ReportStep DEF Ends, Result
  <1>4. /\ f.purpose = "get" => slept <= (f.page - 1) * Budget + f.waited
        /\ f.purpose = "receipt" => slept <= f.waited
        /\ f.purpose = "post" => slept <= f.waited + f.attempt * ReceiptBudget
        /\ f.purpose = "recover" =>
             slept <= outer.waited + (outer.attempt - 1) * ReceiptBudget + f.waited
    <2>1. CASE f = frame
      BY <2>1 DEF ApiInv, SleptOK
    <2>2. CASE f = outer /\ frame.purpose = "recover"
      <3>1. slept <= outer.waited + (outer.attempt - 1) * ReceiptBudget + frame.waited
        BY <2>2 DEF ApiInv, SleptOK
      <3>2. frame.waited <= ReceiptBudget /\ f.purpose = "post"
        BY <2>2 DEF ApiInv, SleptOK, FrameOK, WaitBudget, Looks
      <3>3. (outer.attempt - 1 + 1) * ReceiptBudget = (outer.attempt - 1) * ReceiptBudget + ReceiptBudget
            /\ (outer.attempt - 1) * ReceiptBudget \in Nat
        BY <1>2, Products, Limits
      <3>4. (outer.attempt - 1) + 1 = outer.attempt
        BY <1>2
      <3> DEFINE spent == (outer.attempt - 1) * ReceiptBudget
      <3>5. outer.attempt * ReceiptBudget = spent + ReceiptBudget /\ spent \in Nat
        BY <3>3, <3>4
      <3> HIDE DEF spent
      <3>6. slept <= outer.waited + spent + frame.waited
        BY <3>1 DEF spent
      <3>7. slept <= outer.waited + outer.attempt * ReceiptBudget
        BY <1>2, <3>2, <3>5, <3>6, Limits
      <3> QED
        BY <2>2, <3>2, <3>7
    <2> QED
      BY <2>1, <2>2
  <1>5. /\ f.attempt <= Attempts(f) /\ f.waited <= WaitBudget(f)
        /\ f.purpose = "get" => f.page >= 1
        /\ f.purpose = "recover" => f = frame /\ outer.purpose = "post" /\ outer.attempt > 1
    BY DEF ApiInv, SleptOK, FrameOK, Attempts, WaitBudget, Looks
  <1>6. CASE ReadsRate(f)
    <2>1. /\ at' = "rate" /\ frame' = f /\ error' \in Errors /\ Classify(error') = "primary"
          /\ UNCHANGED <<outer, result, slept, starts>>
      BY <1>6 DEF ReadsRate
    <2>2. FrameOK' /\ CallOK'
      BY <1>1, <1>5, <2>1 DEF ApiInv, FrameOK, CallOK
    <2>3. SleptOK'
      BY <1>4, <1>5, <2>1 DEF ApiInv, SleptOK
    <2>4. PostsOK'
      BY <2>1 DEF PostsOK
    <2> QED
      BY <2>2, <2>3, <2>4 DEF ApiInv
  <1>7. CASE Repeats(f)
    <2>1. PICK wait \in Nat :
            /\ f.attempt < Attempts(f) /\ f.waited + wait <= WaitBudget(f)
            /\ Retried([f EXCEPT !.attempt = @ + 1, !.waited = @ + wait])
            /\ at' = "request" /\ error' = NoError
            /\ slept' = slept + wait /\ UNCHANGED result
      BY <1>7 DEF Repeats
    <2> DEFINE next == [f EXCEPT !.attempt = @ + 1, !.waited = @ + wait]
    <2>2. /\ next \in Frame /\ next.purpose = f.purpose /\ next.page = f.page
          /\ next.attempt = f.attempt + 1 /\ next.waited = f.waited + wait
      <3>1. f.attempt + 1 \in Nat /\ f.waited + wait \in Nat
        BY <1>1
      <3>2. ASSUME NEW n \in Nat, NEW w \in Nat
            PROVE  LET g == [f EXCEPT !.attempt = n, !.waited = w] IN
                     /\ g \in Frame /\ g.purpose = f.purpose /\ g.page = f.page
                     /\ g.attempt = n /\ g.waited = w
        BY <1>1 DEF Frame
      <3> QED
        BY <3>1, <3>2
    <2>3. Retried(next)
      BY <2>1
    <2> HIDE DEF next
    <2>4. Attempts(next) = Attempts(f) /\ WaitBudget(next) = WaitBudget(f)
      BY <2>2 DEF Attempts, WaitBudget, Looks
    <2>5. next.attempt <= Attempts(next) /\ next.waited <= WaitBudget(next)
      BY <1>1, <2>1, <2>2, <2>4, LimitTypes
    <2>6. slept' \in Nat /\ CallOK'
      BY <1>2, <2>1 DEF ApiInv, CallOK
    <2>7. CASE f.purpose = "post"
      <3>1. frame' = NewFrame("recover", 0) /\ outer' = next
        BY <2>2, <2>3, <2>7 DEF Retried
      <3>2. /\ frame' \in Frame /\ frame'.purpose = "recover"
            /\ frame'.attempt = 1 /\ frame'.waited = 0
        BY <3>1, NewFrameType, Limits DEF Purpose
      <3>3. FrameOK'
        BY <1>1, <2>2, <2>7, <3>1, <3>2 DEF FrameOK
      <3>4. next.attempt <= MaxAttempts /\ next.waited <= Budget
        BY <2>2, <2>5, <2>7 DEF Attempts, WaitBudget, Looks
      <3>5. outer'.attempt - 1 = f.attempt /\ outer'.waited = f.waited + wait
        <4>1. outer'.attempt = f.attempt + 1 /\ outer'.waited = f.waited + wait
          BY <2>2, <3>1, Zenon
        <4> QED
          BY <1>1, <4>1
      <3>6. f.attempt * ReceiptBudget \in Nat
        BY <1>1, Products, Limits
      <3>7. slept' <= outer'.waited + (outer'.attempt - 1) * ReceiptBudget + frame'.waited
        <4> DEFINE spent == f.attempt * ReceiptBudget
        <4>1. slept <= f.waited + spent /\ spent \in Nat
          BY <1>4, <2>7, <3>6
        <4> HIDE DEF spent
        <4>2. slept' <= f.waited + wait + spent + 0
          BY <1>1, <1>2, <2>1, <4>1
        <4> QED
          BY <3>2, <3>5, <4>2 DEF spent
      <3>8. SleptOK'
        BY <3>1, <3>2, <3>4, <3>7, Limits DEF SleptOK, Attempts, WaitBudget, Looks
      <3>9. PostsOK'
        BY <2>7, <3>2, <3>5 DEF PostsOK
      <3> QED
        BY <2>6, <3>3, <3>8, <3>9 DEF ApiInv
    <2>8. CASE f.purpose # "post"
      <3>1. frame' = next /\ outer' = outer /\ f = frame
        BY <2>2, <2>3, <2>8 DEF Retried, ApiInv, FrameOK
      <3>2. FrameOK'
        BY <1>1, <1>5, <2>2, <3>1 DEF ApiInv, FrameOK
      <3>3. /\ f.purpose = "get" => slept' <= (next.page - 1) * Budget + next.waited
            /\ f.purpose = "receipt" => slept' <= next.waited
            /\ f.purpose = "recover" =>
                 slept' <= outer.waited + (outer.attempt - 1) * ReceiptBudget + next.waited
        <4> DEFINE pages == (f.page - 1) * Budget
                   looks == (outer.attempt - 1) * ReceiptBudget
        <4>1. /\ f.purpose = "get" => slept <= pages + f.waited
              /\ f.purpose = "receipt" => slept <= f.waited
              /\ f.purpose = "recover" => slept <= outer.waited + looks + f.waited
          BY <1>4
        <4>2. pages \in Int /\ looks \in Int
          BY <1>1, <1>2, Limits
        <4>3. next.page - 1 = f.page - 1
          BY <2>2
        <4> HIDE DEF pages, looks
        <4>4. /\ f.purpose = "get" => slept' <= pages + next.waited
              /\ f.purpose = "receipt" => slept' <= next.waited
              /\ f.purpose = "recover" => slept' <= outer.waited + looks + next.waited
          BY <1>1, <1>2, <2>1, <2>2, <4>1, <4>2
        <4> QED
          BY <4>3, <4>4 DEF pages, looks
      <3>4. SleptOK'
        BY <2>2, <2>5, <2>8, <3>1, <3>3 DEF ApiInv, SleptOK
      <3>5. PostsOK'
        BY <2>2, <2>8, <3>1 DEF PostsOK
      <3> QED
        BY <2>6, <3>2, <3>4, <3>5 DEF ApiInv
    <2> QED
      BY <2>7, <2>8
  <1> QED
    BY <1>3, <1>6, <1>7

-----------------------------------------------------------------------------
(* The runs of the SHA.                                                       *)
LEMMA RunsTyped ==
  ASSUME RunsOK
  PROVE  /\ Len(runs) \in Nat /\ DOMAIN runs = 1..Len(runs)
         /\ \A i \in DOMAIN runs : runs[i] \in Run
  BY LenProperties, ElementOfSeq DEF RunsOK

LEMMA CreatedRuns ==
  ASSUME RunsOK, Len(runs) < MaxRuns, runs' = Created, UNCHANGED <<lag, failed>>
  PROVE  /\ RunsOK' /\ Len(runs') = Len(runs) + 1
         /\ \A i \in DOMAIN runs : i \in DOMAIN runs' /\ runs'[i] = runs[i]
         /\ DOMAIN runs' = DOMAIN runs \cup {Len(runs) + 1}
         /\ runs'[Len(runs) + 1] = [status |-> "active", listed |-> ~lag]
  <1> DEFINE new == [status |-> "active", listed |-> ~lag]
  <1>1. new \in Run
    BY DEF Run
  <1>2. runs' = Append(runs, new)
    BY DEF Created
  <1> HIDE DEF new
  <1>3. /\ runs' \in Seq(Run) /\ Len(runs') = Len(runs) + 1
        /\ \A i \in 1..Len(runs) : runs'[i] = runs[i]
        /\ runs'[Len(runs) + 1] = new
    BY <1>1, <1>2, AppendProperties DEF RunsOK
  <1>4. Len(runs) \in Nat /\ DOMAIN runs = 1..Len(runs) /\ DOMAIN runs' = 1..Len(runs')
    BY <1>3, RunsTyped, LenProperties
  <1>5. DOMAIN runs' = DOMAIN runs \cup {Len(runs) + 1}
    BY <1>3, <1>4
  <1>6. RunsOK'
    <2>1. Len(runs') <= MaxRuns
      BY <1>3, <1>4, Limits, LimitsAreNatural
    <2>2. failed' \subseteq DOMAIN runs'
      BY <1>5 DEF RunsOK
    <2> QED
      BY <1>3, <2>1, <2>2 DEF RunsOK
  <1> QED
    BY <1>3, <1>4, <1>5, <1>6 DEF new

LEMMA UpdatedRuns ==
  ASSUME RunsOK, NEW i \in DOMAIN runs, NEW r \in Run, runs' = [runs EXCEPT ![i] = r],
         UNCHANGED <<lag, failed>>
  PROVE  /\ RunsOK' /\ DOMAIN runs' = DOMAIN runs
         /\ \A j \in DOMAIN runs : runs'[j] = IF j = i THEN r ELSE runs[j]
  <1>1. DOMAIN runs = 1..Len(runs)
    BY RunsTyped
  <1> QED
    BY <1>1, ExceptSeq DEF RunsOK

(* The steps of GitHub: a run is listed, or it ends.                          *)
GitHubStep(i, r) ==
  /\ i \in DOMAIN runs /\ r \in Run /\ runs' = [runs EXCEPT ![i] = r]
  /\ \/ r.status = runs[i].status /\ ~runs[i].listed
     \/ r.listed = runs[i].listed /\ runs[i].status = "active"

LEMMA GitHubMoves ==
  ASSUME RunsOK, RunListed \/ RunEnds
  PROVE  UNCHANGED caller /\ \E i, r : GitHubStep(i, r)
  <1>1. CASE RunListed
    <2>1. PICK i \in DOMAIN runs : ~runs[i].listed /\ runs' = [runs EXCEPT ![i].listed = TRUE]
      BY <1>1 DEF RunListed
    <2>2. runs[i] \in Run
      BY RunsTyped
    <2>3. [runs[i] EXCEPT !.listed = TRUE] \in Run
          /\ [runs[i] EXCEPT !.listed = TRUE].status = runs[i].status
      BY <2>2 DEF Run
    <2>4. GitHubStep(i, [runs[i] EXCEPT !.listed = TRUE])
      BY <2>1, <2>3 DEF GitHubStep
    <2> QED
      BY <1>1, <2>4 DEF RunListed
  <1>2. CASE RunEnds
    <2>1. PICK i \in DOMAIN runs, status \in {"success", "failure"} :
            runs[i].status = "active" /\ runs' = [runs EXCEPT ![i].status = status]
      BY <1>2 DEF RunEnds
    <2>2. runs[i] \in Run
      BY RunsTyped
    <2>3. [runs[i] EXCEPT !.status = status] \in Run
          /\ [runs[i] EXCEPT !.status = status].listed = runs[i].listed
      BY <2>2 DEF Run
    <2>4. GitHubStep(i, [runs[i] EXCEPT !.status = status])
      BY <2>1, <2>3 DEF GitHubStep
    <2> QED
      BY <1>2, <2>4 DEF RunEnds
  <1> QED
    BY <1>1, <1>2

-----------------------------------------------------------------------------
LEMMA InitApi == Init => ApiInv
  <1> SUFFICES ASSUME Init PROVE ApiInv
    OBVIOUS
  <1>1. FrameOK /\ SleptOK /\ PostsOK
    BY NoFrameType, Limits DEF Init, FrameOK, SleptOK, PostsOK, Attempts, WaitBudget, Looks
  <1>2. CallOK
    BY LimitsAreNatural DEF Init, CallOK, Result
  <1>3. RunsOK
    <2> DEFINE old == [status |-> "failure", listed |-> TRUE]
    <2>1. old \in Run
      BY DEF Run
    <2> HIDE DEF old
    <2>2. <<>> \in Seq(Run) /\ Len(<<>>) = 0 /\ <<old>> \in Seq(Run) /\ Len(<<old>>) = 1
      BY <2>1
    <2>3. runs \in {<<>>, <<old>>} /\ lag \in BOOLEAN /\ failed = {}
      BY DEF Init, old
    <2>4. runs \in Seq(Run) /\ Len(runs) \in {0, 1}
      BY <2>2, <2>3
    <2>5. Len(runs) <= MaxRuns
      BY <2>4, LimitsAreNatural
    <2> QED
      BY <2>3, <2>4, <2>5 DEF RunsOK
  <1> QED
    BY <1>1, <1>2, <1>3 DEF ApiInv

LEMMA StartApi ==
  ASSUME ApiInv, Start
  PROVE  ApiInv'
  <1>1. PICK new \in {NewFrame("get", 1), NewFrame("receipt", 0)} : frame' = new
    BY DEF Start
  <1>2. /\ new \in Frame /\ new.purpose \in {"get", "receipt"} /\ new.attempt = 1 /\ new.waited = 0
        /\ new.purpose = "get" => new.page = 1
    BY <1>1, NewFrameType, Limits DEF Purpose
  <1>3. FrameOK'
    BY <1>1, <1>2 DEF Start, ApiInv, FrameOK
  <1>4. CallOK'
    BY LimitsAreNatural DEF Start, ApiInv, CallOK, Result
  <1>5. RunsOK'
    BY DEF Start, ApiInv, RunsOK, github
  <1>6. slept' = 0 /\ posts' = 0 /\ outer' = outer
    BY DEF Start
  <1>7. (1 - 1) * Budget = 0
    BY Limits
  <1>8. SleptOK' /\ PostsOK'
    BY <1>1, <1>2, <1>6, <1>7, Limits DEF ApiInv, SleptOK, PostsOK, Attempts, WaitBudget, Looks
  <1> QED
    BY <1>3, <1>4, <1>5, <1>8 DEF ApiInv

(* What a failed request of the frame in progress leads to.                   *)
LEMMA FailedStep ==
  ASSUME ApiInv, NEW e \in Errors, Fails(frame, e), at = "request",
         UNCHANGED starts, RunsOK',
         posts' = posts \/ (frame.purpose = "post" /\ posts' = posts + 1)
  PROVE  ApiInv'
  <1>1. frame \in Frame /\ frame.attempt >= 1 /\ frame.attempt \in Nat /\ posts \in Nat
    BY DEF ApiInv, FrameOK, CallOK, Frame
  <1>2. Ends(frame) \/ ReadsRate(frame) \/ Repeats(frame)
    BY <1>1, CaughtOutcome DEF Fails
  <1>3. /\ posts' \in Nat
        /\ frame.purpose = "receipt" => posts' = 0
        /\ frame.purpose = "post" => posts' <= frame.attempt
        /\ frame.purpose = "recover" => posts' <= outer.attempt - 1
    BY <1>1 DEF ApiInv, PostsOK
  <1>4. posts' <= MaxAttempts
    <2>1. frame.attempt <= Attempts(frame)
      BY DEF ApiInv, SleptOK
    <2> QED
      BY <1>1, <1>3, <2>1, Limits DEF ApiInv, PostsOK, Attempts, Looks
  <1> QED
    BY <1>2, <1>3, <1>4, OutcomeStep

LEMMA GetPageApi ==
  ASSUME ApiInv, GetPage
  PROVE  ApiInv'
  <1>0. at = "request" /\ frame.purpose = "get" /\ UNCHANGED <<starts, posts>> /\ RunsOK'
    BY DEF GetPage, ApiInv, RunsOK, github
  <1>1. CASE Report("read") /\ UNCHANGED slept
    BY <1>0, <1>1, ReportStep DEF Result, ApiInv, CallOK, PostsOK
  <1>2. CASE /\ frame.page < MaxPages /\ frame' = NewFrame("get", frame.page + 1)
             /\ UNCHANGED <<at, outer, error, result, slept>>
    <2>1. frame.page \in Nat \ {0} /\ frame.waited \in Nat /\ slept \in Nat
      BY <1>0 DEF ApiInv, FrameOK, CallOK, Frame
    <2>2. /\ frame' \in Frame /\ frame'.purpose = "get" /\ frame'.page = frame.page + 1
          /\ frame'.attempt = 1 /\ frame'.waited = 0
      <3>1. frame.page + 1 \in 0..MaxPages
        BY <1>2, <2>1, Limits
      <3> QED
        BY <1>2, <3>1, NewFrameType DEF Purpose
    <2>3. FrameOK' /\ CallOK'
      BY <1>0, <1>2, <2>1, <2>2 DEF ApiInv, FrameOK, CallOK
    <2>4. slept <= (frame'.page - 1) * Budget + 0
      <3> DEFINE pages == (frame.page - 1) * Budget
      <3>1. frame.page - 1 \in Nat /\ frame'.page - 1 = (frame.page - 1) + 1
        BY <2>1, <2>2
      <3>2. pages \in Nat /\ (frame'.page - 1) * Budget = pages + Budget
        BY <3>1, Products, Limits
      <3>3. slept <= pages + frame.waited /\ frame.waited <= Budget
        BY <1>0 DEF ApiInv, SleptOK, WaitBudget, Looks
      <3> HIDE DEF pages
      <3> QED
        BY <2>1, <3>2, <3>3, Limits
    <2>5. SleptOK' /\ PostsOK'
      BY <1>0, <1>2, <2>2, <2>4, Limits DEF ApiInv, SleptOK, PostsOK, Attempts, WaitBudget, Looks
    <2> QED
      BY <1>0, <2>3, <2>5 DEF ApiInv
  <1>3. CASE \E e \in Errors : Fails(frame, e)
    BY <1>0, <1>3, FailedStep
  <1> QED
    BY <1>1, <1>2, <1>3 DEF GetPage

LEMMA LookApi ==
  ASSUME ApiInv, Look
  PROVE  ApiInv'
  <1>0. /\ at = "request" /\ frame.purpose \in {"receipt", "recover"}
        /\ UNCHANGED <<starts, posts>> /\ RunsOK'
    BY DEF Look, Looks, ApiInv, RunsOK, github
  <1>1. CASE \E r \in {"existing", "recovered", "failed"} : Report(r) /\ UNCHANGED slept
    BY <1>0, <1>1, ReportStep DEF Result, ApiInv, CallOK, PostsOK
  <1>2. CASE frame' = AfterLook /\ outer' = NoFrame /\ UNCHANGED <<at, error, result, slept>>
    <2>0. /\ frame.waited \in Nat /\ slept \in Nat /\ outer.attempt \in Nat /\ outer.waited \in Nat
          /\ frame.waited <= ReceiptBudget /\ posts \in Nat
      BY <1>0 DEF ApiInv, FrameOK, CallOK, Frame, SleptOK, WaitBudget, Looks
    <2>1. CASE frame.purpose = "receipt"
      <3>1. /\ frame' \in Frame /\ frame'.purpose = "post" /\ frame'.attempt = 1 /\ frame'.waited = 0
        BY <1>2, <2>1, NewFrameType, Limits DEF AfterLook, Purpose
      <3>2. FrameOK' /\ CallOK'
        BY <1>0, <1>2, <3>1, NoFrameType DEF ApiInv, FrameOK, CallOK
      <3>3. slept <= 0 + 1 * ReceiptBudget
        BY <2>0, <2>1, Products, Limits DEF ApiInv, SleptOK
      <3>4. SleptOK' /\ PostsOK'
        BY <1>0, <1>2, <2>0, <2>1, <3>1, <3>3, NoFrameType, Limits
           DEF ApiInv, SleptOK, PostsOK, Attempts, WaitBudget, Looks
      <3> QED
        BY <1>0, <3>2, <3>4 DEF ApiInv
    <2>2. CASE frame.purpose = "recover"
      <3>1. frame' = outer /\ outer.purpose = "post" /\ outer.attempt > 1
        BY <1>2, <2>2 DEF AfterLook, ApiInv, FrameOK
      <3>2. FrameOK' /\ CallOK'
        BY <1>0, <1>2, <3>1, NoFrameType DEF ApiInv, FrameOK, CallOK
      <3>3. slept <= outer.waited + outer.attempt * ReceiptBudget
        <4> DEFINE looks == (outer.attempt - 1) * ReceiptBudget
        <4>1. outer.attempt - 1 \in Nat /\ outer.attempt = (outer.attempt - 1) + 1
          BY <2>0, <3>1
        <4>2. looks \in Nat /\ outer.attempt * ReceiptBudget = looks + ReceiptBudget
          BY <4>1, Products, Limits
        <4>3. slept <= outer.waited + looks + frame.waited
          BY <2>2 DEF ApiInv, SleptOK
        <4> HIDE DEF looks
        <4> QED
          BY <2>0, <4>2, <4>3, Limits
      <3>4. SleptOK' /\ PostsOK'
        BY <1>0, <1>2, <2>2, <3>1, <3>3, NoFrameType, Limits
           DEF ApiInv, SleptOK, PostsOK, Attempts, WaitBudget, Looks
      <3> QED
        BY <1>0, <3>2, <3>4 DEF ApiInv
    <2> QED
      BY <1>0, <2>1, <2>2
  <1>3. CASE \E e \in Errors : Fails(frame, e)
    BY <1>0, <1>3, FailedStep
  <1> QED
    BY <1>1, <1>2, <1>3 DEF Look

LEMMA PostApi ==
  ASSUME ApiInv, Post
  PROVE  ApiInv'
  <1>0. at = "request" /\ frame.purpose = "post" /\ UNCHANGED <<starts, lag, failed>>
    BY DEF Post
  <1>1. posts' = posts + 1 /\ posts + 1 <= MaxAttempts /\ posts + 1 \in Nat
    <2>1. posts <= frame.attempt - 1 /\ frame.attempt <= MaxAttempts
      BY <1>0 DEF ApiInv, PostsOK, SleptOK, Attempts, Looks
    <2>2. posts \in Nat /\ frame.attempt \in Nat
      BY DEF ApiInv, CallOK, FrameOK, Frame
    <2>3. posts' = AtMost(MaxAttempts + 1, posts + 1)
      BY DEF Post
    <2> QED
      BY <2>1, <2>2, <2>3, Limits DEF AtMost
  <1>2. runs' = runs \/ (Len(runs) < MaxRuns /\ runs' = Created)
    BY DEF Post
  <1>3. RunsOK'
    BY <1>0, <1>2, CreatedRuns DEF ApiInv, RunsOK
  <1>4. CASE Report("dispatched") /\ UNCHANGED slept
    BY <1>0, <1>1, <1>3, <1>4, ReportStep DEF Result
  <1>5. CASE \E e \in Errors : Fails(frame, e)
    BY <1>0, <1>1, <1>3, <1>5, FailedStep
  <1> QED
    BY <1>4, <1>5 DEF Post

LEMMA RateLimitApi ==
  ASSUME ApiInv, RateLimit
  PROVE  ApiInv'
  <1>0. at = "rate" /\ UNCHANGED <<starts, posts>> /\ RunsOK' /\ error \in Errors
    BY DEF RateLimit, ApiInv, RunsOK, CallOK, github
  <1>1. frame \in Frame /\ frame.attempt >= 1 /\ outer \in Frame /\ outer.attempt >= 1
        /\ posts \in Nat /\ posts <= MaxAttempts
    BY DEF ApiInv, FrameOK, CallOK, PostsOK
  <1>p. /\ frame.purpose = "receipt" => posts' = 0
        /\ frame.purpose = "post" => posts' <= frame.attempt
        /\ frame.purpose = "recover" => posts' <= outer.attempt - 1 /\ posts' <= outer.attempt
    BY <1>0, <1>1 DEF ApiInv, PostsOK, FrameOK, Frame
  <1>2. CASE \E reset \in Resets : Settle(frame, [error EXCEPT !.reset = reset])
    <2>1. PICK reset \in Resets : Settle(frame, [error EXCEPT !.reset = reset])
      BY <1>2
    <2>2. [error EXCEPT !.reset = reset] \in Failure
      BY <1>0, FailuresTyped, LimitsAreNatural DEF Failure
    <2>3. Ends(frame) \/ Repeats(frame)
      BY <1>1, <2>1, <2>2, SettleOutcome
    <2> QED
      BY <1>0, <1>1, <1>p, <2>3, OutcomeStep
  <1>3. CASE Report("failed") /\ UNCHANGED slept
    BY <1>0, <1>1, <1>3, ReportStep DEF Result
  <1>4. CASE frame.purpose = "recover" /\ \E e \in Errors : Caught(outer, e)
    <2>1. outer.purpose = "post"
      BY <1>4 DEF ApiInv, FrameOK
    <2>2. Ends(outer) \/ ReadsRate(outer) \/ Repeats(outer)
      BY <1>1, <1>4, CaughtOutcome
    <2> QED
      BY <1>0, <1>1, <1>4, <1>p, <2>1, <2>2, OutcomeStep
  <1> QED
    BY <1>2, <1>3, <1>4 DEF RateLimit, Method

(* The steps around the requests: cancellation, and GitHub's own.             *)
LEMMA NextApi ==
  ASSUME ApiInv, [Next]_vars
  PROVE  ApiInv'
  <1>1. CASE Start
    BY <1>1, StartApi
  <1>2. CASE Step
    BY <1>2, GetPageApi, LookApi, PostApi, RateLimitApi DEF Step
  <1>3. CASE Cancelled
    <2>1. RunsOK' /\ UNCHANGED <<starts, slept, posts>>
      BY <1>3 DEF Cancelled, ApiInv, RunsOK, github
    <2> QED
      BY <1>3, <2>1, ReportStep DEF Cancelled, Result, ApiInv, CallOK, PostsOK
  <1>4. CASE RunListed \/ RunEnds
    <2>1. UNCHANGED caller /\ \E i, r : GitHubStep(i, r)
      BY <1>4, GitHubMoves DEF ApiInv
    <2>2. RunsOK'
      BY <2>1, UpdatedRuns DEF GitHubStep, caller, ApiInv
    <2>3. FrameOK' /\ CallOK' /\ SleptOK' /\ PostsOK'
      BY <2>1 DEF caller, ApiInv, FrameOK, CallOK, SleptOK, PostsOK
    <2> QED
      BY <2>2, <2>3 DEF ApiInv
  <1>5. CASE UNCHANGED vars
    BY <1>5 DEF vars, ApiInv, FrameOK, CallOK, RunsOK, SleptOK, PostsOK
  <1> QED
    BY <1>1, <1>2, <1>3, <1>4, <1>5 DEF Next

LEMMA AlwaysApi == Spec => []ApiInv
  BY InitApi, NextApi, PTL DEF Spec

LEMMA ApiBounds == ApiInv => SleepBounded
  <1> SUFFICES ASSUME ApiInv PROVE SleepBounded
    OBVIOUS
  <1>1. /\ frame.waited \in Nat /\ outer.waited \in Nat /\ slept \in Nat
        /\ frame.page \in Nat /\ outer.attempt \in Nat /\ frame.attempt \in Nat
    BY DEF ApiInv, FrameOK, CallOK, Frame
  <1>2. frame.purpose = "get" => slept <= frame.page * Budget
    <2> SUFFICES ASSUME frame.purpose = "get" PROVE slept <= frame.page * Budget
      OBVIOUS
    <2> DEFINE pages == (frame.page - 1) * Budget
    <2>1. frame.page - 1 \in Nat /\ frame.page = (frame.page - 1) + 1
      BY <1>1 DEF ApiInv, FrameOK
    <2>2. pages \in Nat /\ frame.page * Budget = pages + Budget
      BY <2>1, Products, Limits
    <2>3. slept <= pages + frame.waited /\ frame.waited <= Budget
      BY DEF ApiInv, SleptOK, WaitBudget, Looks
    <2> HIDE DEF pages
    <2> QED
      BY <1>1, <2>2, <2>3, Limits
  <1>3. frame.purpose = "receipt" => slept <= ReceiptBudget
    BY <1>1, Limits DEF ApiInv, SleptOK, WaitBudget, Looks
  <1>4. frame.purpose = "post" => slept <= Budget + frame.attempt * ReceiptBudget
    <2> DEFINE looks == frame.attempt * ReceiptBudget
    <2>1. looks \in Nat
      BY <1>1, Products, Limits
    <2>2. frame.purpose = "post" => slept <= frame.waited + looks /\ frame.waited <= Budget
      BY DEF ApiInv, SleptOK, WaitBudget, Looks
    <2> HIDE DEF looks
    <2>3. frame.purpose = "post" => slept <= Budget + looks
      BY <1>1, <2>1, <2>2, Limits
    <2> QED
      BY <2>3 DEF looks
  <1>5. frame.purpose = "recover" => slept <= Budget + outer.attempt * ReceiptBudget
    <2> SUFFICES ASSUME frame.purpose = "recover"
                 PROVE  slept <= Budget + outer.attempt * ReceiptBudget
      OBVIOUS
    <2> DEFINE looks == (outer.attempt - 1) * ReceiptBudget
    <2>1. outer.attempt - 1 \in Nat /\ outer.attempt = (outer.attempt - 1) + 1
      BY <1>1 DEF ApiInv, FrameOK
    <2>2. looks \in Nat /\ outer.attempt * ReceiptBudget = looks + ReceiptBudget
      BY <2>1, Products, Limits
    <2>3. slept <= outer.waited + looks + frame.waited
      BY DEF ApiInv, SleptOK
    <2>4. frame.waited <= ReceiptBudget /\ outer.waited <= Budget
      BY DEF ApiInv, SleptOK, WaitBudget, Looks
    <2> HIDE DEF looks
    <2> QED
      BY <1>1, <2>2, <2>3, <2>4, Limits
  <1> QED
    BY <1>2, <1>3, <1>4, <1>5 DEF SleepBounded, ApiInv, PostsOK

(* Whatever limits, jitters and reset times are chosen and whatever GitHub    *)
(* answers, no request sleeps past its own budget, so that a command sleeps   *)
(* at most its pages' budgets, or a POST's and one per look, and a dispatch   *)
(* sends at most MaxAttempts POSTs (retryGitHub, dispatchWorkflow).           *)
THEOREM BudgetsHold == Spec => []Inv
  <1>1. ApiInv => Inv
    BY TypesOfParts, ApiBounds DEF ApiInv, Inv
  <1> QED
    BY AlwaysApi, <1>1, PTL

-----------------------------------------------------------------------------
(* No POST is sent while GitHub has a run it would duplicate: where a new run *)
(* is listed at once, a look that finds none comes between any two POSTs.     *)
UsableRuns == {i \in DOMAIN runs : Usable(runs[i])}
Posting == at = "request" /\ frame.purpose = "post"
OnceOK ==
  ~lag => /\ \A i \in DOMAIN runs : runs[i].listed
          /\ \A i, j \in UsableRuns : i = j
          /\ Posting => UsableRuns = {}

LEMMA NotPosting ==
  ASSUME NEW f \in Frame, Ends(f) \/ ReadsRate(f) \/ Repeats(f)
  PROVE  ~Posting'
  <1>1. CASE Ends(f) \/ ReadsRate(f)
    BY <1>1 DEF Ends, ReadsRate, Report, Posting
  <1>2. CASE Repeats(f)
    <2>1. PICK wait : Retried([f EXCEPT !.attempt = @ + 1, !.waited = @ + wait])
      BY <1>2 DEF Repeats
    <2> DEFINE next == [f EXCEPT !.attempt = @ + 1, !.waited = @ + wait]
    <2>2. next.purpose = f.purpose
      BY DEF Frame
    <2>3. Retried(next)
      BY <2>1
    <2> HIDE DEF next
    <2>4. NewFrame("recover", 0).purpose = "recover"
      BY DEF NewFrame
    <2>5. frame'.purpose # "post"
      BY <2>2, <2>3, <2>4 DEF Retried
    <2> QED
      BY <2>5 DEF Posting
  <1> QED
    BY <1>1, <1>2

LEMMA FailsNotPosting ==
  ASSUME ApiInv, NEW e \in Errors, Fails(frame, e)
  PROVE  ~Posting'
  BY CaughtOutcome, NotPosting DEF Fails, ApiInv, FrameOK

LEMMA LookOnce ==
  ASSUME ApiInv, OnceOK, Look
  PROVE  OnceOK'
  <1>1. UNCHANGED <<runs, lag>>
    BY DEF Look, github
  <1>2. CASE Receipts = {}
    <2>1. ~lag => UsableRuns = {}
      BY <1>2 DEF OnceOK, Receipts, UsableRuns
    <2> QED
      BY <1>1, <2>1 DEF OnceOK, UsableRuns, Usable
  <1>3. CASE \E r : Report(r)
    BY <1>1, <1>3 DEF Report, OnceOK, UsableRuns, Usable, Posting
  <1>4. CASE \E e \in Errors : Fails(frame, e)
    BY <1>1, <1>4, FailsNotPosting DEF OnceOK, UsableRuns, Usable
  <1> QED
    BY <1>2, <1>3, <1>4 DEF Look

LEMMA PostOnce ==
  ASSUME ApiInv, OnceOK, Post
  PROVE  OnceOK'
  <1>1. Posting /\ UNCHANGED <<lag, failed>> /\ RunsOK
    BY DEF Post, Posting, ApiInv
  <1>2. ~Posting'
    BY FailsNotPosting DEF Post, Report, Posting
  <1>3. CASE UNCHANGED runs
    BY <1>1, <1>2, <1>3 DEF OnceOK, UsableRuns, Usable
  <1>4. CASE Len(runs) < MaxRuns /\ runs' = Created
    <2> SUFFICES ASSUME ~lag PROVE OnceOK'
      BY <1>1 DEF OnceOK
    <2>1. /\ \A i \in DOMAIN runs : runs'[i] = runs[i]
          /\ DOMAIN runs' = DOMAIN runs \cup {Len(runs) + 1}
          /\ runs'[Len(runs) + 1].listed
      <3>1. /\ \A i \in DOMAIN runs : runs'[i] = runs[i]
            /\ DOMAIN runs' = DOMAIN runs \cup {Len(runs) + 1}
            /\ runs'[Len(runs) + 1] = [status |-> "active", listed |-> ~lag]
        BY <1>1, <1>4, CreatedRuns
      <3>2. [status |-> "active", listed |-> ~lag].listed = ~lag
        BY Zenon
      <3>3. runs'[Len(runs) + 1].listed = ~lag
        BY <3>1, <3>2, Zenon
      <3> QED
        BY <3>1, <3>3
    <2>2. UsableRuns = {} /\ \A i \in DOMAIN runs : runs[i].listed
      BY <1>1 DEF OnceOK
    <2>3. \A i \in UsableRuns' : i = Len(runs) + 1
      BY <2>1, <2>2 DEF UsableRuns, Usable
    <2> QED
      BY <1>2, <2>1, <2>2, <2>3 DEF OnceOK
  <1> QED
    BY <1>3, <1>4 DEF Post

LEMMA RateLimitOnce ==
  ASSUME ApiInv, OnceOK, RateLimit
  PROVE  OnceOK'
  <1>1. UNCHANGED <<runs, lag>> /\ error \in Errors
    BY DEF RateLimit, github, ApiInv, CallOK
  <1>2. frame \in Frame /\ frame.attempt >= 1 /\ outer \in Frame /\ outer.attempt >= 1
    BY DEF ApiInv, FrameOK
  <1>3. ~Posting'
    <2>1. CASE \E reset \in Resets : Settle(frame, [error EXCEPT !.reset = reset])
      <3>1. PICK reset \in Resets : Settle(frame, [error EXCEPT !.reset = reset])
        BY <2>1
      <3>2. [error EXCEPT !.reset = reset] \in Failure
        BY <1>1, FailuresTyped, LimitsAreNatural DEF Failure
      <3> QED
        BY <1>2, <3>1, <3>2, SettleOutcome, NotPosting
    <2>2. CASE Report("failed")
      BY <2>2 DEF Report, Posting
    <2>3. CASE frame.purpose = "recover" /\ \E e \in Errors : Caught(outer, e)
      BY <1>2, <2>3, CaughtOutcome, NotPosting
    <2> QED
      BY <2>1, <2>2, <2>3 DEF RateLimit, Method
  <1> QED
    BY <1>1, <1>3 DEF OnceOK, UsableRuns, Usable

LEMMA NextOnce ==
  ASSUME ApiInv, OnceOK, [Next]_vars
  PROVE  OnceOK'
  <1>1. CASE Start
    <2>1. ~Posting'
      BY <1>1 DEF Start, Posting, NewFrame
    <2> QED
      BY <1>1, <2>1 DEF Start, github, OnceOK, UsableRuns, Usable
  <1>2. CASE GetPage
    <2>1. ~Posting'
      BY <1>2, FailsNotPosting DEF GetPage, Report, Posting, NewFrame
    <2> QED
      BY <1>2, <2>1 DEF GetPage, github, OnceOK, UsableRuns, Usable
  <1>3. CASE Look \/ Post \/ RateLimit
    BY <1>3, LookOnce, PostOnce, RateLimitOnce
  <1>4. CASE Cancelled
    BY <1>4 DEF Cancelled, Report, github, OnceOK, UsableRuns, Usable, Posting
  <1>5. CASE RunListed \/ RunEnds
    <2>1. UNCHANGED caller /\ RunsOK
      BY <1>5, GitHubMoves DEF ApiInv
    <2>2. PICK i, r : GitHubStep(i, r)
      BY <1>5, GitHubMoves DEF ApiInv
    <2>3. /\ i \in DOMAIN runs /\ DOMAIN runs' = DOMAIN runs
          /\ \A j \in DOMAIN runs : runs'[j] = IF j = i THEN r ELSE runs[j]
      BY <2>1, <2>2, UpdatedRuns DEF GitHubStep, caller
    <2>4. SUFFICES ASSUME ~lag PROVE OnceOK'
      BY <2>1 DEF OnceOK, caller
    <2>5. r.listed /\ runs[i].status = "active"
      BY <2>2, <2>4 DEF OnceOK, GitHubStep
    <2>6. UsableRuns' \subseteq UsableRuns
      BY <2>3, <2>5 DEF UsableRuns, Usable
    <2> QED
      BY <2>1, <2>3, <2>4, <2>5, <2>6 DEF OnceOK, Posting, caller
  <1>6. CASE UNCHANGED vars
    BY <1>6 DEF vars, OnceOK, UsableRuns, Usable, Posting
  <1> QED
    BY <1>1, <1>2, <1>3, <1>4, <1>5, <1>6 DEF Next, Step

(* However answers are lost, commands cancelled and commands run again, GitHub*)
(* never has two runs of the SHA that are active or succeeded, for any limits *)
(* and any number of commands (dispatchWorkflow's look before every POST).    *)
THEOREM NeverTwoUsableRuns == Spec => []UsableRunOnce
  <1>1. Init => OnceOK
    <2> SUFFICES ASSUME Init PROVE OnceOK
      OBVIOUS
    <2>1. \A i \in DOMAIN runs : runs[i] = [status |-> "failure", listed |-> TRUE]
      BY DEF Init
    <2>2. UsableRuns = {}
      BY <2>1 DEF UsableRuns, Usable
    <2> QED
      BY <2>1, <2>2 DEF OnceOK
  <1>2. ApiInv /\ OnceOK /\ [Next]_vars => OnceOK'
    BY NextOnce
  <1>3. OnceOK => UsableRunOnce
    <2> SUFFICES ASSUME OnceOK, ~lag PROVE Cardinality(UsableRuns) <= 1
      BY DEF UsableRunOnce, UsableRuns
    <2>1. CASE UsableRuns = {}
      BY <2>1, FS_EmptySet
    <2>2. CASE \E i : UsableRuns = {i}
      BY <2>2, FS_Singleton
    <2> QED
      BY <2>1, <2>2 DEF OnceOK
  <1> QED
    BY <1>1, <1>2, <1>3, AlwaysApi, PTL DEF Spec

-----------------------------------------------------------------------------
(* A run that had failed when the command started stays failed, so that a run *)
(* the command found or created is not one of them.                           *)
CoverOK ==
  /\ \A i \in failed : runs[i].status = "failure"
  /\ ReportCovered

LEMMA RetryKeepsResult ==
  ASSUME NEW f, Ends(f) \/ ReadsRate(f) \/ Repeats(f)
  PROVE  result' = result \/ result' \in {"deferred", "failed"}
  BY DEF Ends, ReadsRate, Repeats, Report

LEMMA FailsKeepsResult ==
  ASSUME ApiInv, NEW f \in {frame, outer}, NEW e \in Errors, Caught(f, e)
  PROVE  result' = result \/ result' \in {"deferred", "failed"}
  BY CaughtOutcome, RetryKeepsResult DEF ApiInv, FrameOK

LEMMA NextCovered ==
  ASSUME ApiInv, CoverOK, [Next]_vars
  PROVE  CoverOK'
  <1>0. RunsOK /\ failed \subseteq DOMAIN runs
    BY DEF ApiInv, RunsOK
  <1>1. CASE Start
    BY <1>1 DEF Start, github, CoverOK, ReportCovered
  <1>2. CASE GetPage \/ RateLimit
    <2>1. result' = result \/ result' \in {"read", "deferred", "failed"}
      <3>1. CASE GetPage
        BY <3>1, FailsKeepsResult DEF GetPage, Fails, Report
      <3>2. CASE RateLimit
        <4>1. CASE \E reset \in Resets : Settle(frame, [error EXCEPT !.reset = reset])
          BY <4>1 DEF Settle, Report
        <4>2. CASE Report("failed")
          BY <4>2 DEF Report
        <4>3. CASE frame.purpose = "recover" /\ \E e \in Errors : Caught(outer, e)
          BY <4>3, FailsKeepsResult
        <4> QED
          BY <3>2, <4>1, <4>2, <4>3 DEF RateLimit, Method
      <3> QED
        BY <1>2, <3>1, <3>2
    <2> QED
      BY <1>2, <2>1 DEF GetPage, RateLimit, github, CoverOK, ReportCovered
  <1>3. CASE Look
    <2>1. UNCHANGED <<runs, failed>>
      BY <1>3 DEF Look, github
    <2>2. CASE Receipts # {}
      <3>1. PICK i \in DOMAIN runs : Usable(runs[i])
        BY <2>2 DEF Receipts
      <3>2. i \notin failed
        BY <3>1 DEF CoverOK, Usable
      <3> QED
        BY <2>1, <3>1, <3>2 DEF CoverOK, ReportCovered
    <2>3. CASE Receipts = {}
      <3>1. result' = result \/ result' \in {"deferred", "failed"}
        BY <1>3, <2>3, FailsKeepsResult DEF Look, Fails, Report
      <3> QED
        BY <2>1, <3>1 DEF CoverOK, ReportCovered
    <2> QED
      BY <2>2, <2>3
  <1>4. CASE Post
    <2>1. CASE Len(runs) < MaxRuns /\ runs' = Created
      <3>1. UNCHANGED <<lag, failed>>
        BY <1>4 DEF Post
      <3>2. /\ \A i \in DOMAIN runs : runs'[i] = runs[i]
            /\ DOMAIN runs' = DOMAIN runs \cup {Len(runs) + 1}
        BY <1>0, <2>1, <3>1, CreatedRuns
      <3>3. Len(runs) + 1 \notin failed
        BY <1>0, RunsTyped
      <3> QED
        BY <1>0, <3>1, <3>2, <3>3 DEF CoverOK, ReportCovered
    <2>2. CASE \E e \in Errors : Fails(frame, e) /\ UNCHANGED runs
      <3>1. result' = result \/ result' \in {"deferred", "failed"}
        BY <2>2, FailsKeepsResult DEF Fails
      <3> QED
        BY <1>4, <2>2, <3>1 DEF Post, CoverOK, ReportCovered
    <2> QED
      BY <1>4, <2>1, <2>2 DEF Post
  <1>5. CASE Cancelled
    BY <1>5 DEF Cancelled, Report, github, CoverOK, ReportCovered
  <1>6. CASE RunListed \/ RunEnds
    <2>1. UNCHANGED caller
      BY <1>0, <1>6, GitHubMoves
    <2>2. PICK i, r : GitHubStep(i, r)
      BY <1>0, <1>6, GitHubMoves
    <2>3. /\ DOMAIN runs' = DOMAIN runs
          /\ \A j \in DOMAIN runs : runs'[j] = IF j = i THEN r ELSE runs[j]
      BY <1>0, <2>1, <2>2, UpdatedRuns DEF GitHubStep, caller
    <2>4. i \in failed => r.status = "failure"
      BY <2>2 DEF GitHubStep, CoverOK
    <2> QED
      BY <1>0, <2>1, <2>3, <2>4 DEF caller, CoverOK, ReportCovered
  <1>7. CASE UNCHANGED vars
    BY <1>7 DEF vars, CoverOK, ReportCovered
  <1> QED
    BY <1>1, <1>2, <1>3, <1>4, <1>5, <1>6, <1>7 DEF Next, Step

(* A dispatch that reports existing, recovered or dispatched has a run of the *)
(* SHA besides those that had failed before it started, whatever becomes of   *)
(* the answers to its requests (findWorkflowDispatchReceipt).                 *)
THEOREM ReportsAreCovered == Spec => []ReportCovered
  <1>1. Init => CoverOK
    BY DEF Init, CoverOK, ReportCovered
  <1>2. ApiInv /\ CoverOK /\ [Next]_vars => CoverOK'
    BY NextCovered
  <1>3. CoverOK => ReportCovered
    BY DEF CoverOK
  <1> QED
    BY <1>1, <1>2, <1>3, AlwaysApi, PTL DEF Spec
==============================================================================
