------------------------------ MODULE GitHubApi ------------------------------
(* scripts/github-api-resilience.cjs: one command, `get ENDPOINT --paginate`  *)
(* or `dispatch REPOSITORY SHA`, its requests with their retries, and the     *)
(* workflow runs of that SHA at GitHub.  A dispatch first looks for a run of  *)
(* the SHA that is active or succeeded, posts when there is none, and looks   *)
(* again before it posts again.  Time is seconds of sleep; GitHub's answers   *)
(* are a set of errors, and a POST may be carried out and its answer lost.    *)
EXTENDS Integers, Sequences, FiniteSets, FiniteSetsExt

CONSTANTS
  Errors,          \* what a request may fail with
  MaxAttempts, Budget,                  \* retryGitHub's limits for a request,
  ReceiptAttempts, ReceiptBudget,       \* and for a look for a run
  Jitters,         \* the values of floor(random() * (jitterSeconds + 1))
  Resets,          \* seconds to the reset that /rate_limit may report
  Modes,           \* the commands that are run
  MaxStarts,       \* bound: how often the command is run
  MaxRuns,         \* bound: runs of the SHA at GitHub
  MaxPages         \* bound: pages of a listing

Unknown == -1      \* a header the answer does not have, or cannot be read

ASSUME LimitsAreNatural ==
  /\ MaxAttempts \in Nat \ {0} /\ ReceiptAttempts \in Nat \ {0}
  /\ Budget \in Nat /\ ReceiptBudget \in Nat
  /\ Jitters \subseteq Nat /\ Resets \subseteq Int
  /\ MaxStarts \in Nat /\ MaxRuns \in Nat \ {0} /\ MaxPages \in Nat \ {0}
  /\ Modes \subseteq {"get", "dispatch"}
  /\ Errors \subseteq [status : Nat, code : STRING, says : STRING,
                       retryAfter : Int, remaining : Int, reset : Int]

VARIABLES
  at,      \* "idle", "request", or "rate" while the rate limit is read
  frame,   \* the request in progress: purpose, page, attempt, waited
  outer,   \* the POST that a look for a run interrupts
  error,   \* the error whose cooldown is being settled
  result,  \* what the last command reported
  starts, slept, posts,  \* of this command: number, sleep, POSTs sent (capped)
  runs,    \* the runs of the SHA, oldest first: [status, listed]
  lag,     \* whether GitHub lists a new run only after a while
  failed   \* the runs that had failed when the command started
vars == <<at, frame, outer, error, result, starts, slept, posts, runs, lag, failed>>
github == <<runs, lag>>
caller == <<at, frame, outer, error, result, starts, slept, posts, lag, failed>>

-----------------------------------------------------------------------------
Transient(e) ==
  \/ e.status = 304 /\ e.code = "GITHUB_UNEXPECTED_NOT_MODIFIED"
  \/ e.status \in {408, 429, 500, 502, 503, 504}
  \/ e.code \in {"ECONNRESET", "ETIMEDOUT", "EAI_AGAIN", "ENETUNREACH"}

Classify(e) ==
  IF e.retryAfter # Unknown \/ e.says = "secondary" \/ (e.status = 429 /\ e.remaining # 0)
  THEN "secondary"
  ELSE IF e.remaining = 0 \/ e.says = "primary" THEN "primary"
  ELSE IF Transient(e) THEN "transient" ELSE "fatal"

AtLeast(low, n) == IF n < low THEN low ELSE n
AtMost(high, n) == IF n > high THEN high ELSE n

(* first * 2^(n - 1), at most high: both steps pass their limit at the fifth. *)
Backoff(first, high, n) == IF n > 4 THEN high ELSE AtMost(high, first * <<1, 2, 4, 8>>[n])

(* The sleep after attempt n, before jitter.  A 429 with remaining = 0 that   *)
(* carries no reset is primary; Retry-After wins over the exponential step.   *)
Cooldown(e, n) ==
  LET kind == Classify(e) IN
    IF kind = "primary"
    THEN IF e.reset = Unknown THEN 60 ELSE AtLeast(1, e.reset + 5)
    ELSE IF kind = "secondary"
    THEN IF e.retryAfter # Unknown THEN e.retryAfter ELSE Backoff(60, 600, n)
    ELSE Backoff(5, 60, n)

-----------------------------------------------------------------------------
Looks(f) == f.purpose \in {"receipt", "recover"}
Attempts(f) == IF Looks(f) THEN ReceiptAttempts ELSE MaxAttempts
WaitBudget(f) == IF Looks(f) THEN ReceiptBudget ELSE Budget
Method(f) == IF f.purpose = "post" THEN "POST" ELSE "GET"

NewFrame(purpose, page) ==
  [purpose |-> purpose, attempt |-> 1, waited |-> 0, page |-> page]
NoFrame == NewFrame("none", 0)
NoError == [status |-> 0, code |-> "", says |-> "", retryAfter |-> Unknown,
            remaining |-> Unknown, reset |-> Unknown]
NotFound == [NoError EXCEPT !.status = 404]

Report(r) ==
  /\ at' = "idle" /\ result' = r
  /\ frame' = NoFrame /\ outer' = NoFrame /\ error' = NoError

Retried_blind(f) == frame' = f /\ UNCHANGED outer
(* The request that follows the sleep: a POST is preceded by a look.          *)
Retried(f) ==
  IF f.purpose = "post"
  THEN frame' = NewFrame("recover", 0) /\ outer' = f
  ELSE frame' = f /\ UNCHANGED outer

Exhausted_each(f, wait) == f.attempt >= Attempts(f) \/ wait > WaitBudget(f)
Exhausted(f, wait) == f.attempt >= Attempts(f) \/ f.waited + wait > WaitBudget(f)

(* A GitHubRetryDeferredError ends the command with status 84, also from a    *)
(* look inside a POST, whose retryGitHub classifies it as fatal.              *)
Settle(f, e) ==
  \E jitter \in Jitters :
    LET wait == AtLeast(0, Cooldown(e, f.attempt) + jitter) IN
      IF Exhausted(f, wait)
      THEN Report("deferred") /\ UNCHANGED slept
      ELSE /\ Retried([f EXCEPT !.attempt = @ + 1, !.waited = @ + wait])
           /\ at' = "request" /\ error' = NoError
           /\ slept' = slept + wait
           /\ UNCHANGED result

(* retryGitHub's catch, in the request of frame f.                            *)
Caught(f, e) ==
  IF Classify(e) = "fatal"
  THEN Report("failed") /\ UNCHANGED slept
  ELSE IF Classify(e) = "primary" /\ e.reset = Unknown
  THEN /\ at' = "rate" /\ error' = e /\ frame' = f
       /\ UNCHANGED <<outer, result, slept>>
  ELSE Settle(f, e)

NotModified(e) == e.code = "GITHUB_UNEXPECTED_NOT_MODIFIED"

(* Only a GET is answered 304 (it makes the later URLs of the request fresh). *)
Fails(f, e) ==
  /\ NotModified(e) => Method(f) = "GET"
  /\ Caught(f, e)

Usable_any(r) == r.status \in {"active", "success", "failure"}
Usable(r) == r.status \in {"active", "success"}
Receipts == {i \in DOMAIN runs : runs[i].listed /\ Usable(runs[i])}

-----------------------------------------------------------------------------
Init ==
  /\ at = "idle" /\ frame = NoFrame /\ outer = NoFrame /\ error = NoError
  /\ result = "none" /\ starts \in 0..MaxStarts /\ slept = 0 /\ posts = 0
  /\ failed = {}
  \* the runs that earlier commands left
  /\ runs \in {<<>>, <<[status |-> "failure", listed |-> TRUE]>>}
  /\ lag \in BOOLEAN

Start ==
  /\ at = "idle" /\ starts < MaxStarts
  /\ \E mode \in Modes :
       frame' = IF mode = "get" THEN NewFrame("get", 1) ELSE NewFrame("receipt", 0)
  /\ at' = "request" /\ result' = "none"
  /\ starts' = starts + 1 /\ slept' = 0 /\ posts' = 0
  /\ failed' = {i \in DOMAIN runs : runs[i].status = "failure"}
  /\ UNCHANGED <<outer, error, github>>

(* A page of a GET: the last one, or one with a link to the next.             *)
GetPage ==
  /\ at = "request" /\ frame.purpose = "get"
  /\ \/ Report("read") /\ UNCHANGED slept
     \/ /\ frame.page < MaxPages
        /\ frame' = NewFrame("get", frame.page + 1)
        /\ UNCHANGED <<at, outer, error, result, slept>>
     \/ \E e \in Errors : Fails(frame, e)
  /\ UNCHANGED <<starts, posts, github, failed>>

AfterLook == IF frame.purpose = "receipt" THEN NewFrame("post", 0) ELSE outer

(* findWorkflowDispatchReceipt, before the first POST and before each later   *)
(* one.  An error of a look inside a POST is the POST's own error, and an     *)
(* answer that is not a listing ends both.                                    *)
Look ==
  /\ at = "request" /\ Looks(frame)
  /\ \/ /\ Receipts # {}
        /\ Report(IF frame.purpose = "receipt" THEN "existing" ELSE "recovered")
        /\ UNCHANGED slept
     \/ /\ Receipts = {}
        /\ frame' = AfterLook
        /\ outer' = NoFrame
        /\ UNCHANGED <<at, error, result, slept>>
     \/ Report("failed") /\ UNCHANGED slept
     \/ \E e \in Errors : Fails(frame, e)
  /\ UNCHANGED <<starts, posts, github, failed>>

Created == Append(runs, [status |-> "active", listed |-> ~lag])

(* A POST that GitHub carried out may still be answered with a 5xx, or its    *)
(* answer may be lost.                                                        *)
Ambiguous(e) == e.status = 0 \/ e.status >= 500

Post ==
  /\ at = "request" /\ frame.purpose = "post"
  /\ posts' = AtMost(MaxAttempts + 1, posts + 1)
  /\ \/ /\ Len(runs) < MaxRuns /\ runs' = Created
        /\ Report("dispatched") /\ UNCHANGED slept
     \/ \E e \in Errors :
          /\ Fails(frame, e)
          /\ \/ UNCHANGED runs
             \/ Ambiguous(e) /\ Len(runs) < MaxRuns /\ runs' = Created
  /\ UNCHANGED <<starts, lag, failed>>

(* Mutant: a primary limit of the read itself is waited for by reading again. *)
RateLimit_again ==
  /\ at = "rate"
  /\ \/ /\ Method(frame) = "GET"
        /\ \E reset \in Resets : Settle(frame, [error EXCEPT !.reset = reset])
     \/ \E e \in Errors :
          IF Classify(e) = "primary"
          THEN error' = e /\ UNCHANGED <<at, frame, outer, result, slept>>
          ELSE Report("failed") /\ UNCHANGED slept
  /\ UNCHANGED <<starts, posts, github, failed>>

(* readPrimaryRateLimit: requestPage sends it with the method of the request  *)
(* it belongs to, and GitHub has no POST /rate_limit.  A success makes the    *)
(* next URL the plain one again.  Its own error leaves retryGitHub: it ends   *)
(* the command, or is the POST's error when it was in a look inside a POST.   *)
RateLimit ==
  /\ at = "rate"
  /\ \/ /\ Method(frame) = "GET"
        /\ \E reset \in Resets : Settle(frame, [error EXCEPT !.reset = reset])
     \/ \E e \in (IF Method(frame) = "POST" THEN {NotFound} ELSE Errors) :
          IF frame.purpose = "recover"
          THEN Caught(outer, e)
          ELSE Report("failed") /\ UNCHANGED slept
  /\ UNCHANGED <<starts, posts, github, failed>>

(* The job that runs the command is cancelled.                                *)
Cancelled ==
  /\ at # "idle" /\ Report("cancelled")
  /\ UNCHANGED <<starts, slept, posts, github, failed>>

RunListed ==
  /\ \E i \in DOMAIN runs : ~runs[i].listed /\ runs' = [runs EXCEPT ![i].listed = TRUE]
  /\ UNCHANGED caller

RunEnds ==
  /\ \E i \in DOMAIN runs, status \in {"success", "failure"} :
       runs[i].status = "active" /\ runs' = [runs EXCEPT ![i].status = status]
  /\ UNCHANGED caller

Step == GetPage \/ Look \/ Post \/ RateLimit
Next == Start \/ Step \/ Cancelled \/ RunListed \/ RunEnds
Spec == Init /\ [][Next]_vars
(* Node runs the command: a request is answered or fails, and a sleep ends.   *)
FairSpec == Spec /\ WF_vars(Step)

-----------------------------------------------------------------------------
TypeOK ==
  LET Frame == [purpose : {"none", "get", "receipt", "post", "recover"}, page : 0..MaxPages,
                attempt : Nat, waited : Nat] IN
  /\ at \in {"idle", "request", "rate"}
  /\ frame \in Frame /\ outer \in Frame
  /\ error = NoError \/ (error \in Errors /\ Classify(error) = "primary" /\ at = "rate")
  /\ result \in {"none", "read", "existing", "recovered", "dispatched",
                 "deferred", "failed", "cancelled"}
  /\ starts \in 0..MaxStarts /\ slept \in Nat /\ posts \in Nat
  /\ lag \in BOOLEAN
  /\ Len(runs) <= MaxRuns /\ failed \subseteq DOMAIN runs
  /\ \A i \in DOMAIN runs : runs[i].status \in {"active", "success", "failure"}
  /\ (frame.purpose = "recover") => (outer.purpose = "post" /\ outer.attempt > 1)

(* However answers are lost and commands are cancelled and run again, a SHA   *)
(* never has two runs that are active or succeeded, where new runs are listed *)
(* at once: what is looked up before each POST covers every POST before it.   *)
UsableRunOnce == ~lag => Cardinality({i \in DOMAIN runs : Usable(runs[i])}) <= 1

(* A dispatch that reports existing, recovered or dispatched has a run of the *)
(* SHA besides those that had failed before it started.                       *)
ReportCovered ==
  result \in {"existing", "recovered", "dispatched"} => DOMAIN runs \ failed # {}

(* A request and the looks inside it have a budget each: a dispatch never     *)
(* sleeps longer than all of them, and a GET not longer than its pages'.      *)
SleepBounded ==
  /\ frame.purpose = "get" => slept <= frame.page * Budget
  /\ frame.purpose = "receipt" => slept <= ReceiptBudget
  /\ frame.purpose = "post" => slept <= Budget + frame.attempt * ReceiptBudget
  /\ frame.purpose = "recover" => slept <= Budget + outer.attempt * ReceiptBudget
  /\ posts <= MaxAttempts

(* The types and the waits, which bound each other.                           *)
Inv == TypeOK /\ SleepBounded

(* A command ends, whatever GitHub answers and however it bounds its waits.   *)
CommandEnds == (at # "idle") ~> (at = "idle")

(* The rate limit is read with GET /rate_limit, the route the code asserts.   *)
RateLimitRead == at = "rate" => Method(frame) = "GET"
=============================================================================
