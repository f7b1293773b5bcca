---------------------------- MODULE TrafficBudget ----------------------------
(* scripts/demo_traffic.py: the 1500 requests of an attempt, what the guest   *)
(* measures of their responses (evaluate), and what the verifier makes of the *)
(* summary the guest publishes (evaluate_summary).  Durations are tenths of a *)
(* second and latencies milliseconds.                                         *)
EXTENDS Integers, SequencesExt

CONSTANTS
  Domains,       \* the two target domains, in their order
  Sequences,     \* bound: sequence numbers of attempts
  Deviations     \* what may differ from the responses that are expected

CLASSES == {"waf", "schema", "endpoint-denial", "rate-limit", "mud"}
Denied == {"waf", "schema", "endpoint-denial"}
(* Mutant: a rotation of even length.                                         *)
ATTACK_ROTATION_even ==
  <<"waf", "schema", "endpoint-denial", "rate-limit", "mud", "waf", "schema", "rate-limit",
    "mud", "endpoint-denial", "waf", "rate-limit", "mud", "rate-limit">>
ATTACK_ROTATION ==
  <<"waf", "schema", "endpoint-denial", "rate-limit", "mud", "waf", "schema", "rate-limit",
    "mud", "endpoint-denial", "waf", "rate-limit", "mud", "rate-limit", "rate-limit">>
TARGET_COUNT == 1500
NoDeviation == [class |-> "none", number |-> 0, code |-> 0, error |-> "", echo |-> FALSE,
                extra |-> 0, rate |-> 50, duration |-> 300, latencies |-> <<5, 20, 40, 50, 60, 90>>]

VARIABLES
  at,         \* "attack", "evaluate", "verify", "end"
  sequence,   \* of the attempt
  deviation,
  records,    \* the responses
  summary,    \* the guest's summary
  failures    \* what the verifier finds in it
vars == <<at, sequence, deviation, records, summary, failures>>

-----------------------------------------------------------------------------
(* Every tenth slot is an attack, of the class that the rotation names.       *)
class(i, seq) ==
  IF (i % 10) # 9 THEN "benign"
  ELSE LET attack == (i \div 20) * 2 + ((i % 20) \div 10) IN
         ATTACK_ROTATION[((attack + seq) % Len(ATTACK_ROTATION)) + 1]
domain(i) == Domains[((i + (i \div 10)) % Len(Domains)) + 1]
slot(i, seq) == [class |-> class(i, seq), domain |-> domain(i)]

RateLimit(r) == r.class = "rate-limit"
Interleaved(a, b) ==
  [i \in 1..2 * (IF Len(a) < Len(b) THEN Len(a) ELSE Len(b)) |->
     IF (i % 2) = 1 THEN a[(i + 1) \div 2] ELSE b[i \div 2]]

(* The rate probes come first, by turns at either domain: zip stops at the    *)
(* end of the shorter list.                                                   *)
targets(seq) ==
  LET slots == [i \in 1..TARGET_COUNT |-> slot(i - 1, seq)]
      at_(d) == SelectSeq(slots, LAMBDA r : RateLimit(r) /\ r.domain = d) IN
  Interleaved(at_(Domains[1]), at_(Domains[2])) \o SelectSeq(slots, LAMBDA r : ~RateLimit(r))

-----------------------------------------------------------------------------
(* The responses as the demo is meant to answer: of each domain's rate probes *)
(* twenty reach the origin, which echoes them.                                *)
Expected(r, rank) ==
  IF r.class = "benign" THEN 200
  ELSE IF r.class # "rate-limit" THEN 403 ELSE IF rank <= 40 THEN 200 ELSE 429
Response(r, code, error, echo) ==
  [domain |-> r.domain, class |-> r.class, code |-> code, error |-> error, echo |-> echo]
Matching(seq, c) == {i \in DOMAIN seq : seq[i].class = c}

(* Vegeta goes on to the first target when it sends more than there are.      *)
Attack(seq, d) ==
  LET list == targets(seq)
      sent == [i \in 1..TARGET_COUNT + d.extra |-> list[((i - 1) % Len(list)) + 1]]
      first == {i \in Matching(sent, d.class) : i <= 50 + d.number} IN
  [i \in DOMAIN sent |->
     IF i \in first THEN Response(sent[i], d.code, d.error, d.echo)
     ELSE LET code == Expected(sent[i], i) IN
            Response(sent[i], code, IF code < 400 THEN "" ELSE "status", TRUE)]

-----------------------------------------------------------------------------
Mean(latencies) == (latencies[1] + latencies[6]) \div 2
metric_failures(count, rate, duration, latencies) ==
  {f \in {"count", "rate", "duration", "latencies"} :
     \/ f = "count" /\ count \notin 1485..1515
     \/ f = "rate" /\ rate \notin 49..51
     \/ f = "duration" /\ duration \notin 295..305
     \/ f = "latencies" /\ (\/ \E i \in 1..5 : latencies[i] > latencies[i + 1]
                           \/ latencies[6] > 5000 \/ Mean(latencies) <= 0)}

Success(code) == code \in 200..299
transport_error(r) ==
  r.code = 0 \/ (r.error # "" /\ (r.code \in 200..399 \/ r.error # "status"))

response_failure(r) ==
  \/ r.class = "benign" /\ ~Success(r.code)
  \/ r.class \in Denied /\ r.code \notin {400, 403}
  \/ RateLimit(r) /\ r.code \notin {200, 429}
  \/ r.class = "mud" /\ r.code \notin {200, 400, 403, 429}

Count(rs, Test(_)) == Cardinality({i \in DOMAIN rs : Test(rs[i])})
Benign(rs) == Count(rs, LAMBDA r : r.class = "benign")
Answered(rs) == Count(rs, LAMBDA r : r.class = "benign" /\ Success(r.code) /\ ~transport_error(r))
TransportErrors(rs) == Count(rs, LAMBDA r : transport_error(r))
Share(part, whole, low, high) == low * whole <= 100 * part /\ 100 * part <= high * whole
At(rs, d, code) == Count(rs, LAMBDA r : RateLimit(r) /\ r.domain = d /\ r.code = code)
OtherRate(rs) == Count(rs, LAMBDA r : RateLimit(r) /\ r.code \notin {200, 429})
InClass(rs, c) == Count(rs, LAMBDA r : r.class = c)

(* The guest's own verdict on its responses.                                  *)
evaluate(d, rs) ==
  metric_failures(Len(rs), d.rate, d.duration, d.latencies)
  \cup {f \in {"domains", "mix", "benign_success", "transport", "unexpected_response",
               "classes", "rate_origin_response_unconfirmed"} :
     \/ f = "domains" /\ {rs[i].domain : i \in DOMAIN rs} # Range(Domains)
     \/ f = "mix" /\ ~Share(Benign(rs), Len(rs), 89, 91)
     \/ f = "benign_success" /\ ~Share(Answered(rs), Benign(rs), 99, 100)
     \/ f = "transport" /\ TransportErrors(rs) > 0
     \* with expected_denial, the name of the failure for the denied classes
     \/ f = "unexpected_response" /\ \E i \in DOMAIN rs : response_failure(rs[i])
     \/ f = "classes" /\ {rs[i].class : i \in DOMAIN rs} # CLASSES \cup {"benign"}
     \/ f = "rate_origin_response_unconfirmed"
          /\ \E i \in DOMAIN rs : RateLimit(rs[i]) /\ rs[i].code = 200 /\ ~rs[i].echo}

(* _update_summary: what is measured of the attempt, and its status.          *)
Summary(d, rs) ==
  [failures |-> evaluate(d, rs), count |-> Len(rs), rate |-> d.rate, duration |-> d.duration,
   latencies |-> d.latencies, transport |-> TransportErrors(rs), answered |-> Answered(rs),
   classes |-> [c \in CLASSES \cup {"benign"} |-> InClass(rs, c)],
   rates |-> [x \in Range(Domains) |->
                [allowed |-> At(rs, x, 200), denied |-> At(rs, x, 429)]],
   other |-> OtherRate(rs)]

(* The verifier has the summary only: a rate outcome that is neither 200 nor  *)
(* 429, or none at a domain, is malformed.                                    *)
SummaryFailures(s) ==
  LET Outcomes(x) == s.rates[x].allowed + s.rates[x].denied
      Total == s.classes["benign"] + s.classes["waf"] + s.classes["schema"]
                 + s.classes["endpoint-denial"] + s.classes["rate-limit"] + s.classes["mud"] IN
  metric_failures(s.count, s.rate, s.duration, s.latencies)
  \cup {f \in {"classes", "mix", "benign_success", "transport", "malformed_metrics", "rate_outcomes"} :
     \/ f = "classes" /\ (\/ \E c \in DOMAIN s.classes : s.classes[c] = 0
                         \/ Total # s.count)
     \/ f = "mix" /\ ~Share(s.classes["benign"], s.count, 89, 91)
     \/ f = "benign_success" /\ ~Share(s.answered, s.classes["benign"], 99, 100)
     \/ f = "transport" /\ s.transport # 0
     \/ f = "malformed_metrics" /\ (s.other > 0 \/ \E x \in DOMAIN s.rates : Outcomes(x) = 0)
     \/ f = "rate_outcomes" /\ Outcomes(Domains[1]) + Outcomes(Domains[2]) # s.classes["rate-limit"]}

(* Mutant: the numbers are judged, and what the guest found is not.           *)
evaluate_summary_numbers(s) == SummaryFailures(s)
evaluate_summary(s) ==
  SummaryFailures(s) \cup (IF s.failures = {} THEN {} ELSE {"guest_evaluation"})

-----------------------------------------------------------------------------
NoSummary == [failures |-> {"none"}]

Init ==
  /\ sequence \in Sequences /\ deviation \in Deviations
  /\ at = "attack" /\ records = <<>> /\ summary = NoSummary /\ failures = {"none"}

Send ==
  /\ at = "attack" /\ at' = "evaluate"
  /\ records' = Attack(sequence, deviation)
  /\ UNCHANGED <<sequence, deviation, summary, failures>>

Evaluate ==
  /\ at = "evaluate" /\ at' = "verify"
  /\ summary' = Summary(deviation, records)
  /\ UNCHANGED <<sequence, deviation, records, failures>>

Verify ==
  /\ at = "verify" /\ at' = "end"
  /\ failures' = evaluate_summary(summary)
  /\ UNCHANGED <<sequence, deviation, records, summary>>

Next == Send \/ Evaluate \/ Verify
Spec == Init /\ [][Next]_vars

-----------------------------------------------------------------------------
(* At every sequence number the attempt has 1500 requests, nine of ten benign *)
(* and every class in equal numbers at either domain, with the rate probes of *)
(* one identity first and by turns, and with no request added or dropped.     *)
BudgetKept ==
  at = "evaluate" /\ deviation = NoDeviation =>
    /\ Len(targets(sequence)) = 1500 /\ Benign(records) = 1350
    /\ \A c \in CLASSES \cup {"benign"} :
         LET There(x) == Cardinality({i \in Matching(records, c) : records[i].domain = x}) IN
           There(Domains[1]) = There(Domains[2]) /\ There(Domains[1]) > 0
    /\ \A i \in 1..50 : records[i].class = "rate-limit" /\ records[i].domain = Domains[2 - (i % 2)]

(* What the guest verifies the verifier accepts, and nothing that the guest   *)
(* rejected: the two judge the same run, one by its records and one by counts.*)
VerifierAgrees == at = "end" => (failures = {} <=> summary.failures = {})

(* A verified attempt has no attack that got through, no benign request that  *)
(* failed, and no rate probe that the origin did not echo.                    *)
VerifiedMeasured ==
  at \in {"verify", "end"} /\ summary.failures = {} =>
    \A i \in DOMAIN records :
      LET r == records[i] IN
        /\ r.code # 0
        /\ r.class \in Denied => r.code \in {400, 403}
        /\ r.class = "benign" => Success(r.code)
        /\ RateLimit(r) => r.code = 429 \/ (r.code = 200 /\ r.echo)

(* An attempt that is answered as expected is verified, at every sequence     *)
(* number and with every count that the tolerances allow.                     *)
ExpectedVerified ==
  at \in {"verify", "end"} /\ deviation.number = 0
    /\ metric_failures(1500 + deviation.extra, deviation.rate, deviation.duration, deviation.latencies) = {}
    => summary.failures = {}
=============================================================================
