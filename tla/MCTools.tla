------------------------------ MODULE MCTools ------------------------------
(***************************************************************************)
(* The small tools in one instance: the values of their sizes and tables.  *)
(***************************************************************************)
EXTENDS Tools

CONSTANTS host, second, a1, p1, ns, u1, u2, w1, w2, d1, d2

MCHosts == <<host>>
MCTwoHosts == <<host, second>>
MCSites == <<"a.example", "b.example">>
MCOffsets == 0..14

(* Of the attempts: more and fewer requests, slow or short runs, and for   *)
(* each class responses that it may and may not have, twenty of them or    *)
(* one.                                                                    *)
Usual == [class |-> "none", number |-> 0, code |-> 0, error |-> "", echo |-> FALSE,
          extra |-> 0, rate |-> 50, duration |-> 300, latencies |-> <<5, 20, 40, 50, 60, 90>>]
But(f, v) == [Usual EXCEPT ![f] = v]
Answer(c, n, code, error, echo) ==
  [Usual EXCEPT !.class = c, !.number = n, !.code = code, !.error = error, !.echo = echo]
Error(code) == IF code = 0 THEN "dial" ELSE IF code < 400 THEN "" ELSE "status"
MCDeviations ==
  {Usual, But("rate", 48), But("duration", 306), But("latencies", <<5, 20, 40, 30, 60, 90>>),
   But("latencies", <<5, 20, 40, 50, 60, 5001>>)}
  \cup {But("extra", n) : n \in {-16, -15, 1, 15, 16}}
  \cup {Answer(c, 20, code, Error(code), TRUE) :
          c \in {"benign", "waf", "schema", "endpoint-denial", "rate-limit", "mud"},
          code \in {0, 200, 400, 403, 429, 500}}
  \cup {Answer("benign", 10, 500, "status", TRUE), Answer("rate-limit", 20, 200, "", FALSE),
        Answer("waf", 20, 403, "other", TRUE), Answer("rate-limit", -49, 429, "status", TRUE)}

(* The harnesses: whether a variant has an object besides the load         *)
(* balancer, a write-only secret, or is only planned. The mitigation that  *)
(* mud-matrix.sh imports with every variant shares the load balancer's     *)
(* fate. A failed `state rm` ends the variant, but import_one of           *)
(* api-definition-matrix.sh takes the address for one that is not there,   *)
(* and api-discovery-matrix.sh does not look, for the second object.       *)
Row(name, refs, secret, skip) == [name |-> name, refs |-> refs, secret |-> secret, skip |-> skip]
Canonical == Row("canonical-restore", {}, FALSE, FALSE)
MCManifests ==
  [h \in {"waf", "mud", "api_discovery", "api_definition"} |->
     CASE h = "waf" -> <<Row("pair", {}, FALSE, FALSE), Canonical>>
       [] h = "mud" -> <<Row("user identification", {"ref"}, FALSE, FALSE), Canonical>>
       [] h = "api_discovery" -> <<Row("crawler", {"ref"}, TRUE, FALSE), Canonical>>
       [] h = "api_definition" ->
            <<Row("code", {"ref"}, TRUE, FALSE), Row("blindfold", {"ref"}, TRUE, TRUE), Canonical>>]
MCRmFailures ==
  [h \in DOMAIN MCManifests |->
     [a \in {"lb", "ref"} |->
        IF h = "api_definition" THEN "pass"
        ELSE IF h = "api_discovery" /\ a = "ref" THEN "import" ELSE "fail"]]
=============================================================================
