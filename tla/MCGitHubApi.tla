---------------------------- MODULE MCGitHubApi ----------------------------
(* An outage, a lost connection (fetch reports its code only in the cause), a *)
(* 304, a secondary limit with and without Retry-After, a primary limit with  *)
(* and without a reset, and an error that is not worth a retry.               *)
EXTENDS GitHubApi

E(status, code, says, retryAfter, remaining, reset) ==
  [status |-> status, code |-> code, says |-> says, retryAfter |-> retryAfter,
   remaining |-> remaining, reset |-> reset]
MCErrors ==
  { E(503, "", "", -1, -1, -1), E(0, "", "", -1, -1, -1),
    E(304, "GITHUB_UNEXPECTED_NOT_MODIFIED", "", -1, -1, -1),
    E(403, "", "secondary", 0, -1, -1), E(429, "", "", -1, -1, -1),
    E(403, "", "primary", -1, 0, 25), E(403, "", "primary", -1, -1, -1),
    E(404, "", "", -1, -1, -1) }
MCJitters == {3}
MCResets == {-20, 600}

(* Two commands where runs are listed at once, and one where they are not.    *)
MCInit == Init /\ starts = (IF lag THEN 1 ELSE 0)
MCSpec == MCInit /\ [][Next]_vars /\ WF_vars(Step)
=============================================================================
