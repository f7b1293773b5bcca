-------------------------- MODULE MCTelemetryPages --------------------------
(* TelemetryPages on a small instance: records are pairs of a time stamp   *)
(* and a number; 0 to 4 seconds, two records a second at most.             *)
EXTENDS TelemetryPages

MCRecord == {<<0, 1>>, <<1, 1>>, <<2, 1>>, <<2, 2>>, <<4, 1>>}
MCTimeOf == [r \in MCRecord |-> r[1]]
MCNewer ==
  {p \in MCRecord \X MCRecord :
     p[1][1] > p[2][1] \/ (p[1][1] = p[2][1] /\ p[1][2] > p[2][2])}
=============================================================================
