-------------------------- MODULE MCTrafficRunner ---------------------------
(* TrafficRunner on three small instances, which the counters begin in:    *)
(* two attempts, one of which may be killed, and a verifier that watches;  *)
(* two attempts and two commands while the configuration is replaced;      *)
(* three attempts that race.                                               *)
EXTENDS TrafficRunner

Begun(cycles, edits, kills, commands, readers) ==
  [cycles |-> cycles, edits |-> edits, kills |-> kills, commands |-> commands,
   readers |-> readers]

MCSpent == {Begun(1, 1, 0, 1, 0), Begun(1, 0, 1, 0, 1), Begun(0, 1, 1, 1, 1)}
=============================================================================
