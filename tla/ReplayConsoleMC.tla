-------------------------- MODULE ReplayConsoleMC --------------------------
(* Two captured runs: one with a contradiction and an amendment, the other
   with the chaos beat and a log that is not the one that was sealed. *)
EXTENDS ReplayConsole

CONSTANTS s1, s2

MCScenarios == {s1, s2}
MCBeats == [s \in MCScenarios |-> IF s = s1 THEN {"contradiction", "reconciliation"} ELSE {"chaos"}]
MCDefault == s1
MCAltered == {s2}
MCGates == [s \in MCScenarios |-> IF s = s1 THEN 2 ELSE 1]
=============================================================================
