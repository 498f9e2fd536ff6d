------------------------ MODULE GovernanceServiceMC ------------------------
(* One captured run of an entity, two posted incidents, of which one belongs *)
(* to another entity, and two pending records, one due after the run.        *)
EXTENDS GovernanceService

MCBranches == <<"nis2", "sec">>
MCNames == 1..3
MCCaptures == 2 :> "normal"
MCIntake == {[key |-> 0, deadline |-> 11], [key |-> 4, deadline |-> 10]}
MCEntities == 2 :> "bank" @@ 3 :> "markets"
=============================================================================
