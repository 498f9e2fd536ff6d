--------------------------- MODULE ExaminerPacketMC ---------------------------
(***************************************************************************)
(* Instances of ExaminerPacket: every command line, and a model that slips *)
(* in one filing: of a startup branch, of a recruited one, or of the one   *)
(* that is sent back.                                                      *)
(***************************************************************************)
EXTENDS ExaminerPacket

CliScenarios == { sc \in AllScenarios : CliAccepts(sc) }

OneSlip ==
  {<<"nis2", "none">>, <<"dora", "figure">>, <<"sec", "field">>, <<"uk", "actor">>}
=============================================================================
