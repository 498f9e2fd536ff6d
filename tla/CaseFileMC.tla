----------------------------- MODULE CaseFileMC --------------------------
(* Two of the three branches of the catalog, those that take part in an   *)
(* amendment: the third is logged as they are in the first round.         *)
EXTENDS CaseFile

MCBranches == <<"nis2", "sec">>
=============================================================================
