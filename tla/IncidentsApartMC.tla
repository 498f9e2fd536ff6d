--------------------------- MODULE IncidentsApartMC ---------------------------
(***************************************************************************)
(* Two or three incidents of three branches, one drafter killed or none.   *)
(***************************************************************************)
EXTENDS IncidentsApart

SomeBranches == <<"nis2", "sec", "dora">>
TwoIncidents == {"inc-8842", "inc-9001"}
SomeKills == {<<"inc-9001", "sec">>, <<"inc-8842", "nis2">>, <<"none", "none">>}
=============================================================================
