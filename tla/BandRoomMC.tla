------------------------------ MODULE BandRoomMC ------------------------------
(***************************************************************************)
(* Instances of BandRoom: every command line, and a room whose last        *)
(* message shows at once, after five polls, or after the Warden's loop has *)
(* ended.                                                                  *)
(***************************************************************************)
EXTENDS BandRoom

\* Every command line main() accepts.
CliScenarios == { sc \in AllScenarios : CliAccepts(sc) }

SomeLags == {0, 5, 6}
=============================================================================
