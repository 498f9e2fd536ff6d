------------------------------ MODULE BandCalls ------------------------------
(***************************************************************************)
(* One HTTP call of an agent to the Band service, as                       *)
(* BandAgentShell._call makes it (shell/band_agent_shell.py): a bounded    *)
(* retry of the transient failures.  The network may drop a request,       *)
(* deliver it and lose the reply, or have the service refuse it; the       *)
(* client cannot tell the first two apart.                                 *)
(*                                                                         *)
(* The calls are steps of the machine that extends this module: pc says    *)
(* which call the client is in.                                            *)
(***************************************************************************)
EXTENDS Naturals

CONSTANTS
  AttemptLimits,   \* max_attempts a client may be built with: 1, 3 when live
  MaxFaults        \* bound: how many calls the network may spoil in a run

ASSUME CallsAssumption == AttemptLimits \subseteq Nat \ {0} /\ MaxFaults \in Nat

VARIABLES
  pc,             \* the call, or the local work, the client is in
  attempt,        \* failed attempts of the call so far
  faults,         \* calls the network has spoiled
  max_attempts,   \* max_attempts of the client
  blind           \* may the calls that read the room fail?

setup    == <<max_attempts, blind>>
callVars == <<pc, attempt, faults, setup>>

CallsInit ==
  /\ attempt = 0 /\ faults = 0
  /\ max_attempts \in AttemptLimits /\ blind \in BOOLEAN

\* No call is repeated behind the caller's back, and the room can be read.
Sighted == max_attempts = 1 /\ ~blind

\* The service did the work and the client got its answer.
Answered(Effect, Ok) ==
  /\ Effect /\ Ok
  /\ attempt' = 0 /\ UNCHANGED faults

\* call_with_retry: a transient failure is tried again while attempts are left.
AgainOrGiveUp(GivesUp) ==
  IF attempt + 1 < max_attempts
    THEN attempt' = attempt + 1 /\ UNCHANGED pc
    ELSE attempt' = 0 /\ GivesUp

\* A transport error, with or without the effect, or a 429/5xx without it.
Spoiled(Effect, NoEffect, GivesUp) ==
  /\ faults < MaxFaults /\ faults' = faults + 1
  /\ Effect \/ NoEffect
  /\ AgainOrGiveUp(GivesUp)

\* A 4xx is terminal at once.
Refused(NoEffect, GivesUp) ==
  /\ faults < MaxFaults /\ faults' = faults + 1
  /\ NoEffect
  /\ attempt' = 0 /\ GivesUp

\* The whole call: Effect and NoEffect say what becomes of the service, Ok and
\* GivesUp where the client goes.
Call(Effect, NoEffect, Ok, GivesUp) ==
  /\ \/ Answered(Effect, Ok)
     \/ Spoiled(Effect, NoEffect, GivesUp)
     \/ Refused(NoEffect, GivesUp)
  /\ UNCHANGED setup

\* Fault: the read shows a part of the room that does not hold our key.
ReadRoom_Partial(landed, Keep, Found, NotFound) ==
  /\ Answered(Keep, NotFound) \/ (landed /\ Answered(Keep, Found))
  /\ UNCHANGED setup

\* A read of the room that tells whether our key is in it: context() turns every
\* failure into an empty room.
ReadRoom(landed, Keep, Found, NotFound) ==
  /\ \/ Answered(Keep, IF landed THEN Found ELSE NotFound)
     \/ blind /\ (Spoiled(Keep, Keep, NotFound) \/ Refused(Keep, NotFound))
  /\ UNCHANGED setup

\* A step of the client that makes no call.
Local == UNCHANGED <<attempt, faults, setup>>
=============================================================================
