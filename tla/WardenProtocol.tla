--------------------------- MODULE WardenProtocol ---------------------------
(***************************************************************************)
(* The typed protocol of one filing branch, as warden/state_machine.py     *)
(* defines it: the states, the events, the transition table, the authority *)
(* table and the admission rule of ProtocolStateMachine.apply.             *)
(*                                                                         *)
(* The module has no variables: a machine that drives branches extends it  *)
(* and asks Admits and NextState.                                          *)
(***************************************************************************)

State == {"initiated", "fact_record_ready", "drafting", "draft_submitted",
          "contradiction_checked", "awaiting_human_signoff", "released",
          "amending", "suppressed", "failed"}

Event == {"fact_record_posted", "draft_started", "draft_posted",
          "diff_passed", "diff_blocked", "signoff_opened", "human_released",
          "suppress", "clock_breached", "fact_amended"}

TERMINAL_STATES == {"suppressed", "failed"}
REOPENABLE_STATES == {"released"}

\* The explicit rows of the transition table: <<from, event, to>>.
ProtocolRows ==
  { <<"initiated", "fact_record_posted", "fact_record_ready">>,
    <<"initiated", "suppress", "suppressed">>,
    <<"fact_record_ready", "draft_started", "drafting">>,
    <<"fact_record_ready", "suppress", "suppressed">>,
    <<"drafting", "draft_posted", "draft_submitted">>,
    <<"drafting", "suppress", "suppressed">>,
    <<"draft_submitted", "diff_passed", "contradiction_checked">>,
    <<"draft_submitted", "diff_blocked", "drafting">>,
    <<"contradiction_checked", "signoff_opened", "awaiting_human_signoff">>,
    <<"contradiction_checked", "diff_blocked", "drafting">>,
    <<"awaiting_human_signoff", "human_released", "released">>,
    <<"awaiting_human_signoff", "diff_blocked", "drafting">>,
    <<"released", "fact_amended", "amending">>,
    <<"amending", "draft_posted", "draft_submitted">> }

\* The generated rows: a clock may breach wherever a clock still runs.
BreachRows ==
  { <<s, "clock_breached", "failed">> :
      s \in State \ (TERMINAL_STATES \cup REOPENABLE_STATES) }

TRANSITIONS == ProtocolRows \cup BreachRows

\* Which role may emit which event.
EVENT_AUTHORITY ==
  [ e \in Event |->
      CASE e \in {"fact_record_posted", "fact_amended"} -> {"triage"}
        [] e \in {"draft_started", "draft_posted"} -> {"drafter"}
        [] e = "human_released" -> {"human_owner", "human_admin"}
        [] e = "suppress" -> {"materiality"}
        [] OTHER -> {"warden"} ]

Roles == UNION { EVENT_AUTHORITY[e] : e \in Event }

\* A caller may leave the role out: apply() then skips the authority check.
NoRole == "unattributed"

Authorised(e, role) == role = NoRole \/ role \in EVENT_AUTHORITY[e]

\* apply() admits the event and takes the branch from s to t: the authority
\* check comes first, then absorption, then the table.
Moves(s, e, role, t) ==
  /\ Authorised(e, role)
  /\ s \notin TERMINAL_STATES
  /\ <<s, e, t>> \in TRANSITIONS

Admits(s, e, role) == \E t \in State : Moves(s, e, role, t)

\* Where apply() leaves the branch: a rejected event does not move it.
NextState(s, e, role) ==
  IF Admits(s, e, role) THEN CHOOSE t \in State : Moves(s, e, role, t) ELSE s

=============================================================================
