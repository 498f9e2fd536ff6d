-------------------------- MODULE ConcurrentIncidents --------------------------
(***************************************************************************)
(* Several incidents in one Warden (floor/run_floor.py run_concurrent):    *)
(* each is a stream of steps, and a scheduler takes the next step of any   *)
(* of them.  They share the state machine, the idempotency ledger, the     *)
(* clocks and the release lock; what keeps them apart is the name of the   *)
(* incident in every key.                                                  *)
(***************************************************************************)
EXTENDS Naturals, Sequences, FiniteSets, WardenProtocol

CONSTANTS Incidents,    \* the names of the incidents
          BranchOrder,  \* the branches of each, in the order they are walked
          Kills         \* the drafters that may be killed: <<incident, branch>>

Branches == { BranchOrder[n] : n \in DOMAIN BranchOrder }

ASSUME ConcurrentAssumption ==
  /\ BranchOrder \in Seq(STRING)
  /\ "factrecord" \notin Branches

VARIABLES
  at,        \* how many steps of each incident were taken
  kill,      \* the drafter that is killed in this run
  clocked,   \* the filings whose statutory clock runs
  state,     \* the state of every filing
  recorded,  \* the ledger: how often the work under a key was recorded
  keys,      \* the release lock: who signed for each filing
  report     \* what run_concurrent returns

incidentVars == <<at, kill, clocked, state, recorded, keys, report>>

\* incident.correlation_id(branch): a filing is named by both.
Filings == Incidents \X Branches

FactRecordKey(i) == <<"factrecord", i>>

\* Fault: the key of a draft names the incident of the module, not its own.
DraftKey_Global(i, b) == <<b, CHOOSE j \in Incidents : TRUE>>

DraftKey(i, b) == <<b, i>>

Keys == (Branches \cup {"factrecord"}) \X Incidents
NoReport == [done |-> FALSE, states |-> <<>>, ledger |-> <<>>]

REQUIRED_ROLES == {"head_of_ir", "general_counsel"}
CONCURRENT_SIGNERS == {"general_counsel", "head_of_ir"}

\* The steps of every incident: <<operation, branch>>.
Stream ==
  <<<<"clocks", "all">>, <<"fact_record", "all">>>>
    \o [n \in DOMAIN BranchOrder |-> <<"draft", BranchOrder[n]>>]
    \o [n \in DOMAIN BranchOrder |-> <<"diff", BranchOrder[n]>>]
    \o [n \in DOMAIN BranchOrder |-> <<"release", BranchOrder[n]>>]

Triage(s, e)  == NextState(s, e, "triage")
Drafter(s, e) == NextState(s, e, "drafter")
Warden(s, e)  == NextState(s, e, "warden")
Human(s, e)   == NextState(s, e, "human_owner")

IncidentsInit ==
  /\ at = [i \in Incidents |-> 0]
  /\ kill \in Kills
  /\ clocked = {}
  /\ state = [c \in Filings |-> "initiated"]
  /\ recorded = [k \in Keys |-> 0]
  /\ keys = [c \in Filings |-> {}]
  /\ report = NoReport
-----------------------------------------------------------------------------
\* The scheduler takes the next step of incident i: op on branch b.
Takes(i, op, b) ==
  /\ ~report.done
  /\ at[i] < Len(Stream) /\ Stream[at[i] + 1] = <<op, b>>
  /\ at' = [at EXCEPT ![i] = at[i] + 1]
  /\ UNCHANGED <<kill, report>>

StartClocks(i) ==
  /\ Takes(i, "clocks", "all")
  /\ clocked' = clocked \cup ({i} \X Branches)
  /\ UNCHANGED <<state, recorded, keys>>

\* Triage posts the facts to every branch of the incident, and records it once.
FactRecordPosted(i) ==
  /\ Takes(i, "fact_record", "all")
  /\ state' = [c \in Filings |->
                 IF c[1] = i THEN Triage(state[c], "fact_record_posted") ELSE state[c]]
  /\ recorded' = [recorded EXCEPT ![FactRecordKey(i)] = recorded[FactRecordKey(i)] + 1]
  /\ UNCHANGED <<clocked, keys>>

\* The drafter that is killed between its post and its mark records the same
\* work again when it comes back: the ledger drops the second attempt.
Attempts(i, b) == IF kill = <<i, b>> THEN 2 ELSE 1

Draft(i, b) ==
  /\ Takes(i, "draft", b)
  /\ state' = [state EXCEPT ![<<i, b>>] =
                 Drafter(Drafter(state[<<i, b>>], "draft_started"), "draft_posted")]
  /\ recorded' = [recorded EXCEPT ![DraftKey(i, b)] =
                    recorded[DraftKey(i, b)] + Attempts(i, b)]
  /\ UNCHANGED <<clocked, keys>>

DiffPass(i, b) ==
  /\ Takes(i, "diff", b)
  /\ state' = [state EXCEPT ![<<i, b>>] = Warden(state[<<i, b>>], "diff_passed")]
  /\ UNCHANGED <<clocked, recorded, keys>>

\* gate.can_release, once both humans have signed.
Turned(signed) == REQUIRED_ROLES \subseteq signed

\* Signoff opens, both humans sign, and the filing is released.
ReleaseFiling(i, b) ==
  /\ Takes(i, "release", b)
  /\ LET signed == keys[<<i, b>>] \cup CONCURRENT_SIGNERS
         opened == Warden(state[<<i, b>>], "signoff_opened")
         after  == IF Turned(signed) THEN Human(opened, "human_released") ELSE opened
     IN  /\ keys' = [keys EXCEPT ![<<i, b>>] = signed]
         /\ state' = [state EXCEPT ![<<i, b>>] = after]
  /\ UNCHANGED <<clocked, recorded>>

\* The scheduler is the caller's: it may stop before the streams are exhausted.
Conclude ==
  /\ ~report.done
  /\ report' = [done |-> TRUE, states |-> state, ledger |-> recorded]
  /\ UNCHANGED <<at, kill, clocked, state, recorded, keys>>

StepOf(i) ==
  \/ StartClocks(i) \/ FactRecordPosted(i)
  \/ \E b \in Branches : Draft(i, b) \/ DiffPass(i, b) \/ ReleaseFiling(i, b)

IncidentsOver == report.done /\ UNCHANGED incidentVars

IncidentsNext == Conclude \/ IncidentsOver \/ \E i \in Incidents : StepOf(i)

IncidentsSpec == IncidentsInit /\ [][IncidentsNext]_incidentVars
-----------------------------------------------------------------------------
(***************************************************************************)
(* Properties.                                                             *)
(***************************************************************************)
Reports == [done : {TRUE}, states : [Filings -> State], ledger : [Keys -> Nat]]

TypeOK ==
  /\ at \in [Incidents -> Nat]
  /\ clocked \subseteq Filings
  /\ state \in [Filings -> State]
  /\ recorded \in [Keys -> Nat]
  /\ keys \in [Filings -> SUBSET REQUIRED_ROLES]
  /\ report \in {NoReport} \cup Reports

=============================================================================
