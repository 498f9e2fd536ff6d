---------------------------- MODULE HandoffDrain ----------------------------
(***************************************************************************)
(* One incident driven over the fake Band with injected failures           *)
(* (warden/simulate.py, run_incident without its amendment): every branch  *)
(* gets one message, an agent may be killed before or after it posts, or   *)
(* lose its acknowledgement, and the ledger (warden/ledger.py) drops what  *)
(* the redelivery posts again.                                             *)
(*                                                                         *)
(* The driver is one thread: it carries one message at a time.  A failure  *)
(* schedule is a choice made when the failure point is reached, and a      *)
(* drain order the choice of the next branch, so the runs are those of     *)
(* every schedule and every order that leaves no branch out, the           *)
(* one-branch-at-a-time order of _drive_sequential among them.             *)
(***************************************************************************)
EXTENDS WardenProtocol, Naturals, FiniteSets

CONSTANTS
  Branches,      \* BRANCHES
  MaxFailures,   \* the last attempt a schedule may make fail
  MaxVisits      \* max_visits, 64 a branch: the visits after which it gives up

NoBranch == "none"

ASSUME DrainAssumption ==
  /\ IsFiniteSet(Branches) /\ NoBranch \notin Branches
  /\ \A b \in Branches : Branches # {b}   \* a contradiction has two sides
  /\ MaxFailures \in Nat /\ MaxVisits \in Nat

VARIABLES
  at,          \* where the driver is
  current,     \* the branch whose message it carries
  lifecycle,   \* FakeMessage.state
  attempt,     \* FakeMessage.attempt
  fired,       \* consumed: the failures that happened, <<branch, attempt, kind>>
  seen,        \* _seen of the ledger: keys <<branch, round>>
  dropped,     \* duplicates the ledger dropped
  room,        \* drafts posted to the room, per key
  claims,      \* posted_claims
  state,       \* protocol state of the branch
  wrong,       \* contradiction_in
  visits       \* visits of the drain

messageVars == <<lifecycle, attempt>>
ledgerVars  == <<seen, dropped>>
postVars    == <<room, claims>>
vars == <<at, current, messageVars, fired, ledgerVars, postVars, state, wrong,
          visits>>

Keys == Branches \X {1, 2}
Rounds1 == Branches \X {1}

\* _claims_for: the contradicted branch starts the incident at another time.
ClaimsFor(b) == IF b = wrong THEN "wrong" ELSE "canonical"

\* What the drain has settled is what has been marked processed.
Settled == {b \in Branches : lifecycle[b] = "processed"}

Init ==
  /\ at = "next" /\ current = NoBranch
  /\ lifecycle = [b \in Branches |-> "delivered"]
  /\ attempt = [b \in Branches |-> 1]
  /\ fired = {} /\ seen = {}
  /\ dropped = [b \in Branches |-> 0]
  /\ room = [k \in Keys |-> 0]
  /\ claims = [b \in Branches |-> "none"]
  /\ state = [b \in Branches |->
                NextState("initiated", "fact_record_posted", "triage")]
  /\ wrong \in Branches \cup {NoBranch}
  /\ visits = 0

\* Fault: a failure point hits every time it is passed.
CanFail_Again(b) == attempt[b] <= MaxFailures

\* The schedule may hit this attempt, once.
CanFail(b) ==
  /\ attempt[b] <= MaxFailures
  /\ \A f \in fired : ~(f[1] = b /\ f[2] = attempt[b])
-----------------------------------------------------------------------------
\* The limit is looked at between two passes over the branches.
MayVisit == visits < MaxVisits + Cardinality(Branches)

\* messages_next serves the message and DRAFT_STARTED is fired; on a redelivery
\* the branch is already drafting, or drafted, and the event is rejected.
Serve(b) ==
  /\ at = "next" /\ lifecycle[b] = "delivered" /\ MayVisit
  /\ at' = "drafting" /\ current' = b
  /\ lifecycle' = [lifecycle EXCEPT ![b] = "processing"]
  /\ state' = [state EXCEPT ![b] = NextState(@, "draft_started", "drafter")]
  /\ visits' = visits + 1
  /\ UNCHANGED <<attempt, fired, ledgerVars, postVars, wrong>>

\* The agent dies or is cut off: its message goes back, and only a kill counts
\* as an attempt.
Fail(b, kind) ==
  /\ CanFail(b)
  /\ at' = "next" /\ current' = NoBranch
  /\ fired' = fired \cup {<<b, attempt[b], kind>>}
  /\ lifecycle' = [lifecycle EXCEPT ![b] = "delivered"]
  /\ UNCHANGED <<ledgerVars, postVars, state, wrong, visits>>

\* kill_in_flight.
Kill(b, kind) ==
  /\ Fail(b, kind)
  /\ attempt' = [attempt EXCEPT ![b] = @ + 1]

DieBeforePost(b) == at = "drafting" /\ current = b /\ Kill(b, "A")

\* Fault: a key counts as new work whenever the attempt was bumped.
Accepted_NewAttempt(b) == <<b, 1>> \notin seen \/ attempt[b] > 1

\* IdempotencyLedger.record: the key is the unit of work, not the attempt.
Accepted(b) == <<b, 1>> \notin seen

\* Fault: the draft is posted and the protocol never hears of it.
Post_NotFiled(b) ==
  /\ at = "drafting" /\ current = b
  /\ at' = "posted"
  /\ IF Accepted(b)
       THEN /\ seen' = seen \cup {<<b, 1>>}
            /\ room' = [room EXCEPT ![<<b, 1>>] = @ + 1]
            /\ claims' = [claims EXCEPT ![b] = ClaimsFor(b)]
            /\ UNCHANGED dropped
       ELSE /\ dropped' = [dropped EXCEPT ![b] = @ + 1]
            /\ UNCHANGED <<seen, postVars>>
  /\ UNCHANGED <<current, messageVars, fired, state, wrong, visits>>

\* The ledger decides; only an accepted key is posted and fires DRAFT_POSTED.
Post(b) ==
  /\ at = "drafting" /\ current = b
  /\ at' = "posted"
  /\ IF Accepted(b)
       THEN /\ seen' = seen \cup {<<b, 1>>}
            /\ room' = [room EXCEPT ![<<b, 1>>] = @ + 1]
            /\ claims' = [claims EXCEPT ![b] = ClaimsFor(b)]
            /\ state' = [state EXCEPT ![b] =
                           NextState(@, "draft_posted", "drafter")]
            /\ UNCHANGED dropped
       ELSE /\ dropped' = [dropped EXCEPT ![b] = @ + 1]
            /\ UNCHANGED <<seen, postVars, state>>
  /\ UNCHANGED <<current, messageVars, fired, wrong, visits>>

DieAfterPost(b) == at = "posted" /\ current = b /\ Kill(b, "B")

\* kill_after_ack_lost: the message comes back as it was.
LoseAck(b) ==
  /\ at = "posted" /\ current = b
  /\ Fail(b, "ack_lost") /\ UNCHANGED attempt

\* mark_processed.
Ack(b) ==
  /\ at = "posted" /\ current = b
  /\ at' = "next" /\ current' = NoBranch
  /\ lifecycle' = [lifecycle EXCEPT ![b] = "processed"]
  /\ UNCHANGED <<attempt, fired, ledgerVars, postVars, state, wrong, visits>>

Visit(b) ==
  \/ Serve(b) \/ DieBeforePost(b) \/ Post(b) \/ DieAfterPost(b)
  \/ LoseAck(b) \/ Ack(b)
-----------------------------------------------------------------------------
Drained ==
  /\ at = "next" /\ Settled = Branches
  /\ at' = "diff"
  /\ UNCHANGED <<current, messageVars, fired, ledgerVars, postVars, state,
                 wrong, visits>>

\* RuntimeError: a schedule the drain could not settle.
GivesUp ==
  /\ at = "next" /\ Settled # Branches /\ visits >= MaxVisits
  /\ at' = "raised"
  /\ UNCHANGED <<current, messageVars, fired, ledgerVars, postVars, state,
                 wrong, visits>>

Blocked(s) == NextState(s, "diff_blocked", "warden")
Redrafted(s) ==
  NextState(NextState(s, "draft_started", "drafter"), "draft_posted", "drafter")

\* diff_claims: two branches say different things.
Conflict == \E a, b \in Branches : claims[a] # claims[b]

DiffPasses ==
  /\ at = "diff" /\ ~Conflict
  /\ at' = "signoff"
  /\ UNCHANGED <<current, messageVars, fired, ledgerVars, postVars, state,
                 wrong, visits>>

\* Fault: only the corrected branch is posted again.
Correct_OthersLeft ==
  /\ at = "diff" /\ Conflict
  /\ at' = "signoff"
  /\ state' = [b \in Branches |->
                 IF b = wrong THEN Redrafted(Blocked(state[b]))
                              ELSE Blocked(state[b])]
  /\ seen' = seen \cup {<<wrong, 2>>}
  /\ room' = [room EXCEPT ![<<wrong, 2>>] = @ + 1]
  /\ claims' = [claims EXCEPT ![wrong] = "canonical"]
  /\ UNCHANGED <<current, messageVars, fired, dropped, wrong, visits>>

\* Every branch is blocked, the offender posts a corrected draft under a new
\* key, the others post theirs again; the second diff does not gate anything.
Correct ==
  /\ at = "diff" /\ Conflict
  /\ at' = "signoff"
  /\ state' = [b \in Branches |-> Redrafted(Blocked(state[b]))]
  /\ seen' = seen \cup {<<wrong, 2>>}
  /\ room' = [room EXCEPT ![<<wrong, 2>>] = @ + 1]
  /\ claims' = [claims EXCEPT ![wrong] = "canonical"]
  /\ UNCHANGED <<current, messageVars, fired, dropped, wrong, visits>>

Passed(s) ==
  NextState(NextState(s, "diff_passed", "warden"), "signoff_opened", "warden")

\* DIFF_PASSED and SIGNOFF_OPENED; one drafter tries to release its own filing.
Signoff ==
  /\ at = "signoff"
  /\ at' = "release"
  /\ \E self \in Branches :
       state' = [b \in Branches |->
                   IF b = self
                     THEN NextState(Passed(state[b]), "human_released", "drafter")
                     ELSE Passed(state[b])]
  /\ UNCHANGED <<current, messageVars, fired, ledgerVars, postVars, wrong,
                 visits>>

HumansRelease ==
  /\ at = "release"
  /\ at' = "over"
  /\ state' = [b \in Branches |->
                 NextState(state[b], "human_released", "human_owner")]
  /\ UNCHANGED <<current, messageVars, fired, ledgerVars, postVars, wrong,
                 visits>>

Over == at \in {"over", "raised"} /\ UNCHANGED vars

Drive ==
  \/ \E b \in Branches : Visit(b)
  \/ Drained \/ GivesUp \/ DiffPasses \/ Correct \/ Signoff \/ HumansRelease

Next == Drive \/ Over

Spec == Init /\ [][Next]_vars

\* The driver is a loop: it takes its next step.
FairSpec == Spec /\ WF_vars(Drive)
-----------------------------------------------------------------------------
Kinds == {"A", "B", "ack_lost"}
Draining == {"next", "drafting", "posted"}
Carrying == {"drafting", "posted"}

TypeOK ==
  /\ at \in Draining \cup {"diff", "signoff", "release", "over", "raised"}
  /\ current \in Branches \cup {NoBranch}
  /\ lifecycle \in [Branches -> {"delivered", "processing", "processed"}]
  /\ attempt \in [Branches -> 1..(MaxFailures + 1)]
  /\ fired \subseteq Branches \X (1..MaxFailures) \X Kinds
  /\ seen \subseteq Keys
  /\ dropped \in [Branches -> Nat] /\ room \in [Keys -> Nat]
  /\ claims \in [Branches -> {"none", "wrong", "canonical"}]
  /\ state \in [Branches -> State]
  /\ wrong \in Branches \cup {NoBranch}
  /\ visits \in Nat

\* The driver carries exactly the message that is being processed, and has
\* drained every message once it looks at the claims.
OneInHand ==
  /\ at \in Carrying <=> current # NoBranch
  /\ \A b \in Branches : lifecycle[b] = "processing" <=> current = b
  /\ at \notin Draining \cup {"raised"} => Settled = Branches

\* Through every failure the ledger, the room and the protocol tell the same
\* story of a draft: it landed, once, or it did not, and what the Warden checks
\* is what landed; and a message that is processed, or about to be, is one
\* whose draft landed.
LandedOnce ==
  /\ \A b \in Branches :
       /\ room[<<b, 1>>] = IF <<b, 1>> \in seen THEN 1 ELSE 0
       /\ lifecycle[b] = "processed" \/ (at = "posted" /\ current = b) =>
            <<b, 1>> \in seen
  /\ at \in Draining \cup {"diff"} =>
       \A b \in Branches :
         /\ <<b, 1>> \in seen <=> state[b] = "draft_submitted"
         /\ state[b] \in {"fact_record_ready", "drafting", "draft_submitted"}
         /\ claims[b] = IF <<b, 1>> \in seen THEN ClaimsFor(b) ELSE "none"

\* The rejection counter stays at zero: when an agent is about to post a draft
\* the ledger will accept, the protocol will admit it.
PostIsAdmitted ==
  \A b \in Branches :
    at = "drafting" /\ current = b /\ <<b, 1>> \notin seen =>
      Admits(state[b], "draft_posted", "drafter")

\* Whatever failed, a run that reaches its end has filed every branch, and with
\* the same facts: no branch is left behind by a correction.
EveryBranchFiles ==
  \A b \in Branches :
    /\ at = "signoff" => state[b] = "draft_submitted"
    /\ at = "release" => state[b] = "awaiting_human_signoff"
    /\ at = "over"    => state[b] = "released"
    /\ at \in {"signoff", "release", "over"} => claims[b] = "canonical"

\* What every step preserves, and the promise below rests on.
IInv ==
  TypeOK /\ OneInHand /\ LandedOnce /\ PostIsAdmitted /\ EveryBranchFiles

\* The books balance: a settled branch dropped one duplicate for every failure
\* after its post, its attempt counts the kills and only them, and the drain
\* visits no branch without settling it or having it fail.
Failures(b, kinds) == {f \in fired : f[1] = b /\ f[3] \in kinds}

\* Every branch's handoff keeps the promise of an exactly-once handoff.
Handoff(b) == INSTANCE ExactlyOnceHandoff WITH
  copies <- room[<<b, 1>>],
  status <- IF lifecycle[b] = "processed" THEN "done" ELSE "open"

KeepsHandoffPromise ==
  /\ \A b \in Branches : Handoff(b)!HandoffInit
  /\ [][ \A b \in Branches :
            [Handoff(b)!HandoffNext]_(Handoff(b)!handoff) ]_vars

\* The drain ends: no schedule keeps it going for ever, and one that has visits
\* left for every failure is driven to the release.
RunEnds ==
  <>(\/ at = "over"
     \/ at = "raised" /\ Cardinality(fired) + Cardinality(Branches) > MaxVisits)
=============================================================================
