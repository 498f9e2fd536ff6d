--------------------------- MODULE ComposedWarden ---------------------------
(***************************************************************************)
(* The composed Warden configuration of one branch: the protocol table,    *)
(* the authority relation, the two-key release gate and the amendment      *)
(* negotiation guard, put together the way the repository's own model      *)
(* checker (warden/modelcheck.py, successors) puts them together.  A state *)
(* of this module is a Node of that program, and a step is one of its      *)
(* edges.                                                                  *)
(***************************************************************************)
EXTENDS Naturals, WardenProtocol

CONSTANT MAX_ROUNDS   \* bound on the amendment rounds (negotiation.py)

ASSUME MaxRoundsAssumption == MAX_ROUNDS \in Nat \ {0}

\* The two distinct human roles that must both sign (release_gate.py).
REQUIRED_ROLES == {"head_of_ir", "general_counsel"}

VARIABLES state,          \* position of the branch in the protocol
          have_keys,      \* roles that have signed the release lock
          released_once,  \* a release has committed and was not reopened
          amend_round,    \* 0 until the first amendment, capped at MAX_ROUNDS
          concurred       \* a CONCUR envelope exists for the open round

wardenVars == <<state, have_keys, released_once, amend_round, concurred>>

WardenTypeOK ==
  /\ state \in State
  /\ have_keys \subseteq REQUIRED_ROLES
  /\ released_once \in BOOLEAN
  /\ amend_round \in 0..MAX_ROUNDS
  /\ concurred \in BOOLEAN

WardenInit ==
  /\ state = "initiated"
  /\ have_keys = {}
  /\ released_once = FALSE
  /\ amend_round = 0
  /\ concurred = FALSE
-----------------------------------------------------------------------------
\* apply() admits the event of this role and moves the branch.
Apply(e, role) == \E t \in State : Moves(state, e, role, t) /\ state' = t

\* Fault: one key is enough to turn the lock.
CanRelease_OneKey(keys) == keys # {}

\* TwoKeyReleaseGate.can_release: nothing is missing from the lock.
CanRelease(keys) == REQUIRED_ROLES \ keys = {}

\* NegotiationGuard.can_submit_amendment for the round the node is in.
CanSubmitAmendment == concurred /\ amend_round \in 1..MAX_ROUNDS

\* A protocol event that rides no gate and touches only the position.
PlainEvent(e, role) ==
  /\ e \notin {"human_released", "fact_amended"}
  /\ ~(state = "amending" /\ e = "draft_posted")
  /\ Apply(e, role)
  /\ UNCHANGED <<have_keys, released_once, amend_round, concurred>>

\* The release commits under both keys, and the lock is cleared with it.
HumanReleased(role) ==
  /\ CanRelease(have_keys)
  /\ Apply("human_released", role)
  /\ released_once' = TRUE
  /\ have_keys' = {}
  /\ UNCHANGED <<amend_round, concurred>>

\* Fault: the count of the amendment rounds is not saturated.
FactAmended_Unbounded(role) ==
  /\ Apply("fact_amended", role)
  /\ amend_round' = amend_round + 1
  /\ concurred' = FALSE
  /\ released_once' = FALSE
  /\ UNCHANGED have_keys

\* Triage revises a fact: the next round opens with no concurrence.
FactAmended(role) ==
  /\ Apply("fact_amended", role)
  /\ amend_round' = IF amend_round < MAX_ROUNDS THEN amend_round + 1
                                                ELSE MAX_ROUNDS
  /\ concurred' = FALSE
  /\ released_once' = FALSE
  /\ UNCHANGED have_keys

\* The amendment is submitted, which uses the round's concurrence up.
AmendmentSubmitted(role) ==
  /\ state = "amending"
  /\ CanSubmitAmendment
  /\ Apply("draft_posted", role)
  /\ concurred' = FALSE
  /\ UNCHANGED <<have_keys, released_once, amend_round>>

\* Fault: a new signature replaces the one already in the lock.
SignKey_Replaces(role) ==
  /\ state = "awaiting_human_signoff"
  /\ role \notin have_keys
  /\ have_keys' = {role}
  /\ UNCHANGED <<state, released_once, amend_round, concurred>>

\* A human turns one key of the release lock.
SignKey(role) ==
  /\ state = "awaiting_human_signoff"
  /\ role \notin have_keys
  /\ have_keys' = have_keys \cup {role}
  /\ UNCHANGED <<state, released_once, amend_round, concurred>>

\* A drafter posts the concurrence of the open round.
PostConcur ==
  /\ state = "amending" /\ ~concurred /\ amend_round >= 1
  /\ concurred' = TRUE
  /\ UNCHANGED <<state, have_keys, released_once, amend_round>>

\* successors() asks every event of every role its authority names.
ProtocolStep(e) == \E role \in EVENT_AUTHORITY[e] : PlainEvent(e, role)
ReleaseStep ==
  \E role \in EVENT_AUTHORITY["human_released"] : HumanReleased(role)
AmendStep ==
  \E role \in EVENT_AUTHORITY["fact_amended"] : FactAmended(role)
SubmitStep ==
  \E role \in EVENT_AUTHORITY["draft_posted"] : AmendmentSubmitted(role)

\* A suppressed or failed branch has no edge left.
Absorbed == state \in TERMINAL_STATES /\ UNCHANGED wardenVars

WardenNext ==
  \/ \E e \in Event : ProtocolStep(e)
  \/ ReleaseStep \/ AmendStep \/ SubmitStep
  \/ \E role \in REQUIRED_ROLES : SignKey(role)
  \/ PostConcur
  \/ Absorbed

WardenSpec == WardenInit /\ [][WardenNext]_wardenVars

\* In a finite graph, "every node can reach P" is "P recurs when no edge is
\* avoided for ever": strong fairness of each edge turns the reachability of
\* _check_prog1 into a liveness property.  The vetoes (a blocked diff, a
\* suppression, a breach) get no fairness: nothing may depend on them.
Vetoes == {"diff_blocked", "suppress", "clock_breached"}

FairSpec ==
  /\ WardenSpec
  /\ \A e \in Event \ Vetoes : SF_wardenVars(ProtocolStep(e))
  /\ SF_wardenVars(ReleaseStep) /\ SF_wardenVars(SubmitStep)
  /\ SF_wardenVars(PostConcur)
  /\ \A role \in REQUIRED_ROLES : SF_wardenVars(SignKey(role))
-----------------------------------------------------------------------------
\* Keys never outlive the release they authorised: a lock that holds a key
\* belongs to a version that is on its way to a release (or was stopped on
\* it), so an amendment always starts from an empty lock.
KeysAreUsedUp ==
  have_keys # {} =>
    state \in {"drafting", "draft_submitted", "contradiction_checked",
               "awaiting_human_signoff"} \cup TERMINAL_STATES

\* SAFE-5: the release commit is write-once per lifecycle.  The commit flag is
\* up exactly while the branch is released, so no release can find it up, and
\* a second one has a reopening before it.
ReleaseCommitIsPosition == released_once <=> state = "released"

\* SAFE-4: a concurrence belongs to the round it was posted in.  It exists only
\* while that round waits to be submitted (or failed waiting), so it can admit
\* one submission and never a later one.
ConcurrenceIsForThisRound ==
  concurred => state \in {"amending", "failed"} /\ amend_round \in 1..MAX_ROUNDS

\* An amendment round is open exactly when the branch was filed before: a branch
\* that was never released is in round 0 (the negotiation guard cannot be met
\* there), and a branch being amended is in a round the guard can answer.
AmendmentRoundIsOpen ==
  /\ state = "amending" => amend_round \in 1..MAX_ROUNDS
  /\ state \in {"initiated", "fact_record_ready"} => amend_round = 0

\* The inductive invariant of the composed machine.
WardenIInv ==
  /\ WardenTypeOK
  /\ KeysAreUsedUp
  /\ ReleaseCommitIsPosition
  /\ ConcurrenceIsForThisRound
  /\ AmendmentRoundIsOpen

\* The composed machine keeps the promise of a filing: SAFE-1, SAFE-4 and
\* SAFE-5 along whole paths, not edge by edge.
Filing == INSTANCE FilingLifecycle WITH
  Keys    <- REQUIRED_ROLES,
  filed   <- state = "released",
  checked <- state \in {"contradiction_checked", "awaiting_human_signoff",
                        "released"},
  signed  <- have_keys,
  agreed  <- state # "amending" \/ concurred,
  closed  <- state \in TERMINAL_STATES

KeepsFilingPromise == Filing!LifecycleSpec

\* PROG-1 as a liveness property: whatever the vetoes do, a branch comes back to
\* a completed release, or it is closed, again and again.
Progress == []<>(state \in TERMINAL_STATES \cup {"released"})
=============================================================================
