----------------------------- MODULE FilingFloor -----------------------------
(***************************************************************************)
(* One run of the war room, as floor/run_floor.py drives it                *)
(* (_run_full_floor): the Warden walks every filing branch from the fact   *)
(* record to a two-key release, and then through whichever beat the        *)
(* command line asked for.  The drafters' prose is left out; what a draft  *)
(* asserts (its claims) and everything the run decides on are kept.        *)
(*                                                                         *)
(* The driver is sequential.  What varies is the scenario, the verdicts of *)
(* the models, and the moment the room or a model fails: an exception ends *)
(* the run wherever it is, with the branches as they stand.                *)
(***************************************************************************)
EXTENDS Naturals, Sequences, FiniteSets, WardenProtocol

CONSTANT Scenarios   \* the command lines this instance considers

Modes == {"normal", "inject_contradiction", "chaos", "amendment",
          "inject_claims", "reportability", "cross_border", "affected_party",
          "deficiency", "legal_hold", "submit"}

AllScenarios == [mode : Modes, materiality : BOOLEAN,
                 uk : BOOLEAN, nydfs : BOOLEAN]

\* main() refuses --materiality next to a mode that is a beat of its own.
CliAccepts(sc) ==
  sc.materiality => sc.mode \in {"normal", "inject_contradiction", "chaos",
                                 "amendment", "inject_claims"}

ASSUME ScenariosAssumption ==
  Scenarios \subseteq { sc \in AllScenarios : CliAccepts(sc) }

\* The startup drafters, in the order the Warden walks them, and the branches
\* that may join later.
DRAFTER_ROLES == <<"nis2", "sec", "dora">>
Regulators == {"nis2", "sec", "dora", "uk", "nydfs"}
AffectedParty == "data_subject"
Branches == Regulators \cup {AffectedParty}

\* The catalog starts one more clock, the NIS2 early warning: no branch of the
\* run carries its correlation id.
StartupClocks == {"nis2-early", "nis2", "dora", "sec"}

AMENDMENT_BRANCHES == <<"sec", "nis2">>
SubmitBranches == {"sec", "nis2", "uk"}
REQUIRED_ROLES == {"head_of_ir", "general_counsel"}
RELEASE_SIGNERS == <<"general_counsel", "head_of_ir">>

\* The load-bearing facts of a filing, up to the differences a run can make.
Claims == [start : {"true", "transposed"}, records : {"old", "new"},
           containment : {"partial", "contained"}]
NoClaims == [start |-> "none", records |-> "none", containment |-> "none"]
CanonicalFacts == [start |-> "true", records |-> "old",
                   containment |-> "partial"]
AmendedFacts == [start |-> "true", records |-> "new",
                 containment |-> "contained"]

VARIABLES
  scenario,   \* the command line; never changes
  step,       \* the phase of _run_full_floor the run is in
  todo,       \* the branches the loop of this phase still has to visit
  state,      \* the typed state of every branch
  claims,     \* what the last draft of a branch asserts (claims_by_branch)
  ran,        \* DRAFTER_BRANCHES_THIS_RUN
  keys,       \* the release lock: who signed, for which filing of the branch
  lock,       \* where the two-key release of the branch in hand stands
  signers,    \* the signers that release still has to ask
  filed,      \* the versions of each branch that were released, in order
  clock,      \* the statutory clocks
  guard,      \* the envelopes of amendment round 1
  conflict,   \* the cross-border conflict, until the humans resolve it
  hold,       \* the legal hold
  receipts    \* the branches whose filed receipt is sealed in the log

branchVars == <<state, claims, ran>>
lockVars   == <<keys, lock, signers, filed>>
dutyVars   == <<guard, conflict, hold, receipts>>
vars == <<scenario, step, todo, branchVars, lockVars, clock, dutyVars>>
-----------------------------------------------------------------------------
(***************************************************************************)
(* The order of the phases.  A phase that the scenario does not ask for is *)
(* skipped.                                                                *)
(***************************************************************************)

\* Fault: the customers are told as soon as the regulators were, before the
\* amendment.
Phases_NoticeFirst ==
  <<"open", "materiality", "reportability", "drafting", "recruit_uk",
    "recruit_nydfs", "cross_border", "diff", "release", "affected_party",
    "amend", "propose", "concur", "amend_submit", "amend_diff",
    "amend_release", "deficiency", "cure", "lift_hold", "submission", "seal">>

Phases == <<"open", "materiality", "reportability", "drafting", "recruit_uk",
            "recruit_nydfs", "cross_border", "diff", "release", "amend",
            "propose", "concur", "amend_submit", "amend_diff",
            "amend_release", "affected_party", "deficiency", "cure",
            "lift_hold", "submission", "seal">>

Finished == {"sealed", "raised", "interrupted"}
Steps == { Phases[i] : i \in DOMAIN Phases } \cup Finished
           \cup {"cross_border_signoff", "resolve"}

Amends == scenario.mode \in {"amendment", "affected_party"}

Wanted(p) ==
  CASE p = "materiality"    -> scenario.materiality
    [] p = "reportability"  -> scenario.mode = "reportability"
    [] p = "recruit_uk"     -> scenario.uk \/ scenario.mode \in {"cross_border", "submit"}
       \* the cross-border fact record names no New York entity
    [] p = "recruit_nydfs"  -> scenario.nydfs /\ scenario.mode # "cross_border"
    [] p = "cross_border"   -> scenario.mode = "cross_border"
    [] p \in {"amend", "propose", "concur", "amend_submit", "amend_diff",
              "amend_release"} -> Amends
    [] p = "affected_party" -> scenario.mode = "affected_party"
    [] p \in {"deficiency", "cure"} -> scenario.mode = "deficiency"
    [] p = "lift_hold"      -> scenario.mode = "legal_hold"
    [] p = "submission"     -> scenario.mode = "submit"
    [] OTHER                -> TRUE

\* The first wanted phase after p.
After(p) ==
  LET at == CHOOSE i \in DOMAIN Phases : Phases[i] = p
      later == { i \in DOMAIN Phases : i > at /\ Wanted(Phases[i]) }
  IN  Phases[CHOOSE i \in later : \A j \in later : i <= j]

\* The branches the loop of a phase visits.
Work(p) ==
  CASE p \in {"reportability", "drafting"} -> DRAFTER_ROLES
    [] p = "release" -> ran
    [] p \in {"amend_submit", "amend_release"} -> AMENDMENT_BRANCHES
    [] p = "affected_party" -> <<AffectedParty>>
    [] p \in {"deficiency", "cure"} -> <<"sec">>
    [] p = "recruit_uk" -> <<"uk">>
    [] p = "recruit_nydfs" -> <<"nydfs">>
    [] OTHER -> <<>>

Proceed(p) == step' = After(p) /\ todo' = Work(After(p))

\* This branch is done: on to the next one, or to the next phase.
NextBranch ==
  IF Len(todo) > 1 THEN todo' = Tail(todo) /\ UNCHANGED step ELSE Proceed(step)

\* One of the run's own checks failed (RuntimeError).
Raise == step' = "raised" /\ UNCHANGED todo

\* sm.apply for each role that speaks: a rejected event leaves the branch alone,
\* and the driver goes on.
Triage(s, e)  == NextState(s, e, "triage")
Drafter(s, e) == NextState(s, e, "drafter")
Warden(s, e)  == NextState(s, e, "warden")
Suppress(s)   == NextState(s, "suppress", "materiality")
OpenSignoff(s) == Warden(Warden(s, "diff_passed"), "signoff_opened")

Init ==
  /\ scenario \in Scenarios
  /\ step = "open" /\ todo = <<>>
  /\ state = [b \in Branches |-> "initiated"]
  /\ claims = [b \in Branches |-> NoClaims]
  /\ ran = DRAFTER_ROLES
  /\ keys = [b \in Branches |-> {}]
  /\ lock = "idle" /\ signers = <<>>
  /\ filed = [b \in Branches |-> <<>>]
  /\ clock = [c \in Branches \cup StartupClocks |-> "none"]
  /\ guard = "empty" /\ conflict = "none" /\ hold = "none" /\ receipts = {}
-----------------------------------------------------------------------------
(***************************************************************************)
(* From the fact record to the drafts.                                     *)
(***************************************************************************)
\* The catalog's clocks start, the legal hold attaches, Triage posts the facts.
Open ==
  /\ step = "open"
  /\ clock' = [c \in DOMAIN clock |->
                 IF c \in StartupClocks THEN "running" ELSE clock[c]]
  /\ hold' = IF scenario.mode = "legal_hold" THEN "active" ELSE hold
  /\ state' = [b \in Branches |->
                 IF b \in {"nis2", "sec", "dora"}
                   THEN Triage(state[b], "fact_record_posted") ELSE state[b]]
  /\ Proceed(step)
  /\ UNCHANGED <<scenario, claims, ran, lockVars, guard, conflict, receipts>>

\* A negative verdict closes the branch and stops its clock.
Judge(b, reportable) ==
  /\ state' = IF reportable THEN state
                            ELSE [state EXCEPT ![b] = Suppress(@)]
  /\ clock' = IF reportable THEN clock ELSE [clock EXCEPT ![b] = "stopped"]
  /\ UNCHANGED <<scenario, claims, ran, lockVars, dutyVars>>

\* Two opinions are reconciled to the cautious side: only two negative
\* verdicts suppress.  One opinion is the case where they are the same.
Reconcile(primary, second) == primary \/ second

Materiality ==
  /\ step = "materiality"
  /\ \E primary, second \in BOOLEAN : Judge("sec", Reconcile(primary, second))
  /\ Proceed(step)

Reportability ==
  /\ step = "reportability"
  /\ \E reportable \in BOOLEAN : Judge(Head(todo), reportable)
  /\ NextBranch

\* The facts a drafter is handed: in the contradiction beat the SEC drafter
\* gets a transposed start.
ClaimFactsFor(b) ==
  IF scenario.mode = "inject_contradiction" /\ b = "sec"
    THEN [CanonicalFacts EXCEPT !.start = "transposed"] ELSE CanonicalFacts

\* Fault: the driver waits for the draft of a branch that will not write one.
SkipSuppressed_Waits ==
  step = "drafting" /\ state[Head(todo)] = "suppressed" /\ UNCHANGED vars

\* A suppressed branch drafts nothing.
SkipSuppressed ==
  /\ step = "drafting"
  /\ state[Head(todo)] = "suppressed"
  /\ NextBranch
  /\ UNCHANGED <<scenario, branchVars, lockVars, clock, dutyVars>>

\* The drafter posts; the Warden observes the draft and records both events.
Draft ==
  /\ step = "drafting"
  /\ LET b == Head(todo) IN
       /\ state[b] # "suppressed"
       /\ state' = [state EXCEPT
                      ![b] = Drafter(Drafter(@, "draft_started"), "draft_posted")]
       /\ claims' = [claims EXCEPT ![b] = ClaimFactsFor(b)]
  /\ NextBranch
  /\ UNCHANGED <<scenario, ran, lockVars, clock, dutyVars>>

\* A jurisdiction in the blast radius joins: its clock starts at the recruit.
Joins(b) ==
  /\ clock' = [clock EXCEPT ![b] = "running"]
  /\ state' = [state EXCEPT ![b] = Drafter(Drafter(
                 Triage(@, "fact_record_posted"), "draft_started"), "draft_posted")]
  /\ claims' = [claims EXCEPT ![b] = CanonicalFacts]

\* Fault: the recruited branch is not added to the branches of the run.
Recruit_Forgotten ==
  /\ step \in {"recruit_uk", "recruit_nydfs"}
  /\ Joins(Head(todo))
  /\ Proceed(step)
  /\ UNCHANGED <<scenario, ran, lockVars, dutyVars>>

Recruit ==
  /\ step \in {"recruit_uk", "recruit_nydfs"}
  /\ Joins(Head(todo))
  /\ ran' = Append(ran, Head(todo))
  /\ Proceed(step)
  /\ UNCHANGED <<scenario, lockVars, dutyVars>>
-----------------------------------------------------------------------------
(***************************************************************************)
(* The cross-border conflict and the contradiction veto.                   *)
(***************************************************************************)
\* SEC must disclose what DORA keeps confidential and what the UK forbids.
OpposedObligations == {{"sec", "dora"}, {"sec", "uk"}}

InRun(b) == \E i \in DOMAIN ran : ran[i] = b

\* A clash between two regimes in scope halts the run for the humans.
CrossBorderScan ==
  /\ step = "cross_border"
  /\ IF \E pair \in OpposedObligations : \A b \in pair : InRun(b)
       THEN /\ conflict' = "blocked"
            /\ step' = "cross_border_signoff" /\ UNCHANGED todo
       ELSE Proceed(step) /\ UNCHANGED conflict
  /\ UNCHANGED <<scenario, branchVars, lockVars, clock, guard, hold, receipts>>

\* Both humans sign a lock of its own, and the run goes on to the diff.
CrossBorderSignoff ==
  /\ step = "cross_border_signoff"
  /\ IF REQUIRED_ROLES \subseteq { RELEASE_SIGNERS[i] : i \in DOMAIN RELEASE_SIGNERS }
       THEN conflict' = "resolved" /\ Proceed("cross_border")
       ELSE Raise /\ UNCHANGED conflict
  /\ UNCHANGED <<scenario, branchVars, lockVars, clock, guard, hold, receipts>>

Drafted == { b \in Branches : claims[b] # NoClaims }

\* Fault: the diff compares one of the facts only.
Contradict_Records(cl, bs) ==
  \E a, b \in bs : cl[a].records # cl[b].records

\* diff_claims is not empty: some two of the filings differ on some fact.
Contradict(cl, bs) == \E a, b \in bs : cl[a] # cl[b]

\* The order in which the driver meets the branches.
Rank(b) ==
  CHOOSE i \in 1..5 : <<"nis2", "sec", "dora", "uk", "nydfs">>[i] = b

\* Fault: the branch that is sent back is always the first one drafted.
ContradictedBranch_First == "nis2"

\* The branch whose start disagrees with the majority; the first one met when
\* two groups are as small, and SEC when all starts agree.
ContradictedBranch ==
  LET Same(b) == { a \in Drafted : claims[a].start = claims[b].start }
      Before(a, b) ==
        \/ Cardinality(Same(a)) < Cardinality(Same(b))
        \/ Cardinality(Same(a)) = Cardinality(Same(b)) /\ Rank(a) <= Rank(b)
  IN  IF \A b \in Drafted : Same(b) = Drafted THEN "sec"
      ELSE CHOOSE b \in Drafted : \A a \in Drafted : Before(b, a)

AllDrafted(s) == [b \in Branches |->
                    IF b \in Drafted THEN s[b] ELSE state[b]]

\* The diff over every draft of the run: green admits signoff, red sends every
\* draft back.
Diff ==
  /\ step = "diff"
  /\ IF Contradict(claims, Drafted)
       THEN /\ state' = AllDrafted([b \in Branches |->
                                      Warden(state[b], "diff_blocked")])
            /\ step' = "resolve" /\ UNCHANGED todo
       ELSE /\ state' = AllDrafted([b \in Branches |->
                                      Warden(state[b], "diff_passed")])
            /\ Proceed(step)
  /\ UNCHANGED <<scenario, claims, ran, lockVars, clock, dutyVars>>

\* The contradicted branch re-files the canonical facts, the others re-affirm
\* theirs, and the diff runs again: it must be green.
Resolve ==
  /\ step = "resolve"
  /\ claims' = [claims EXCEPT ![ContradictedBranch] = CanonicalFacts]
  /\ LET posted(b) == Drafter(state[b], "draft_posted") IN
       IF Contradict(claims', Drafted)
         THEN state' = AllDrafted([b \in Branches |-> posted(b)]) /\ Raise
         ELSE /\ state' = AllDrafted([b \in Branches |->
                                        Warden(posted(b), "diff_passed")])
              /\ Proceed("diff")
  /\ UNCHANGED <<scenario, ran, lockVars, clock, dutyVars>>
-----------------------------------------------------------------------------
(***************************************************************************)
(* The two-key release of the branch in hand (_two_key_release): the       *)
(* signers sign in turn, and the release is admitted as soon as the lock   *)
(* holds both roles.  Every list of signers names both, so the call never  *)
(* returns without a release: that path of the code is dead and left out.  *)
(***************************************************************************)
\* The phases that release a filing.
Releases == {"release", "amend_release", "affected_party", "cure"}

SignedRoles(ks) == { k[1] : k \in ks }

\* Fault: the lock is not cleared before a re-release.
Reset_Skipped(b) == UNCHANGED keys

\* gate.reset: the keys of an earlier release do not carry over.
Reset(b) == keys' = [keys EXCEPT ![b] = {}]

AskSigners ==
  lock' = "signing" /\ signers' = RELEASE_SIGNERS

\* The first release takes the branches whose diff has passed...
BeginRelease ==
  /\ step = "release" /\ lock = "idle"
  /\ LET b == Head(todo) IN
       /\ state[b] = "contradiction_checked"
       /\ state' = [state EXCEPT ![b] = Warden(@, "signoff_opened")]
  /\ AskSigners
  /\ UNCHANGED <<scenario, step, todo, claims, ran, keys, filed, clock, dutyVars>>

\* ...and passes over the others.
SkipUnchecked ==
  /\ step = "release" /\ lock = "idle"
  /\ state[Head(todo)] # "contradiction_checked"
  /\ NextBranch
  /\ UNCHANGED <<scenario, branchVars, lockVars, clock, dutyVars>>

\* A signature carries the time of the release it is given for; a role that
\* signs again replaces its signature.
SignKey ==
  /\ step \in Releases /\ lock = "signing" /\ signers # <<>>
  /\ LET b == Head(todo)
         role == Head(signers)
         signed == { k \in keys[b] : k[1] # role } \cup {<<role, Len(filed[b])>>}
     IN  /\ keys' = [keys EXCEPT ![b] = signed]
         /\ lock' = IF REQUIRED_ROLES \subseteq SignedRoles(signed) THEN "turned"
                                                                   ELSE lock
  /\ signers' = Tail(signers)
  /\ UNCHANGED <<scenario, step, todo, branchVars, filed, clock, dutyVars>>

StopsClock == step \in {"release", "affected_party"}

\* Both keys are in: the release is admitted, or the run stops.
Turn ==
  /\ step \in Releases /\ lock = "turned"
  /\ lock' = "idle" /\ signers' = <<>>
  /\ LET b == Head(todo) IN
       IF Admits(state[b], "human_released", "human_owner")
         THEN /\ state' = [state EXCEPT ![b] =
                             NextState(@, "human_released", "human_owner")]
              /\ filed' = [filed EXCEPT ![b] = Append(@, claims[b])]
              /\ clock' = IF StopsClock THEN [clock EXCEPT ![b] = "stopped"]
                                        ELSE clock
              /\ ran' = IF b = AffectedParty THEN Append(ran, b) ELSE ran
              /\ NextBranch
         ELSE Raise /\ UNCHANGED <<state, filed, clock, ran>>
  /\ UNCHANGED <<scenario, claims, keys, dutyVars>>

-----------------------------------------------------------------------------
(***************************************************************************)
(* The amendment: the facts are revised after release, the two drafters    *)
(* reconcile, and the amended filings are released under both keys again.  *)
(***************************************************************************)
Amended(b) == \E i \in DOMAIN AMENDMENT_BRANCHES : AMENDMENT_BRANCHES[i] = b

\* guard.can_submit_amendment(round 1): a CONCUR envelope is in.
CanSubmit == guard = "concurred"

\* Fault: only the drafter that will propose has its branch reopened.
Amend_ProposerOnly ==
  /\ step = "amend"
  /\ state' = [state EXCEPT !["sec"] = Triage(@, "fact_amended")]
  /\ IF CanSubmit THEN Raise ELSE Proceed(step)
  /\ UNCHANGED <<scenario, claims, ran, lockVars, clock, dutyVars>>

\* Triage revises the records, which reopens the released branches of the two
\* drafters; the guard must still refuse.
Amend ==
  /\ step = "amend"
  /\ state' = [b \in Branches |->
                 IF Amended(b) THEN Triage(state[b], "fact_amended") ELSE state[b]]
  /\ IF CanSubmit THEN Raise ELSE Proceed(step)
  /\ UNCHANGED <<scenario, claims, ran, lockVars, clock, dutyVars>>

\* SEC proposes: a first envelope needs nothing to link to.
Propose ==
  /\ step = "propose"
  /\ guard' = "proposed"
  /\ Proceed(step)
  /\ UNCHANGED <<scenario, branchVars, lockVars, clock, conflict, hold, receipts>>

\* NIS2 concurs: the envelope must link to one the guard knows.
Concur ==
  /\ step = "concur"
  /\ IF guard = "proposed" THEN guard' = "concurred" /\ Proceed(step)
                           ELSE Raise /\ UNCHANGED guard
  /\ UNCHANGED <<scenario, branchVars, lockVars, clock, conflict, hold, receipts>>

\* The amended filing is posted, whatever becomes of the event it is meant to
\* be: the driver does not look whether the branch was reopened.
SubmitAmendment ==
  /\ step = "amend_submit"
  /\ LET b == Head(todo) IN
       IF CanSubmit
         THEN /\ state' = [state EXCEPT ![b] = Drafter(@, "draft_posted")]
              /\ claims' = [claims EXCEPT ![b] = AmendedFacts]
              /\ NextBranch
         ELSE Raise /\ UNCHANGED <<state, claims>>
  /\ UNCHANGED <<scenario, ran, lockVars, clock, dutyVars>>

\* The amended filings carry the concurred figure and agree with each other.
AmendDiff ==
  /\ step = "amend_diff"
  /\ LET amended == { b \in Branches : Amended(b) } IN
       IF /\ CanSubmit
          /\ \A b \in amended : claims[b].records = AmendedFacts.records
          /\ ~Contradict(claims, amended)
         THEN Proceed(step) ELSE Raise
  /\ UNCHANGED <<scenario, branchVars, lockVars, clock, dutyVars>>

\* Each amended branch passes, opens signoff and starts from an empty lock.
BeginRerelease ==
  /\ step = "amend_release" /\ lock = "idle"
  /\ LET b == Head(todo) IN
       state' = [state EXCEPT ![b] = OpenSignoff(@)] /\ Reset(b)
  /\ AskSigners
  /\ UNCHANGED <<scenario, step, todo, claims, ran, filed, clock, dutyVars>>
-----------------------------------------------------------------------------
(***************************************************************************)
(* The beats that follow the release of the regulator branches.            *)
(***************************************************************************)
\* GDPR Art 34: a communication to the data subjects is owed on high risk only.
NoHighRisk ==
  /\ step = "affected_party" /\ lock = "idle"
  /\ Proceed(step)
  /\ UNCHANGED <<scenario, branchVars, lockVars, clock, dutyVars>>

\* On high risk its clock starts at the release, and the notice, with the count
\* as amended, goes through drafting to an empty lock without a diff.
HighRisk ==
  /\ step = "affected_party" /\ lock = "idle"
  /\ LET b == Head(todo)
         drafted == Drafter(Drafter(Triage(state[b], "fact_record_posted"),
                                    "draft_started"), "draft_posted")
     IN  /\ clock' = [clock EXCEPT ![b] = "running"]
         /\ claims' = [claims EXCEPT ![b] =
                          [CanonicalFacts EXCEPT !.records = AmendedFacts.records]]
         /\ state' = [state EXCEPT ![b] = OpenSignoff(drafted)]
         /\ Reset(b)
  /\ AskSigners
  /\ UNCHANGED <<scenario, step, todo, ran, filed, dutyVars>>

\* The regulator's desk rejects the SEC filing: the branch is reopened.
DeficiencyNotice ==
  /\ step = "deficiency"
  /\ state' = [state EXCEPT !["sec"] = Triage(@, "fact_amended")]
  /\ Proceed(step)
  /\ UNCHANGED <<scenario, claims, ran, lockVars, clock, dutyVars>>

\* The cure re-files the same facts: no guard is asked, no diff is run.
Cure ==
  /\ step = "cure" /\ lock = "idle"
  /\ claims' = [claims EXCEPT !["sec"] = CanonicalFacts]
  /\ state' = [state EXCEPT !["sec"] = OpenSignoff(Drafter(@, "draft_posted"))]
  /\ Reset("sec")
  /\ AskSigners
  /\ UNCHANGED <<scenario, step, todo, ran, filed, clock, dutyVars>>

\* Counsel lifts the hold.
LiftHold ==
  /\ step = "lift_hold"
  /\ hold' = "released"
  /\ Proceed(step)
  /\ UNCHANGED <<scenario, branchVars, lockVars, clock, guard, conflict, receipts>>

\* Only a branch that was released has a filing to submit.
Submittable(b) == b \in SubmitBranches /\ InRun(b) /\ state[b] = "released"

\* The receipts are sealed into the log; a run that submits nothing is an error.
Submission ==
  /\ step = "submission"
  /\ receipts' = { b \in Branches : Submittable(b) }
  /\ IF receipts' = {} THEN Raise ELSE Proceed(step)
  /\ UNCHANGED <<scenario, branchVars, lockVars, clock, guard, conflict, hold>>

\* The log is replayed, chained, signed and written.
Seal ==
  /\ step = "seal"
  /\ step' = "sealed"
  /\ UNCHANGED <<scenario, todo, branchVars, lockVars, clock, dutyVars>>

\* The room or a model failed for good: BandError, DrafterError.
Interrupt ==
  /\ step \notin Finished
  /\ step' = "interrupted"
  /\ UNCHANGED <<scenario, todo, branchVars, lockVars, clock, dutyVars>>

Over == step \in Finished /\ UNCHANGED vars

Drive ==
  \/ Open \/ Materiality \/ Reportability
  \/ SkipSuppressed \/ Draft \/ Recruit
  \/ CrossBorderScan \/ CrossBorderSignoff \/ Diff \/ Resolve
  \/ BeginRelease \/ SkipUnchecked \/ SignKey \/ Turn
  \/ Amend \/ Propose \/ Concur \/ SubmitAmendment \/ AmendDiff \/ BeginRerelease
  \/ NoHighRisk \/ HighRisk \/ DeficiencyNotice \/ Cure \/ LiftHold
  \/ Submission \/ Seal

Next == Drive \/ Interrupt \/ Over

Spec == Init /\ [][Next]_vars
-----------------------------------------------------------------------------
(***************************************************************************)
(* Properties.                                                             *)
(***************************************************************************)
\* The regulators' filings of one round agree on every load-bearing fact: what
\* was filed first agrees across the branches, and so does what was filed after
\* the amendment.  (_diff_and_gate, _amendment_phase)
FilingsOfARoundAgree ==
  \A a, b \in Regulators :
    \A i \in DOMAIN filed[a] \cap DOMAIN filed[b] : filed[a][i] = filed[b][i]

\* What the run holds released is what the last diff, or the beat that released
\* it, looked at: no later draft slips under a filing that stands.
FiledIsWhatWasDrafted ==
  \A b \in Branches :
    state[b] = "released" => /\ filed[b] # <<>>
                             /\ claims[b] = filed[b][Len(filed[b])]

\* A sealed run left nothing half done: every branch that took part is released
\* or suppressed with its clock stopped and nobody's key outstanding, the
\* cross-border conflict was decided, the hold lifted, and the receipts are
\* exactly those of the released branches the pipeline submits.
SealedRunIsComplete ==
  step = "sealed" =>
    /\ \A b \in Branches :
         clock[b] # "none" => /\ state[b] \in {"released", "suppressed"}
                              /\ clock[b] = "stopped"
                              /\ state[b] = "released" => InRun(b)
    /\ lock = "idle" /\ conflict # "blocked" /\ hold # "active"
    /\ scenario.mode = "submit" =>
         receipts = { b \in SubmitBranches : state[b] = "released" }

\* The customers are told after the regulators: the Art 34 clock starts only when
\* every regulator's branch is released, in its amended form if it was reopened,
\* and the legal hold outlives every filing.
LastThingsLast ==
  (clock[AffectedParty] # "none" \/ hold = "released") =>
    \A b \in Regulators : clock[b] # "none" => state[b] \in {"released", "suppressed"}

\* The amendments of a run all ask for a concurrence: a deficiency cure asks
\* nobody, and an amendment may meet a suppressed SEC branch (the last section
\* says what becomes of these two).
AmendmentsAreGuarded ==
  /\ scenario.mode # "deficiency"
  /\ ~(scenario.mode = "amendment" /\ scenario.materiality)

\* Every branch of such a run is a filing in the sense of the abstract
\* lifecycle.  A key counts from the release it was given for.
Filing(b) == INSTANCE FilingLifecycle WITH
  Keys    <- REQUIRED_ROLES,
  filed   <- state[b] = "released",
  checked <- state[b] \in {"contradiction_checked", "awaiting_human_signoff",
                           "released"},
  signed  <- SignedRoles({ k \in keys[b] : k[2] = Len(filed[b]) }),
  agreed  <- state[b] # "amending" \/ CanSubmit,
  closed  <- state[b] \in TERMINAL_STATES

KeepsFilingPromise ==
  /\ \A b \in Branches : Filing(b)!LifecycleInit
  /\ [][ AmendmentsAreGuarded =>
           \A b \in Branches :
             [Filing(b)!LifecycleNext]_(Filing(b)!lifecycle) ]_vars

\* A run ends: it seals, or it stops on an error.
RunEnds == <>(step \in Finished)
-----------------------------------------------------------------------------
(***************************************************************************)
(* The inductive invariant: where the driver stands says what every branch *)
(* has been through.  A run that raised or was interrupted is only held to *)
(* what it has filed.                                                      *)
(***************************************************************************)
FloorTypeOK ==
  /\ scenario \in Scenarios /\ step \in Steps
  /\ todo \in Seq(Branches) /\ ran \in Seq(Branches)
  /\ state \in [Branches -> State]
  /\ claims \in [Branches -> Claims \cup {NoClaims}]
  /\ keys \in [Branches -> SUBSET (REQUIRED_ROLES \X Nat)]
  /\ lock \in {"idle", "signing", "turned"} /\ signers \in Seq(REQUIRED_ROLES)
  /\ filed \in [Branches -> Seq(Claims)]
  /\ clock \in [Branches \cup StartupClocks -> {"none", "running", "stopped"}]
  /\ guard \in {"empty", "proposed", "concurred"}
  /\ conflict \in {"none", "blocked", "resolved"}
  /\ hold \in {"none", "active", "released"}
  /\ receipts \subseteq Branches

CutShort == step \in {"raised", "interrupted"}
Drafters == {"nis2", "sec", "dora"}
InTodo(b) == \E i \in DOMAIN todo : todo[i] = b
Joined(b) == clock[b] # "none"
Live(b) == Joined(b) /\ state[b] # "suppressed"
Signing(b) == lock # "idle" /\ b = Head(todo)
OnceEach(s) == \A i, j \in DOMAIN s : s[i] = s[j] => i = j

\* The phases up to the diff, in which every live branch gets its draft.
Joining == {"recruit_uk", "recruit_nydfs", "cross_border",
            "cross_border_signoff", "diff", "resolve"}
Early == {"open", "materiality", "reportability", "drafting"} \cup Joining
Ending == {"seal", "sealed"}

\* A loop that runs has a branch to visit, and visits none twice.
Loops == {"reportability", "drafting", "recruit_uk", "recruit_nydfs", "release",
          "amend_submit", "amend_release", "affected_party", "deficiency", "cure"}
Visits(p) == { Work(p)[i] : i \in DOMAIN Work(p) }

TodoOK ==
  /\ OnceEach(todo)
  /\ \A b \in Branches : InTodo(b) => b \in Visits(step)
  /\ step \in Loops => todo # <<>>

\* The phase is one the command line asked for, and the lock is turned only
\* inside a release.
LoopOK ==
  /\ TodoOK /\ OnceEach(ran)
  /\ Wanted(step)
  /\ step = "resolve" => scenario.mode = "inject_contradiction"
  /\ step = "cross_border_signoff" => scenario.mode = "cross_border"
  /\ lock # "idle" => step \in Releases
  /\ step \in {"open", "materiality", "reportability", "drafting", "recruit_uk"}
       => ~Joined("uk") /\ ~Joined("nydfs")
  /\ step = "recruit_nydfs" => ~Joined("nydfs")

\* The branches of the run, and those that are not in it.
RunOK ==
  /\ \A b \in Regulators :
       /\ InRun(b) <=> Joined(b) \/ (step = "open" /\ b \in Drafters)
       /\ b \in Drafters => (Joined(b) <=> step # "open")
       /\ ~Joined(b) => state[b] = "initiated" /\ claims[b] = NoClaims
       /\ state[b] = "suppressed" =>
            /\ scenario.mode = "reportability" \/ (scenario.materiality /\ b = "sec")
            /\ clock[b] = "stopped" /\ b \in Drafters
            /\ step \in Early => claims[b] = NoClaims
       /\ ~Live(b) => filed[b] = <<>>

\* The state of a live branch.
Stage(b) ==
  CASE step \in {"materiality", "reportability"} -> "fact_record_ready"
    [] step = "drafting" ->
         IF InTodo(b) THEN "fact_record_ready" ELSE "draft_submitted"
    [] step = "resolve" -> "drafting"
    [] step \in Joining \ {"resolve"} -> "draft_submitted"
    [] step = "release" /\ InTodo(b) ->
         IF Signing(b) THEN "awaiting_human_signoff" ELSE "contradiction_checked"
    [] step \in {"propose", "concur"} /\ Amended(b) -> "amending"
    [] step = "amend_submit" /\ Amended(b) ->
         IF InTodo(b) THEN "amending" ELSE "draft_submitted"
    [] step = "amend_diff" /\ Amended(b) -> "draft_submitted"
    [] step = "amend_release" /\ InTodo(b) ->
         IF Signing(b) THEN "awaiting_human_signoff" ELSE "draft_submitted"
    [] step = "cure" /\ b = "sec" ->
         IF lock = "idle" THEN "amending" ELSE "awaiting_human_signoff"
    [] OTHER -> "released"

\* What its last draft asserts.
Asserts(b) ==
  CASE step \in {"materiality", "reportability"} -> NoClaims
    [] step = "drafting" -> IF InTodo(b) THEN NoClaims ELSE ClaimFactsFor(b)
    [] step \in Joining -> ClaimFactsFor(b)
    [] step = "amend_submit" /\ Amended(b) ->
         IF InTodo(b) THEN CanonicalFacts ELSE AmendedFacts
    [] step \in {"amend_diff", "amend_release"} /\ Amended(b) -> AmendedFacts
    [] step \in Ending \cup {"affected_party"} /\ Amends /\ Amended(b) -> AmendedFacts
    [] OTHER -> CanonicalFacts

\* How often it has filed.
Versions(b) ==
  CASE step \in Early -> 0
    [] step = "release" -> IF InTodo(b) THEN 0 ELSE 1
    [] step = "amend_release" /\ Amended(b) -> IF InTodo(b) THEN 1 ELSE 2
    [] step \in Ending \cup {"affected_party"} /\ Amends /\ Amended(b) -> 2
    [] step \in Ending /\ scenario.mode = "deficiency" /\ b = "sec" -> 2
    [] OTHER -> 1

LiveOK ==
  \A b \in Regulators :
    Live(b) => /\ state[b] = Stage(b)
               /\ claims[b] = Asserts(b)
               /\ Len(filed[b]) = Versions(b)

\* A clock runs until the branch has filed once.
ClocksOK ==
  \A b \in Branches : Joined(b) /\ filed[b] # <<>> => clock[b] = "stopped"

\* The communication to the customers comes last.
CustomersOK ==
  /\ ~Joined(AffectedParty) =>
       /\ state[AffectedParty] = "initiated" /\ claims[AffectedParty] = NoClaims
       /\ filed[AffectedParty] = <<>> /\ ~InRun(AffectedParty)
       /\ step = "affected_party" => lock = "idle"
  /\ Joined(AffectedParty) =>
       \/ /\ step = "affected_party" /\ lock # "idle"
          /\ state[AffectedParty] = "awaiting_human_signoff"
          /\ claims[AffectedParty] # NoClaims
          /\ filed[AffectedParty] = <<>> /\ ~InRun(AffectedParty)
       \/ /\ step \in Ending /\ scenario.mode = "affected_party"
          /\ state[AffectedParty] = "released" /\ InRun(AffectedParty)
          /\ filed[AffectedParty] = <<claims[AffectedParty]>>

\* No key outlives its release, and the lock holds the keys of this one.
Key(role, b) == <<role, Len(filed[b])>>
KeysOK ==
  /\ \A b \in Branches : ~Signing(b) => \A k \in keys[b] : k[2] < Len(filed[b])
  /\ lock = "signing" =>
       \/ signers = RELEASE_SIGNERS /\ keys[Head(todo)] = {}
       \/ /\ signers = <<"head_of_ir">>
          /\ keys[Head(todo)] = {Key("general_counsel", Head(todo))}
  /\ lock = "turned" =>
       keys[Head(todo)] = {Key("general_counsel", Head(todo)),
                           Key("head_of_ir", Head(todo))}

\* A first release is under way only for a branch whose signoff is open.
SignoffIsOpen ==
  step = "release" /\ lock # "idle" => state[Head(todo)] = "awaiting_human_signoff"

DutyOK ==
  /\ step = "concur" => guard = "proposed"
  /\ step \in {"amend_submit", "amend_diff", "amend_release"} => guard = "concurred"
  /\ step \in Early \cup {"release", "amend", "propose"} => guard = "empty"
  /\ conflict = "blocked" => step = "cross_border_signoff"
  /\ hold = "active" => scenario.mode = "legal_hold" /\ step \notin Ending
  /\ hold = "released" => scenario.mode = "legal_hold" /\ step \in Ending
  /\ scenario.mode = "submit" /\ step \in Ending =>
       receipts = { b \in SubmitBranches : state[b] = "released" }

\* What was filed in a round, whatever became of the run.
RoundFacts(i) ==
  IF i = 1 \/ scenario.mode = "deficiency" THEN CanonicalFacts ELSE AmendedFacts

RoundsOK ==
  \A b \in Regulators : \A i \in DOMAIN filed[b] : filed[b][i] = RoundFacts(i)

IInv ==
  /\ FloorTypeOK /\ RoundsOK /\ FiledIsWhatWasDrafted /\ LastThingsLast
  /\ ~CutShort => /\ LoopOK /\ RunOK /\ LiveOK /\ ClocksOK /\ CustomersOK
                 /\ KeysOK /\ DutyOK
=============================================================================
