--------------------------- MODULE ReplayTimeline ---------------------------
(***************************************************************************)
(* The timeline the console plays: web/app.js builds an ordered list of    *)
(* steps out of a packet and reduces the steps played so far into what the *)
(* page shows.  A packet is abstracted to the set of beats it records, a   *)
(* step to the marks the reducers read.                                    *)
(***************************************************************************)
EXTENDS Integers, Sequences, SequencesExt, FiniteSetsExt

CONSTANTS Scenarios,   \* the captured runs of data/manifest.json
          Beats        \* the beats each of them records

BeatNames == {"contradiction", "chaos", "reconciliation"}

ASSUME BeatsAssumption == Beats \in [Scenarios -> SUBSET BeatNames]

ScenarioHasBeat(s, beat) == beat \in Beats[s]

Branches == {"nis2", "sec", "dora"}
Nothing == [b \in {} |-> "idle"]
All(state) == [b \in Branches |-> state]
Reopened(state) == [b \in {"sec", "nis2"} |-> state]

\* One step: what it says of the branches, the banner and the panel it reveals.
Step(kind, sets, banner, reveal) ==
  [kind |-> kind, sets |-> sets, banner |-> banner, reveal |-> reveal]
Plain(kind) == Step(kind, Nothing, "none", "none")
DraftStep(b) == Step("draft", [x \in {b} |-> "draft_submitted"], "none", "none")

DiffSteps(s) ==
  IF ScenarioHasBeat(s, "contradiction")
    THEN << Step("diff_blocked", All("blocked"), "contradiction", "contradiction"),
            Step("diff_passed", All("contradiction_checked"), "contradiction_cleared", "none") >>
    ELSE << Plain("diff_passed") >>

ChaosSteps(s) ==
  IF ScenarioHasBeat(s, "chaos") THEN << Step("chaos", Nothing, "chaos", "chaos") >> ELSE <<>>

AmendmentSteps(s) ==
  IF ~ ScenarioHasBeat(s, "reconciliation") THEN <<>>
  ELSE << Step("fact_amended", Reopened("amending"), "reconciliation", "reconciliation"),
          Step("amend_blocked", Nothing, "none", "reconciliation"),
          Step("propose", Nothing, "none", "reconciliation"),
          Step("concur", Nothing, "none", "reconciliation"),
          Step("human_released", Reopened("released"), "none", "none") >>

BuildSteps(s) ==
  << Plain("clock_started"), Plain("fact_record"),
     DraftStep("nis2"), DraftStep("sec"), DraftStep("dora") >>
  \o DiffSteps(s) \o ChaosSteps(s)
  \o << Step("human_released", All("released"), "none", "none") >>
  \o AmendmentSteps(s) \o << Plain("final") >>

(***************************************************************************)
(* The reducers.  Each reads the prefix of the steps played so far.        *)
(***************************************************************************)
BranchState(active, b) ==
  LET said == {i \in DOMAIN active : b \in DOMAIN active[i].sets}
  IN IF said = {} THEN "idle" ELSE active[Max(said)].sets[b]

LastBanner(active) ==
  LET said == {i \in DOMAIN active : active[i].banner # "none"}
  IN IF said = {} THEN "none" ELSE active[Max(said)].banner

Reveals(active) == {active[i].reveal : i \in DOMAIN active} \ {"none"}
ReachedBeats(active) ==
  Reveals(active) \cup ({active[i].banner : i \in DOMAIN active} \cap {"contradiction", "reconciliation"})

\* Fault: a release is looked for before the reopened branches are.
DeriveGate_ReleasedFirst(active) ==
  LET Some(states) == \E b \in Branches : BranchState(active, b) \in states
      Gate(headline, release) == [headline |-> headline, release |-> release]
  IN IF Some({"blocked"}) THEN Gate("blocked", "held")
     ELSE IF \E i \in DOMAIN active : active[i].kind = "human_released" THEN Gate("cleared", "released")
     ELSE IF Some({"amending"}) THEN Gate("amending", "held")
     ELSE Gate("drafting", "running")

\* The panel of the incident commander: the first of these that applies.
DeriveGate(active) ==
  LET Some(states) == \E b \in Branches : BranchState(active, b) \in states
      released == \/ \A b \in Branches : BranchState(active, b) = "released"
                  \/ \E i \in DOMAIN active : active[i].kind = "human_released"
      Gate(headline, release) == [headline |-> headline, release |-> release]
  IN IF Some({"blocked"}) THEN Gate("blocked", "held")
     ELSE IF Some({"amending"}) THEN Gate("amending", "held")
     ELSE IF LastBanner(active) = "chaos"
       THEN Gate("recovered", IF released THEN "released" ELSE "running")
     ELSE IF released THEN Gate("cleared", "released")
     ELSE IF Some({"draft_submitted", "drafting"}) THEN Gate("drafting", "running")
     ELSE Gate("incident open", "running")
=============================================================================
