# Deadline Room in TLA+

Deadline Room takes one cyber incident and drives it to several regulator
filings at once (NIS2, SEC, DORA and, when they are in the blast radius, UK,
NYDFS and the data subjects themselves). A deterministic *Warden* walks every
filing branch through a typed protocol; language-model *drafters* write the
text; a contradiction diff can veto; two humans have to turn two keys before a
filing leaves; after a release the facts may be amended, which reopens the
filings and asks the drafters for a concurrence. The agents talk over an
external chat service, Band, and a ledger of idempotency keys keeps a restarted
agent from filing twice. What a run did is kept in a log that replays, is
hashed, signed and dated, is folded into an examiner packet and shown in a web
console; a service collects the sealed runs of a fleet.

This directory holds TLA+ models of that program, the TLC configurations that
check them, and proofs for TLAPS. Every definition is translated from the
source; `PROJECT.json` ("map") names the lines each one stands for.

    tlc -config ComposedWarden.cfg     ComposedWarden
    tlc -config BandRoom.cfg           BandRoomMC
    tlc -config WorkerLoop.cfg         WorkerLoop
    tlc -config DrafterHandoff.cfg     DrafterHandoff
    tlc -config HandoffDrain.cfg       HandoffDrain
    tlc -config IncidentsApart.cfg     IncidentsApartMC
    tlc -config LiveClocks.cfg         LiveClocksMC
    tlc -config ExaminerPacket.cfg     ExaminerPacketMC
    tlc -config CaseFile.cfg           CaseFileMC
    tlc -config GovernanceService.cfg  GovernanceServiceMC
    tlc -config ReplayConsole.cfg      ReplayConsoleMC
    tlc -config ReplayConsoleDoc.cfg   ReplayConsoleMC     (finds a violation)
    tlapm OneFilingProofs.tla
    tlapm FilingFloorProofs.tla
    tlapm BandRoomProofs.tla           (minutes)
    tlapm ExaminerPacketProofs.tla     (minutes)
    tlapm LoopProofs.tla
    tlapm HandoffDrainProofs.tla
    tlapm SideBySideProofs.tla
    tlapm FinishedRunProofs.tla

## 1. Inventory

What the system consists of, and where each part is modelled. `PROJECT.json`
("components") lists every part with its sources, including those left out.

| Part | State it keeps | Operations | Module |
|---|---|---|---|
| Protocol state machine (`warden/state_machine.py`) | one state per branch | `apply(branch, event, role)`: authority, absorption, table | `WardenProtocol` |
| Two-key gate (`release_gate.py`) | signatures per branch | `sign`, `decision`, `reset` | `ComposedWarden`, `FilingFloor` |
| Negotiation guard (`negotiation.py`) | the envelopes of an amendment | `post`, `can_submit_amendment`, `can_pass_diff` | `ComposedWarden`, `FilingFloor`, `BandRoom` |
| Composed model checker (`modelcheck.py`) | none, enumerates nodes | `successors`, the named invariants | `ComposedWarden` |
| Floor driver (`floor/run_floor.py`) | branches of the run, claims, filings | the phases of `_run_full_floor` | `FilingFloor` |
| Diff, verdict gates, obligations, hold, submission, deficiency, recruit | a conflict, a hold, receipts | one phase each | `FilingFloor` |
| Room traffic (`_drain*`, `shell_adapter.py`, Challenger) | messages, mentions, inboxes | announce, drain, sweep for an envelope | `BandRoom` |
| Liveness watchdog (`warden/liveness.py`) | progress in logical ticks | `register`, `tick`, `progress`, `check`, `recover` | `BandRoom` |
| Band shell (`shell/band_agent_shell.py`, `floor/retry.py`) | the mention in hand | `next_message`, `mark`, `already_posted`, `post`, `run`, the retried `_call` | `BandCalls`, `WorkerLoop` |
| Drafter drive (`_drive_drafter`) | mention, draft, kill switch | drain, draft, ledger, post, kill, recover, mark | `DrafterHandoff` |
| Ledger (`warden/ledger.py`) | keys seen, duplicates dropped | `record` | `DrafterHandoff`, `HandoffDrain`, `ConcurrentIncidents` |
| Simulator and fake Band (`simulate.py`, `fake_band.py`) | messages with attempts, room, failures | both drains, the correction, the release | `HandoffDrain` |
| Concurrent incidents (`run_concurrent`) | several incidents over one Warden | steps of any incident | `ConcurrentIncidents` |
| Statutory clocks (`clocks.py`, `margin.py`), live escalation | deadlines, tiers told | `add_business_days`, tiers, the escalation loop | `StatutoryClocks`, `LiveClocks` |
| Filing text and its readers (`drafter.py`, `claims.py`, `grounding.py`, `completeness.py`, `deficiency.py`) | texts | draft, parse, score | `FilingProse` |
| Examiner packet (`_assemble_packet`, `packet.py`, `timeline.py`, `controls.py`, `sod.py`, ...) | the packet, its sheets, three files | assemble, derive, render, write | `ExaminerSheets`, `ExaminerPage`, `ExaminerPacket` |
| Run log, replay, hash chain (`replay.py`, `chain.py`, `logcheck.py`, `audit_run.py`, `tamper_sweep.py`) | an append-only log | append, replay, audit, edit | `RunLog` |
| Signing, provenance, timestamps (`signing.py`, `intoto.py`, `timestamp.py`, `resign_captures.py`, the verifiers) | packet, sidecar, envelope, token | write, verify | `EvidenceBundle` |
| Case file, assertion, filed receipts, what-if answers | one file each | make, verify | `CaseFile`, `WhatIf` |
| Seal worker, governance service, portfolio (`service/`, `portfolio.py`, `attest_portfolio.py`) | a directory of sealed runs | post, seal, read, attest, verify | `Portfolio`, `GovernanceService` |
| Replay console (`web/app.js`) | page globals | load, play, verify, drill | `ReplayTimeline`, `ReplayConsole` |

How they interact: `run_floor` calls the state machine, the gate, the guard and
the diff directly and in one thread; it reaches the drafters only through Band,
by mentions that are served again until they are marked. The ledger and the
room are the only memory an agent has across a restart. The state machine never
raises: a rejected event is recorded and the driver goes on, so whether the
branch moved is checked, if at all, by a later step. Everything after the run
works on files: the log, the packet derived from the run's variables, the
sidecars written by scripts, the copies served by the service and the console.

What is hard about it, and what the properties are aimed at (each hazard at its
line is in `PROJECT.json`, "hazards"):

* **Consent across cycles.** A filing is released, reopened, re-drafted and
  released again. A key, a concurrence or a diff of the earlier cycle must not
  admit the later release.
* **Stale comparisons.** The diff looks at all claims once; corrections,
  amendments and cures replace some of them afterwards, and the texts in the
  packet are yet another copy.
* **Rejected events, partial runs.** The driver has no `except` branch; a failed
  call ends the run in the middle of a phase.
* **Oldest mention first.** The driver waits for one message and is served
  another.
* **Lost answers and kills** between ledger, post and mark.
* **Several files, several verifiers.** Four files are written one after the
  other; each verifier reads another choice of them.
* **Threads over a directory**, and **awaits in a page**: state read before is
  used after.
* **Calendars**, wall clocks that jump, and loops that have to end.

## 2. Modules

| Module | What it is |
|---|---|
| `WardenProtocol` | States, events, transition and authority tables, `apply()` as `Moves`, `Admits`, `NextState`. No variables; every machine below extends it. |
| `FilingLifecycle` | Abstract: what is promised about one filing. |
| `ComposedWarden`, `OneFilingProofs` | One branch under table, authority, gate and guard; its inductive invariant and its refinement of `FilingLifecycle`. |
| `FilingFloor`, `FilingFloorProofs` | One whole run of the floor, all branches, all beats; its inductive invariant and its refinement of `FilingLifecycle`, branch by branch. |
| `BandRoom`, `BandRoomMC`, `BandRoomProofs` | The same run with every message of the room; its inductive invariant, and what of the floor holds in it. |
| `BandCalls` | One retried HTTP call and one read of the room, as operators a client's actions are built from. |
| `ExactlyOnceHandoff` | Abstract: what is promised about one unit of work. |
| `WorkerLoop`, `LoopProofs` | `BandAgentShell.run` carrying one mention, with kills; its inductive invariant and its refinement of `ExactlyOnceHandoff`. |
| `DrafterHandoff`, `OneFilingProofs` | `_drive_drafter`, with and without the chaos drill; the same two results. |
| `HandoffDrain`, `HandoffDrainProofs` | `run_incident` over the fake Band; its inductive invariant and its refinement of `ExactlyOnceHandoff`. |
| `ConcurrentIncidents`, `IncidentsApart`, `IncidentsApartMC` | Several incidents over one Warden; each of them is `ConcurrentIncidents` with that incident alone. |
| `StatutoryClocks`, `LiveClocks`, `LiveClocksMC`, `LoopProofs` | Calendars, counts and tiers; the live board and its escalation loop; what a count of business days computes and the loop's inductive invariant. |
| `FilingProse`, `ExaminerSheets`, `ExaminerPage`, `ExaminerPacket`, `ExaminerPacketMC`, `ExaminerPacketProofs` | Texts, sheets, page (operators only); the floor's run with times and texts, and the packet assembled from it; its inductive invariant, and what of the packet is the run. |
| `RunLog` | Logs the floor leaves, replay, chain, audit, edits (operators only). |
| `EvidenceBundle` | The four sealed files of a captured run, their writer and their verifiers. |
| `WhatIf`, `CaseFile`, `CaseFileMC` | The receipts made of a sealed bundle, and their verifiers. |
| `Portfolio`, `GovernanceService`, `GovernanceServiceMC` | The folds over a fleet (operators); threads over the directory. |
| `ReplayTimeline`, `ReplayConsole`, `ReplayConsoleMC` | What the page derives from a packet (operators); the page's handlers. |
| `FinishedRunProofs` | Of a finished run: the inductive invariants of bundle and receipts and what every verifier accepts (`CaseFile`); the panels, the verdict and the certificate of the page (`ReplayConsole`). |
| `SideBySideProofs` | Of what shares one store: every incident runs as it would alone (`IncidentsApart`); what clients of one directory get, and what an attestation of it is worth (`GovernanceService`). |

`BandRoom` and `ExaminerPacket` each extend `FilingFloor`, so what is checked of
them is checked of the whole run; `GovernanceService` and `CaseFile` both build
on the logs of `RunLog`.

Definitions whose comment starts with *Fault:* are not part of any
specification. Each is a plausible bug of the code next to the correct
definition, and `PROJECT.json` ("mutants") pairs it with the property that
catches it.

### WardenProtocol and ComposedWarden

A state of `ComposedWarden` is a `Node` of `warden/modelcheck.py`: position in
the table, keys in the lock, whether a release has committed, amendment round,
concurrence. The edges of `successors()` are the actions; the side effects of
`_apply_protocol_effects` are in the actions of the events that have them,
everything else is `PlainEvent`. `MAX_ROUNDS` is the code's own constant and
saturates the round counter as the code does. The repository's checker looks at
nodes and edges one at a time; the TLA+ model adds what holds along paths.

### FilingFloor

`_run_full_floor` is one sequential function plus one function per phase.
`step` names the phase, `Phases` their order, `Wanted` which ones the command
line asks for, `todo` the branches the loop of a phase still has to visit. An
action is one iteration of a phase's loop, or the phase. `Raise` is one of the
run's own `RuntimeError`s, `Interrupt` an exception of Band or of a model, which
may end the run before any step.

Kept: the state of every branch, what each draft asserts (`claims`, reduced to
the three facts that any run can make differ), who signed for which version
(`keys` dates a signature by the number of earlier filings), what was released
(`filed`), the clocks' status, the guard, the conflict, the hold, the receipts.
Verdicts of models are free choices.

### BandRoom

Every action of `FilingFloor` together with the messages its code posts, each a
record of dedup key, sender, mentions and the branches it is about; `room` is
the log with each agent's marks. A drain takes the agent's *oldest* unmarked
mention, and the sweep for the envelope clears up to twelve. The fake room
drops a post whose key is there; `lag` is by how many polls the last message
shows late (the live room). The watchdog counts drains. With a Challenger, its
questions and the drafters' replies are in the same inboxes. The driver's own
order is kept where an inbox sees it: the submission beat speaks of SEC, NIS2
and ICO in this order, whatever order the branches were released in.

### BandCalls, WorkerLoop, DrafterHandoff

`Call(Effect, NoEffect, Ok, GivesUp)` is `_call`: it may be answered, be spoiled
by a transient failure *with or without its effect* and be tried again while
attempts are left, or be refused. `ReadRoom` is `context()`, which turns every
failure into an empty list. In `run()` the post sits in a `try`: a failure goes
to `mark(failed)`, and only a failure of *that* call leaves the loop.
`_drive_drafter` has no `try`: any failure ends the floor. Band itself is
external and modelled from its use: a mention is served until it is marked.

### HandoffDrain

`run_incident` without its amendment. Failure schedules are chosen when the
failure point is reached (`CanFail`: once per branch and attempt, as `consumed`
does it), and the drain order is the choice of the next branch, so one run
covers every schedule up to `MaxFailures` and every order.

### ConcurrentIncidents, IncidentsApart

`run_concurrent` interleaves the step lists of its incidents; the default
interleaving is round-robin, but a caller may give any, so the model lets any
incident take its next step, or stop early (`Conclude`). `at[i]` is how many
steps incident i has taken. State machine, ledger, clocks and lock are shared
and keyed by the incident's name. `IncidentsApart` instantiates the same module
for one incident over the restriction of the shared state to its keys: what is
promised is that every step of the many is a step or a stutter of each alone.

### StatutoryClocks, LiveClocks

Days are numbers; the holiday tables of the five calendars are the code's sets.
`CountIsLawful` compares the day-by-day count with the set of business days by
a holiday law derived separately (fixed dates, Easter, n-th weekdays, substitute
days). `LiveClocks` builds the board from the catalog and runs the escalation
loop under a wall clock that is free to step by any of `Ticks`.

### FilingProse, ExaminerSheets, ExaminerPage, ExaminerPacket

A text is its dates, actors, figures, field bodies and claims blocks. The
sheets are pure readings of the packet; the page is a tone per section.
`ExaminerPacket` adds to each action of the floor the scripted minute of its
events and the text it drafts, possibly with one slip of the model, then
assembles the packet in the code's order (the control register before the
sign-off rows, which matters), and writes the three files one after the other
under names a later run uses again.

### RunLog, EvidenceBundle, CaseFile, WhatIf

`Recorded(mode)` is the log the floor leaves in a mode, made by `replay` itself
from a script of events. Hashes are perfect: a digest is the value. `Edits` are
the single edits of `tamper_sweep.py`. `StartReseal` and the four `Write...`
actions are `resign_captures.py`; `Crash` stops it between two of them. The
verifiers are predicates over the four files, each with its own choice of
copies. `CaseFile` lets case file, assertion and what-if receipt be made at any
moment of a reseal, and alters them field by field. A what-if answer is computed
as `whatif.py` computes it: the later SEC deadline by `StatutoryClocks` over the
holiday table, the run without its veto by stripping the block from the log and
replaying the rest, the uncorrected figure from the amended record. A revision of
the clock rows moves the SEC start by an hour, so a stale answer differs.

### Portfolio, GovernanceService

Every post and read is a thread with a program counter: stage, seal, move (a
rename, or a copy in two steps), sign, then list the directory and read it run
by run. Faults, at most `MAX_FAULTS`: the process stops, or somebody removes, renames,
swaps or changes the files of a run.

### ReplayTimeline, ReplayConsole

A handler runs to its next `await`; what it awaits is a pending answer that may
arrive in any order. Variables are the page's globals.

## 3. What is checked

"States" are TLC's distinct states.

| Run | States | Question |
|---|---|---|
| `composed` | 111 | Do keys, commit and concurrence belong to one version, is every path a filing lifecycle, does it always come back to a release? |
| `floor` | 45,936 | Every command line, verdict, failure point, lag: is what is filed what was compared and told, does every drain find its message, is a sealed run complete, does every branch implement `FilingLifecycle`? |
| `worker` | 8,839 | Is the shell's loop an exactly-once handoff under kills, refusals and lost answers, and what does an extra copy cost? |
| `drafter` | 1,381 | The same for the hand-driven drafter, and does the packet show the draft that landed? |
| `drain` | 161,064 | Three branches, all schedules, all orders: do ledger, room and protocol agree, and is everything filed? |
| `incidents` | 864 | Two incidents of three branches in any order: is each as it would be alone? |
| `clocks` | 1,930 | Counts of one to four business days from every day of 2026-2028 in five calendars; is every tier told once and in order, does the loop end? |
| `packet` | 25,664 | Every command line, with a slip in one filing: does the packet tell the run that was run? |
| `evidence` | 31,270 | Every single edit, two revisions and two crashes: do honest seals and receipts verify and nothing else? |
| `service` | 145,920 | Two posts and the attestation script over one directory: are answers sound? |
| `console` | 309,091 | Two runs, loads, playback, proofs and drill at every await: what does a verdict or a certificate mean? |
| `console_doc_drill` | | A comment of the code that does not hold (section 6). |

The properties, by what they guard:

* *Consent*: the parts of `WardenIInv` (`KeysAreUsedUp`, `ReleaseCommitIsPosition`,
  `ConcurrenceIsForThisRound`), and `KeepsFilingPromise` (composed and floor): a
  filing is filed only from a checked version, under both keys turned since the
  last filing, and once reopened only after agreement. On the floor the promise
  is stated for the runs whose amendments are guarded (`AmendmentsAreGuarded`);
  section 6 says what becomes of the two others.
* *What was compared is what is filed*: `FilingsOfARoundAgree`,
  `FiledIsWhatWasDrafted`, `EveryBranchFiles`.
* *Completeness and order*: `SealedRunIsComplete`, `LastThingsLast`.
* *The room*: `TurnsAreServed` (no drain comes back empty, no assertion of the
  run fails, with two named exceptions), `RoomKnowsEveryFiling`,
  `RecoveryIsTold`.
* *Exactly once*: `KeepsHandoffPromise` (worker, drafter, drain),
  `ExtraCopiesCostFaults`, `PacketShowsWhatLanded`, `LandedOnce`.
* *Apart*: `IncidentsAreApart`.
* *Time*: `DeadlinesAreLawful`, `ToldOnceAndInTime`.
* *The packet*: `TimelineReplays` (read from the top, the timeline is a legal run
  of the protocol), `AccountsAgree` (the sheets tell one story),
  `ExportIsOfTheFilings` (the facts of an export are those filed last, its text is
  the one filed first), `ScreensFlagOnlySlips`, `PageTellsTheRun`.
* *Evidence*: `ReceiptsAreExact` (each verifier separates the honest from the
  altered, with the exceptions of section 6 written into it),
  `AcceptedBundleIsOneSeal`.
* *The fleet*: `ReadsAreSound` (an answer lies between two states of the
  directory, and a rename never makes a read fail), `VerifiesIffUnchanged`,
  `FleetAddsUp`.
* *The page*: `PanelsAgree`, `VerdictBindsOneRun`, `CertificateIsEarned`.
* *Ends*: `Progress`, `RunEnds` (floor and drain), `MentionIsClosed`,
  `EscalationEnds`, `ResealHeals`, `PostsAreAnswered`.

### Bounds

* `MAX_ROUNDS = 3` is `negotiation.MAX_ROUNDS`; nothing is cut off.
* `Scenarios` (floor, packet): every combination of mode, `--materiality`, UK and
  NYDFS that `main()` accepts. Claims have one alternative value per fact because
  no run of the code has more. `SomeLags = {0, 5, 6}`: the Warden's loop ends after
  six empty polls, so these are at once, just in time and too late.
* `OneSlip` (packet): one slip per kind of branch (startup, recruited, sent back)
  and per kind of flaw; a second slip is another filing's and the screens look
  at filings one at a time.
* `AttemptLimits = {1, 3}`: the shell's default and the live floor's value.
  `MaxFaults = 3`: enough to use up three attempts of one call, or to spoil a
  post, the mark that reports it and the poll after it. `IdleBreaks = 4` (the
  floor passes 6 or 8): what matters is only whether it exceeds the number of
  spoiled polls. `DrainLoops = 3` (the code: 12): first poll, a middle one, the
  last. `MaxCrashes = 2`: a kill, and a kill of the restarted process.
* Drain: the three branches of the simulator; `MaxFailures = 2` reaches the
  second attempt; `MaxVisits = 6` (the code: 64 per branch) is small on purpose,
  so that `GivesUp` happens.
* Incidents: two, with three branches each and at most one killed drafter; more
  is what `RunsApart` proves.
* Clocks: all days of the three years the tables cover. `Duration = 24` seconds
  of wall time at `Compression = 10800` are the 72-hour clocks with all their
  margins; the anchors are before a weekend with a holiday, at a turn of the year
  and at the end of the tables; `Ticks` has a backward step, a standstill and
  jumps over one and several tiers.
* Evidence: the branches NIS2 and SEC (those an amendment touches), two
  revisions and two crashes, so that a seal is interrupted, repeated and
  interrupted again. The third branch adds entries of kinds that are there.
* Service: two posts, the attestor, one captured run, one fault, two entities,
  two pending records: a post and a read overlap another post in every order.
  Two lists of heads with one root take four runs, more than the three names:
  `AttestationHoldsIffUnchanged` covers them.
* Console: two runs, two loads and one verification beyond the initial ones, so
  that two answers of each kind can be in flight; `Hasty` says whether the user
  loads runs while a drill is open.

### Fairness

* `ComposedWarden`: the repository's `_check_prog1` asks that every node can
  reach a completed release. In a finite graph that is recurrence when no edge
  is avoided for ever, hence strong fairness of the forward edges. Vetoes,
  suppression and breaches get none.
* `BandRoom`, `HandoffDrain`: the driver is one thread that takes its next step,
  `WF_vars(Drive)`. `Interrupt` and failures get none.
* `WorkerLoop`: the loop takes its next step, and a dead agent is started again,
  which is what the shell's recovery from the room presumes. Kills and network
  faults get no fairness and are bounded.
* `LiveClocks`: the phase is a loop on the run's thread. Nothing is asked of the
  wall clock; the loop's stall guard and its duration end it.
* `EvidenceBundle`, `CaseFile`: a script that runs takes its next step, an
  interrupted one is run again, an altered copy is thrown away. Without a second
  run of the script nothing heals, and nothing is claimed.
* `GovernanceService`: the thread of a request takes its next step. Nothing is
  asked of crashes or of people.
* `DrafterHandoff`, `ExaminerPacket`, `ReplayConsole`, `ConcurrentIncidents`:
  safety only.

## 4. What is proved

TLAPS checks the following for every value of the constants that satisfies the
named assumptions. Each component has one inductive invariant (`WardenIInv`,
`IInv`, `RoomIInv`, `PacketIInv`, `ClocksIInv`, `BundleIInv`, `CaseIInv`,
`SInv`); the state it strengthens is said with it. TLC checked every one of them
as an invariant of the run of its module first.

### One branch, and several incidents

* `ComposedInvariant`: `WardenSpec => []WardenIInv`, for every positive `MAX_ROUNDS`
  (`MaxRoundsAssumption`). `KeysAreUsedUp` alone is not inductive: whether a
  lock is empty when an amendment starts depends on the release having cleared
  it (`ReleaseCommitIsPosition` ties the commit to the position), and that a
  concurrence is for an existing round needs `AmendmentRoundIsOpen`. `WardenIInv` is
  their conjunction with the types. One step per action, over three lemmas that
  read the transition table (`MovesTyped`, `PlainMoves`, `GatedMoves`).
* `WardenKeepsFilingPromise`: `WardenSpec => Filing!LifecycleSpec`. Each action is
  mapped to a step of `FilingLifecycle` or a stutter, under `WardenIInv`: a reopening
  starts from an empty lock only because of `KeysAreUsedUp`.
* `TypeCorrect` and `RunsApart`: `IncidentsSpec => IncidentsAreApart`, for any set of
  incidents, any sequence of branches, any killed drafters and any order of
  the steps, early stops included. Each action of incident i is shown to be the
  same action of `Alone(i)` and to leave every other restriction unchanged; that
  needs the invariant only for the shapes of the shared functions.

### The floor

Constants: any set of command lines that `main()` accepts
(`ScenariosAssumption`). The verdicts and the point at which Band or a model
fails are choices of the actions, so they are covered.

* `FloorInvariant`: `Spec => []IInv`. None of the floor's properties is
  inductive: whether the diff of the second round compared the right claims, or
  a branch still waits for its keys, depends on where the loops of the driver
  stand. `IInv` therefore says for each phase what every branch has been
  through: `Stage` is the protocol state a live branch must be in, `Asserts` the
  facts its draft states, `Versions` how often it was filed; `LoopOK` ties
  `step` to the command line and `todo` to the rest of the loop; `KeysOK` says
  that a lock holds keys of the present version of a filing only while that
  branch is at the head of the loop; `ClocksOK`, `CustomersOK` and `DutyOK` do the same for the clocks,
  the Art 34 branch, guard, conflict, hold and receipts. A run that was cut short
  keeps what was filed (`RoundsOK`, `FiledIsWhatWasDrafted`, `LastThingsLast`)
  and nothing else.
* `RoundsAgree`, `FilingsStand`, `CustomersComeLast`, `SealedRunsAreComplete`:
  the four safety properties of the floor.
* `FilingsKeepPromise`: `Spec => KeepsFilingPromise`. Each branch of a run whose
  amendments are guarded takes steps of `FilingLifecycle` or stutters. Besides
  `IInv` it needs `SignoffIsOpen`: the first loop asks for keys only after the
  Warden moved the branch to its signoff.

### The room

Constants: as the floor, and any set of lags (`LagsAssumption`: naturals).

* `RoomInvariant`, `RoundsAgreeInTheRoom`, `FilingsStandInTheRoom`,
  `CustomersComeLastInTheRoom`, `SealedRunsAreCompleteInTheRoom`,
  `FilingsKeepPromiseInTheRoom`: what is proved of the floor holds of
  `RoomSpec`, the specification the `floor` run checks. Posting does not touch a
  branch, and the one step the room adds, a drain that comes back empty
  (`GiveUp`), stops the run and leaves every branch as it stands.
* `RoomIsSound`: `RoomSpec => [](IInv /\ RoomIInv)`. What a drain finds depends
  on every message posted so far and on every mark, so `RoomIInv` describes the
  room where the driver stands: no dedup key is there twice and nothing is marked
  that is not there (`Sound`); a topic is there only after the phase that brings
  it up (`TopicsOK`), which is what makes a post go through instead of being
  dropped; the last draft of every branch is there (`DraftsPosted`), and after
  the loop every release after its draft (`ReleasesTold`); whoever is drained
  next has mail and the Warden's inbox holds at most a reply in front of the
  draft it waits for (`InboxOK`); before the concurrence NIS2 has read the fact
  record only, and what lies in front of the envelope is at least six messages
  and at most eight (`MailOK`: fewer than twelve, so the sweep reaches it; six,
  so that it has had time to show); and the run's own assertions have their facts
  (`ClaimsOK`). One lemma per action of the driver shows that it keeps this,
  over lemmas about one post, one mark and one drain (`PostGrows`, `MarkFacts`,
  `AnswerFacts`, `ObserveEnds`).
* `TurnsAlwaysServed`: nobody waits in vain, and no `RuntimeError` of the driver
  is raised, except on an amended branch that was suppressed or where the last
  message takes at least six polls to show. TLC checks the lags 0, 5 and 6.
* `RecoveryAlwaysTold`: kill, duplicate and recovery are told in order, between
  the draft and its ack, and only of the drafter that was killed.
* `EveryFilingIsKnown`: a sealed run filed nothing that the room had not seen
  drafted and then heard released.

### The examiner packet

Constants: as the floor, and any set of slips of a known kind
(`SlipsAssumption`).

* `PacketInvariant`: `PacketSpec => []PacketIInv`. A sheet reads the log and the
  packet, not the branches, so none of the packet's properties follows from
  the floor's `IInv` alone. `RowsOK` says what the log of a branch is worth:
  nothing in it was turned away (`Fits`; except in a run whose amendment met a
  suppressed SEC branch, which is never sealed), a release in it bears the minute
  of one of the branch's filings and the last filing has its release, a veto and
  its remedy are there exactly after the diff of a contradiction. `BeatsOK` adds
  what the sheets read of the variables: the keys in a lock that nobody is signing
  are the two of the last filing, a branch that is suppressed has drafted
  nothing unless the run amends, the early-warning clock is never stopped. `PacketOK` says that a packet
  is there only at the end and is then the assembly of the state the run ended in.
  One lemma per action shows what its events log (`BeforeFacts`: the state each
  event meets is the one the event before it left).
* `SheetsAgree`: `PacketSpec => []AccountsAgree`. Attestation, after-action review
  and clock rows close the same branches; the control register finds the evidence
  the assertion finds; the duty matrix holds, since author, gatekeeper and the two
  key holders are four different actors of the log; and the keys the packet
  names are those of the filing that stands.
* `ScreensAreExact`: `PacketSpec => []ScreensFlagOnlySlips`, over `PassesIff`: a
  text passes when each of its spans is one the record knows.
* `ExportIsWhole`: `PacketSpec => []ExportIsOfTheFilings`. A correction or an
  amendment replaces the claims of a branch and never its text, so the facts are
  those filed last (`FiledIsWhatWasDrafted`) over the text of the first draft,
  which asserts what was filed first exactly when that draft was not contradicted
  (`RoundsOK`).
* `PageIsTheRun`: `PacketSpec => []PageTellsTheRun`. Section by section the tone is
  red for one cause and for no other; the outcome on the cover is read from the
  log, and `RowsOK` is what makes the events it finds those of the run.

### Handoffs

* `WorkerInvariant`, for any number of attempts, faults, kills and idle polls.
  `ExtraCopiesCostFaults` is not inductive: what a copy cost must be known before
  it is posted (`CopiesArePaid`: inside the post every copy in the room is paid
  for by a fault already). `KnowsRoom` says what the loop knows of the room if
  reads are honest and no post is repeated blindly.
* `KillsNeverDouble`: `Spec => []ExtraCopiesCostFaults`.
* `LoopKeepsHandoffPromise`: with an honest room the loop refines
  `ExactlyOnceHandoff`.
* `DrafterInvariant`, `PacketIsWhatLanded`, `DrafterKeepsHandoffPromise`: the
  same for the hand-driven drafter. The invariant follows the drive before the
  kill (`FirstDrive`: until the post nothing has landed, and the ledger has the
  key from the draft on) and the one after it (`SecondDrive`: the draft is there
  and all that is left is to drop the duplicate).
* `DrainInvariant`: `Spec => []IInv` of `HandoffDrain`, for any finite set of
  branches that is not a singleton, any number of failures and of visits
  (`DrainAssumption`; a contradiction needs two sides). `LandedOnce` needs
  `OneInHand` (the driver carries exactly the message being processed) to know
  that an acknowledged message is one whose draft landed; `EveryBranchFiles`
  takes over where `LandedOnce` stops, at the diff.
* `DrainLandsOnce`, `DrainFiles`: the two conjuncts a reader cares about.
* `DrainKeepsHandoffPromise`: every branch of the drain refines
  `ExactlyOnceHandoff`.

### The live clocks

`LoopProofs` also proves, for every catalog the loader accepts, any anchor, any
compression and budget and any `Ticks`:

* `CountsBusinessDays`: what `add_business_days` computes, for any start, any number
  of days and any table of holidays: the last second of the first covered day by
  which so many business days have passed, `NotCovered` where there is none. The
  count is a recursive function; that a function with its equation exists is shown
  by giving one (`SomeWalk`), that every such function has these values by the
  least counterexample, counted back from the last covered day (`EveryWalk`).
  That the tables are the law's stays with the run (`DeadlinesAreLawful`).
* `EachTierIsToldOnce`: `ClocksSpec => []ToldOnceAndInTime`. The invariant
  `ClocksIInv` is needed for the memory of the loop: `last_rank` never goes down, so
  it is the tier of the last look only because the stall guard lets no reading of
  the wall clock go back and a tier never falls as time passes
  (`TierCountsMargins`); and of a clock that is in no tier nothing was told. That
  one look tells each crossing clock once is `SnapshotListsEach`: the places of the
  clocks in the board's order are pairwise different and so use up 1..n.

The assumptions are on the catalog (margins positive and ordered, as the loader
demands; a branch with a drafter of its own has no hyphen in its name) and on the
room (it has a drafter).

### The page

Constants: any set of runs, each recording any of the beats, any of them altered,
any number of gates, of loads and of checks (`BeatsAssumption`,
`ConsoleAssumption`; the latter also says that the null of the page is not a
digest).

* `ConsoleInvariant`: `ConsoleSpec => []IInv`. `VerdictBindsOneRun` speaks of a check
  that is over, so `CheckStands` says of one that still runs that its digest was
  derived from an unaltered log as long as nothing failed. It does not say of
  which run: the page may have changed since, and only the signature, which is
  checked last, ties digest and chain to one run. `ExamStands` (when no run is
  selected during a drill) says that nothing is loaded while a drill is open and
  that the answers are those to the gates asked so far, of this manifest.
* `VerdictsBind`, and `CertificatesAreEarned` under `~Hasty`: with as many right
  answers as gates, and none to another gate, every gate was answered right.
* `PanelsAlwaysAgree`: over `TimelineIs`, by which every timeline that
  `buildSteps` can produce has a first release, before which nothing is
  `human_released` and after which a branch is only ever said to be released or
  amending (`ReleasedAt`), and shows exactly the beats of its packet.

### The files

Constants: any set of the five captured modes, any number of revisions, of
interrupted seals and any branches (`BundleAssumption`). What a captured log is,
is data: `CapturesAssumption` says that a captured log is well-formed, replays to
itself and passes the audit's checks of the log alone, `ReceiptsAssumption` that
its receipts are those of the stub regulator and bear names. Both are predicates of
the recorded logs, and TLC evaluates them on the logs the floor leaves.

* `BundleInvariant`: `Spec => []BundleIInv`, and `CaseInvariant` for the specification
  with the receipts. The four files are written in the order of their dependence,
  and each writing is dated by the revision of the packet it read, so a file that
  is read later is never newer than one that is read before (`BundleIInv`). Nothing
  weaker is inductive: a script that is stopped between two writes leaves the old
  ones behind, and the next one starts over.
* `AcceptedIsOneSeal`: the outside verifier reads all four. What it accepts is of
  one seal, after any number of stops.
* `VerifiersTellApart`: `CaseSpec => []VerifiersAreExact`. Each single edit of the
  sweep leaves another list of entries (`EditsAreLogs`), two lists differ in an
  entry or in length, and from the first difference on the chain is broken; a
  replay reads what is asked of the state machine and not the verdicts beside it
  (`ReplayReadsInputs`), so that an altered verdict does not survive it.
* `ReceiptInvariant`: `CaseSpec => []CaseIInv`. Next to `BundleIInv`, between two seals
  the files are of one seal of the packet's rows (`BundleSound`), and every
  receipt that was made is what its maker writes of the bundle it was made of,
  with at most one alteration (`ReceiptsStand`).
* `ReceiptsTellApart`: of the case file, the assertion, the submission receipts
  and the answers, what was made of an honest bundle verifies and what was altered
  does not, with the exceptions of section 6.
* `ReceiptsExact`: `CaseSpec /\ []AnswersTellTheRun => []ReceiptsAreExact`. The
  hypothesis is the one part of the property that is about figures: that the two
  sides of an answer are those of the run, which recursion over the calendar and
  the log computes. It is a part of `ReceiptsAreExact` itself, so that the same
  run checks it.

### The service

Constants: any finite set of modes, any clients, names and captured runs, any
number of stops and changes (`ServiceAssumption`: modes are not the names of the
other states of a file, a captured run is of a mode, the script is not a client).

* `ServiceInvariant`: `Spec => []SInv`. What an answer holds depends on what was
  on disk at every one of its reads, so `ReadsOn` speaks of a reader that is under
  way: what it has still to read is there, what was sealed when it was asked for is
  folded already or still to come, and all of it is sealed now. That is stable
  because a seal is never undone while somebody reads: a client has its name to
  itself from its log to its seal (`InHand`), a log without a signature is the only
  kind a stop can spoil, and files are changed by hand only when nobody reads.
* `ReadsAreAlwaysSound`: `Spec => ReadsAreSound`. With a rename no log is ever
  half there (`Directory`), so no read fails; an answer lies between two states of
  the directory and shows the client's own run.
* `AttestationHoldsIffUnchanged`: `Spec => VerifiesIffUnchanged`. One direction
  needs that two runs of two modes have two heads (`HeadsDiffer`, from
  `SequenceOfModes`: the heads are places in one sequence without repetition).
* `ScopesStayApart`: `Spec => ScopesAreApart`, one half of `FleetAddsUp`. It is a
  fact of the fold over the runs, in whatever state: no invariant is needed.

### Only model-checked

* Liveness under fairness (`Progress`, `RunEnds`, `MentionIsClosed`,
  `EscalationEnds`, `ResealHeals`, `PostsAreAnswered`): out of the prover's reach.
* What the folds and recursive functions of `RunLog`, `Portfolio` and `WhatIf`
  compute for every input, and so `AnswersTellTheRun`, the board and the sums of
  `FleetAddsUp` (`BoardBooks`); and `DeadlinesAreLawful`: that takes induction over
  data, or the evaluation of tables.
* `TimelineReplays`: replaying a timeline is a fold over the ranks of its entries,
  which is induction over data again.

## 5. Not modelled

* *Cryptography and encodings* (Ed25519, DER, DSSE, canonical JSON): a digest is
  its content, a signature its payload. Custody providers hold one key or raise.
* *Language models, retrieval, vision, prompts*: a free choice of verdict or
  text, or an exception. In a packet: second opinion, routing, investigation,
  calibration, egress, rationale and expert sections.
* *Intake and redaction, the regulation corpus*: read once before the run.
* *Exports that nothing reads back* (STIX, MISP, OSCAL), statistics, settings,
  benchmarks, deployment, monitoring; the explainability, fleet, entity and
  queue panels of the console; attackers and in-band entities of a portfolio.
* *`band_once/`*: a packaged copy of the shell and the ledger, not used by the floor.
* *Negotiation beyond one PROPOSE and one CONCUR*: the drivers hold one amendment
  with one agreed envelope, or one fixed counter-proposal in the simulator. The
  guard keeps its envelopes per round, while `modelcheck.py` uses a concurrence
  up on submission: a guard object shared over more than `MAX_ROUNDS` amendments
  would still hold the CONCUR of the last round. Every driver makes a new guard
  per amendment. `post` does not compare the value of a CONCUR with the envelope
  it answers, and `negotiate_characterization` takes the standing proposal where
  its docstring speaks of the last concur.
* *Canonicalisation in the diff* (time zones, attacker names): claims are values.
* *The single-drafter floor and the escalation loop* are not in `BandRoom`:
  `WorkerLoop` and `LiveClocks` model them.
* *Unparseable files*: an edited log is a list of entries. Bundles are those of
  whole runs; a submission run has no provenance sidecars.
* *Details no property depends on*: the `RuntimeError` of `_amendment_phase` when
  the amended figures differ (`run_floor.py:2892`), since nothing is posted and
  no branch moves between the drafts and that check, so that the interruption
  before `amend_diff` stands for it; a `handle()` that returns None and the `max_loops`
  bound of `run()` (`WorkerLoop`); the `ValueError` of `parse_envelope`, covered by
  the message without claims; roll-ups that read logs again after
  `load_portfolio`, since a whole log changes only by hand and only when nobody
  reads; the recomputed manifest digest and the group roots of `Portfolio`. The
  hour threshold of the board is a number of places in the order of instants.

## 6. Where the code and what is said of it differ

A run exhibits this one:

* `console_doc_drill`: "on a perfect pass issues the signed certification
  receipt [...] a wrong answer cannot pass" (`web/app.js:1549`). A run that
  arrives while a drill is open empties the answer key and leaves the overlay
  open; the next click compares 0 with 0 and certifies a perfect pass of
  nothing. With a user who does not load runs during a drill the certificate is
  earned (`console`).

Met while modelling, each worked into the properties as a named exception or
noted here.

*Warden and floor.* SAFE-1 is written of nodes (`docs/FORMAL-SPEC.md:186`) but
the release clears the keys, so the code checks edges; `KeepsFilingPromise`
holds. After an amendment SEC and NIS2 carry the revised figure and the others
the old one (`README.md:206`); filings of one round agree. The deficiency cure
re-releases without a concurrence (`FORMAL-SPEC.md:231`), and an amendment of a
run whose SEC branch was suppressed posts an amended filing and then stops on
the release's assertion: hence `AmendmentsAreGuarded`. The NIS2 early-warning
clock is started and never stopped (`README.md:85`); the clocks of concurrent
incidents are not stopped either. `audit_run.check_two_key_release` remembers
keys across a reopening.

*Room and handoff.* The guard does not make a retried POST idempotent: the retry
is inside the guarded call, after the read (`band_agent_shell.py:145`). A room
that cannot be read after a kill looks empty, so the model is called a second
time (`run_floor.py:2050`). SEC's amendment and deficiency turns answer the
Warden's earlier acknowledgement, the oldest open mention, instead of the
amendment; under a legal hold drafters answer the hold notice. Replies to a
challenge fail in the Warden's handler. On the live floor the Art 34 draft is
released without being posted. Announcements of the diff and of the keys do not
mention recruited drafters.

*Clocks.* The comment at `clocks.py:86` says that New Year's Day 2028 is
observed on 31 December 2027, but the 2027 set lacks that day, so an SEC count
treats it as a business day; the German table holds 5 October 2026 and 4 October
2027 as observed Unity Days although the comment above it says Germany has no
substitute days. These three dates are `Slips` in `StatutoryClocks`; all others
agree with the law. At margin 0 the tier is BREACH while `Clock.breached` is
still false (`margin.py:106`). Tiers that the wall clock jumps over stay untold,
and the live board escalates filings that were released.

*Packet.* After a contradiction or an amendment the EDGAR export shows corrected
facts over the text of the earlier draft. In the contradiction mode the SEC
text keeps its transposed start, and grounding, which compares days, passes it.
Amended filings are INCOMPLETE always. A branch that was suppressed is attested
as filed. Events of one minute are sorted by kind, so a timeline may list an
amended draft before the amendment. The control register is derived before the
sign-off rows and lacks evidence that the assertion has. When every branch is
suppressed the gate reads PENDING.

*Evidence.* Round-1 drafts write no ledger entry, so the audit's exactly-once
check says nothing of them. The case-file verifier never reads the copies
embedded in the case file, and it hashes envelope and token without verifying
them: a case file made during an unfinished seal verifies. `verify_submission`
does not miss a dropped receipt while another remains. `verify_thirdparty` prints
clock rows that its signature does not bind. `whatif_report --check` looks at the
signature only, not at the fields beside it, and the console does not compare a
what-if receipt with the run: each catches what the other passes
(`WhatifIsExact`). Resealing does not make the receipts anew.

*Service.* Posted runs carry the internal incident number of the demo; pending
intake records stay queued for ever; a torn log makes reads raise instead of
flagging it; the root of an odd list equals that of the list with its last run
doubled; a retried POST seals twice; an answer may show a run and not one that
was sealed before it, since the directory is read run by run.

*Console.* The replay clock runs backwards at the chaos step, which is stamped
before its predecessor; a verdict may stay on the page of the next run;
`deriveGate` falls back to "Incident open" after CLEARED.

## 7. Plan

What is left is proof rather than breadth: that a sealed packet's timeline replays
(`TimelineReplays`), which takes the log of every branch event by event instead of
the facts `RowsOK` keeps of it, and the tables of the calendars
(`DeadlinesAreLawful`).
