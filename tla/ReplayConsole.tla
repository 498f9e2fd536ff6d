--------------------------- MODULE ReplayConsole ---------------------------
(***************************************************************************)
(* web/app.js: one page, one thread, and much of it asynchronous.  A       *)
(* handler runs to its next await, a timeout or the end; what it awaits is *)
(* answered by a later step, and nothing cancels or orders the answers.    *)
(* Loading a run, playing it, checking its proofs and taking its drill     *)
(* share the globals below.                                                *)
(***************************************************************************)
EXTENDS ReplayTimeline

CONSTANTS Default,     \* the scenario init() loads
          Altered,     \* runs whose bundled log is not the one that was sealed
          Gates,       \* decision points of each run's drill manifest
          MaxLoads, MaxChecks,  \* bounds on loads and clicks on Verify
          Hasty,       \* TRUE: the user may select a run while a drill is open
                       \* and open a drill while a run is loading
          None

\* The null of the page is not a digest.
ASSUME ConsoleAssumption ==
  /\ Default \in Scenarios /\ Altered \subseteq Scenarios
  /\ Gates \in [Scenarios -> Nat] /\ None \notin Scenarios
  /\ MaxLoads \in Nat \ {0} /\ MaxChecks \in Nat /\ Hasty \in BOOLEAN
  /\ \A s \in Scenarios : \A as \in {"sealed", "altered"} : None # <<s, as>>

VARIABLES boot,      \* "loading", "panels", "ready" (handlers attached) or "dead"
          shown,     \* whose packet, log and steps are on the page
          loads,     \* loads in flight
          issued,    \* how many loads were started
          cursor, playing, timers,  \* the transport; timers counts pending timeouts
          live,
          toggle,    \* "reorder two entries"
          checks,    \* the runs of verifyAll, and what each of them has read
          verdict,   \* the roll-up line, and what the check that wrote it had read
          drill,     \* manifest, whether a drill runs, gate, answers, overlay
          receipt    \* the certification last issued

transport == <<cursor, playing, timers, live>>
proofs == <<toggle, checks, verdict>>
exam == <<drill, receipt>>
consoleVars == <<boot, shown, loads, issued, transport, proofs, exam>>

Timelines == [s \in Scenarios |-> BuildSteps(s)]
Steps == IF shown = None THEN <<>> ELSE Timelines[shown]
Active == SubSeq(Steps, 1, cursor)

\* Digests are perfect: equal exactly when what they are taken over is equal.
BundledLog(s) == IF s \in Altered THEN <<s, "altered">> ELSE <<s, "sealed">>
RecordedLog(s) == <<s, "sealed">>
ChainHeadOf(log, swapped) == <<log, swapped>>

Idle == [pc |-> "idle", reorder |-> FALSE, log |-> None, sha |-> None, head |-> None,
         sig |-> None, ok |-> TRUE]
NoDrill == [manifest |-> None, on |-> FALSE, index |-> 0, answers |-> <<>>, overlay |-> "none"]
Pending == [said |-> "pending", on |-> None]

ConsoleInit ==
  /\ boot = "loading" /\ shown = None /\ issued = 1
  /\ loads = {[id |-> 1, scn |-> Default, stage |-> "fetch", play |-> FALSE]}
  /\ cursor = 0 /\ playing = FALSE /\ timers = 0 /\ live = FALSE
  /\ toggle = FALSE /\ checks = [v \in 1..MaxChecks |-> Idle] /\ verdict = Pending
  /\ drill = NoDrill /\ receipt = None

(***************************************************************************)
(* Transport.                                                              *)
(***************************************************************************)
StopPlay(pending) == playing' = FALSE /\ timers' = IF pending > 0 THEN pending - 1 ELSE 0

StartPlay ==
  IF playing THEN UNCHANGED <<cursor, playing, timers>>
  ELSE /\ cursor' = IF cursor >= Len(Steps) THEN 0 ELSE cursor
       /\ playing' = TRUE /\ timers' = timers + 1

PressPlay ==
  /\ boot = "ready"
  /\ IF playing THEN StopPlay(timers) /\ UNCHANGED cursor ELSE StartPlay
  /\ UNCHANGED <<boot, shown, loads, issued, live, proofs, exam>>

Scrub ==
  /\ boot = "ready"
  /\ \E n \in {0, Len(Steps) - 1, Len(Steps)} : cursor' = n
  /\ StopPlay(timers)
  /\ UNCHANGED <<boot, shown, loads, issued, live, proofs, exam>>

\* The callback of scheduleNext: one step, and another timeout unless it stopped.
TimerFires ==
  /\ timers > 0
  /\ IF cursor >= Len(Steps) THEN playing' = FALSE /\ timers' = timers - 1 /\ UNCHANGED cursor
     ELSE /\ cursor' = cursor + 1
          /\ playing' = (playing /\ cursor' < Len(Steps))
          /\ timers' = IF playing' THEN timers ELSE timers - 1
  /\ UNCHANGED <<boot, shown, loads, issued, live, proofs, exam>>

SetLiveMode ==
  /\ boot = "ready"
  /\ live' = ~ live
  /\ IF live' THEN StopPlay(timers) ELSE UNCHANGED <<playing, timers>>
  /\ UNCHANGED <<boot, shown, loads, issued, cursor, proofs, exam>>

(***************************************************************************)
(* Loading a run.  The packet and the log arrive together; the drill       *)
(* manifest is fetched after them.                                         *)
(***************************************************************************)
Examining == drill.on \/ drill.overlay # "none"

SelectScenario(s) ==
  /\ issued < MaxLoads /\ (Examining => Hasty)
  /\ issued' = issued + 1
  /\ loads' = loads \cup {[id |-> issued', scn |-> s, stage |-> "fetch", play |-> TRUE]}
  /\ StopPlay(timers)
  /\ UNCHANGED <<boot, shown, cursor, live, proofs, exam>>

\* resetChecks: the pills and the toggle go back, runs of verifyAll go on.
ResetChecks == toggle' = FALSE /\ verdict' = Pending /\ UNCHANGED checks

PacketArrives(l) ==
  /\ l.stage = "fetch"
  /\ shown' = l.scn /\ cursor' = 0
  /\ ResetChecks
  /\ drill' = [NoDrill EXCEPT !.overlay = drill.overlay]
  /\ loads' = (loads \ {l}) \cup {[l EXCEPT !.stage = "drill"]}
  /\ UNCHANGED <<boot, issued, playing, timers, live, receipt>>

\* The manifest, or none for this run; then the continuation of the load.
ManifestArrives(l) ==
  /\ l.stage = "drill"
  /\ \E found \in {l.scn, None} : drill' = [drill EXCEPT !.manifest = found]
  /\ loads' = loads \ {l}
  /\ boot' = IF boot = "loading" /\ l.id = 1 THEN "panels" ELSE boot
  /\ IF l.play THEN StartPlay ELSE UNCHANGED <<cursor, playing, timers>>
  /\ UNCHANGED <<shown, issued, live, proofs, receipt>>

LoadFails(l) ==
  /\ l.stage = "fetch"
  /\ loads' = loads \ {l}
  /\ boot' = IF l.id = 1 THEN "dead" ELSE boot
  /\ UNCHANGED <<shown, issued, transport, proofs, exam>>

\* The other panels have been awaited: the handlers are attached.
Wire ==
  /\ boot = "panels"
  /\ boot' = "ready"
  /\ UNCHANGED <<shown, loads, issued, transport, proofs, exam>>

(***************************************************************************)
(* verifyAll: each disjunct runs from one await to the next.  What it      *)
(* reads before an await may be of another run than what it reads after.   *)
(***************************************************************************)
StartVerify(v, on) ==
  /\ boot = "ready" /\ checks[v].pc = "idle"
  /\ \A u \in 1..(v - 1) : checks[u].pc # "idle"
  /\ toggle' = on
  /\ checks' = [checks EXCEPT ![v] = [Idle EXCEPT !.pc = "hash", !.reorder = on, !.log = BundledLog(shown)]]
  /\ verdict' = Pending
  /\ UNCHANGED <<boot, shown, loads, issued, transport, exam>>

\* Fault: a digest that could not be derived is not counted against the roll-up.
HashAnswers_ErrorIgnored(v) ==
  /\ checks[v].pc = "hash"
  /\ \E failed \in BOOLEAN :
       checks' = [checks EXCEPT ![v] =
         [@ EXCEPT !.pc = "trusted", !.log = BundledLog(shown),
                   !.sha = IF failed THEN None ELSE checks[v].log,
                   !.ok = failed \/ checks[v].log = RecordedLog(shown)]]
  /\ UNCHANGED <<boot, shown, loads, issued, transport, toggle, verdict, exam>>

\* Check 1: the digest of the log it began with against the packet now on the page.
HashAnswers(v) ==
  /\ checks[v].pc = "hash"
  /\ \E failed \in BOOLEAN :
       checks' = [checks EXCEPT ![v] =
         [@ EXCEPT !.pc = "trusted", !.log = BundledLog(shown),
                   !.sha = IF failed THEN None ELSE checks[v].log,
                   !.ok = ~ failed /\ checks[v].log = RecordedLog(shown)]]
  /\ UNCHANGED <<boot, shown, loads, issued, transport, toggle, verdict, exam>>

\* Check 2: the trusted chain, then the chain of what may have been reordered.
TrustedAnswers(v) ==
  /\ checks[v].pc = "trusted"
  /\ checks' = [checks EXCEPT ![v] =
       [@ EXCEPT !.pc = "chain", !.log = BundledLog(shown), !.head = ChainHeadOf(checks[v].log, FALSE)]]
  /\ UNCHANGED <<boot, shown, loads, issued, transport, toggle, verdict, exam>>

ChainAnswers(v) ==
  LET now == ChainHeadOf(checks[v].log, checks[v].reorder)
  IN /\ checks[v].pc = "chain"
     /\ checks' = [checks EXCEPT ![v] =
          [@ EXCEPT !.pc = "sig", !.head = now, !.sig = shown,
                    !.ok = checks[v].ok /\ (checks[v].reorder \/ now = checks[v].head)]]
     /\ UNCHANGED <<boot, shown, loads, issued, transport, toggle, verdict, exam>>

\* Check 3: the bound payload, with the packet's digest where none was derived.
Bound(c) == <<IF c.sha = None THEN RecordedLog(c.sig) ELSE c.sha, c.head>>
SignatureValid(c) == Bound(c) = <<RecordedLog(c.sig), ChainHeadOf(RecordedLog(c.sig), FALSE)>>

RollUp(c, pill) ==
  IF c.reorder THEN "pending"
  ELSE IF c.ok /\ pill = "VALID" THEN "all three verified"
  ELSE IF c.ok /\ pill = "unsupported" THEN "hash and chain verified"
  ELSE "fail"

SignatureAnswers(v) ==
  /\ checks[v].pc = "sig"
  /\ \E pill \in {"unsupported", IF SignatureValid(checks[v]) THEN "VALID" ELSE "INVALID"} :
       verdict' = [said |-> RollUp(checks[v], pill), on |-> checks[v]]
  /\ checks' = [checks EXCEPT ![v] = [Idle EXCEPT !.pc = "done"]]
  /\ UNCHANGED <<boot, shown, loads, issued, transport, toggle, exam>>

(***************************************************************************)
(* The drill.                                                              *)
(***************************************************************************)
GateCount(d) == IF d.manifest = None THEN 0 ELSE Gates[d.manifest]
Score(d) == Cardinality({i \in DOMAIN d.answers : d.answers[i].right})

StartDrill ==
  /\ boot = "ready" /\ ~ drill.on /\ GateCount(drill) > 0
  /\ drill.overlay \in {"none", "result"} /\ (loads # {} => Hasty)
  /\ drill' = [drill EXCEPT !.on = TRUE, !.index = 0, !.answers = <<>>, !.overlay = "question"]
  /\ StopPlay(timers)
  /\ UNCHANGED <<boot, shown, loads, issued, cursor, live, proofs, receipt>>

QuitDrill ==
  /\ drill.overlay # "none"
  /\ drill' = [drill EXCEPT !.on = FALSE, !.overlay = "none"]
  /\ UNCHANGED <<boot, shown, loads, issued, transport, proofs, receipt>>

\* drillAnswers[drillIndex]; an index that was skipped stays a hole.
AnswerDrill ==
  /\ drill.overlay = "question" /\ drill.on /\ drill.index < GateCount(drill)
  /\ \E right \in BOOLEAN :
       drill' = [drill EXCEPT !.overlay = "reveal",
                   !.answers = [i \in DOMAIN @ \cup {drill.index} |->
                                  IF i = drill.index
                                    THEN [right |-> right, of |-> drill.manifest] ELSE @[i]]]
  /\ UNCHANGED <<boot, shown, loads, issued, transport, proofs, receipt>>

\* Fault: the gates that were answered are counted, not those answered right.
FinishDrill_Answered(d) ==
  /\ drill' = [d EXCEPT !.on = FALSE, !.overlay = "result"]
  /\ receipt' = IF Cardinality(DOMAIN d.answers) = GateCount(d)
                THEN [run |-> d.manifest, answers |-> d.answers] ELSE None

\* finishDrill: the receipt is the one of the manifest, when every gate counts.
FinishDrill(d) ==
  /\ drill' = [d EXCEPT !.on = FALSE, !.overlay = "result"]
  /\ receipt' = IF Score(d) = GateCount(d) THEN [run |-> d.manifest, answers |-> d.answers] ELSE None

NextDrillGate ==
  /\ drill.overlay = "reveal"
  /\ LET d == [drill EXCEPT !.index = @ + 1]
     IN IF d.index >= GateCount(d) THEN FinishDrill(d)
        ELSE drill' = [d EXCEPT !.overlay = "question"] /\ UNCHANGED receipt
  /\ UNCHANGED <<boot, shown, loads, issued, transport, proofs>>

Load == \/ \E s \in Scenarios : SelectScenario(s)
        \/ \E l \in loads : PacketArrives(l) \/ ManifestArrives(l) \/ LoadFails(l)
        \/ Wire
Play == PressPlay \/ Scrub \/ TimerFires \/ SetLiveMode
Verify == \E v \in 1..MaxChecks :
            \/ \E on \in BOOLEAN : StartVerify(v, on)
            \/ HashAnswers(v) \/ TrustedAnswers(v) \/ ChainAnswers(v) \/ SignatureAnswers(v)
Drill == StartDrill \/ QuitDrill \/ AnswerDrill \/ NextDrillGate

ConsoleNext == Load \/ Play \/ Verify \/ Drill
ConsoleSpec == ConsoleInit /\ [][ConsoleNext]_consoleVars

-----------------------------------------------------------------------------
\* deriveGate "can never disagree with the feed or the clocks": at every cursor
\* the commander's panel says released exactly when every branch chip does, a beat
\* is lit only if the packet records it, and at the end all of them are.
PanelsAgree ==
  shown # None =>
    /\ DeriveGate(Active).release = "released" <=> \A b \in Branches : BranchState(Active, b) = "released"
    /\ ReachedBeats(Active) \subseteq Beats[shown]
    /\ cursor = Len(Steps) => ReachedBeats(Active) = Beats[shown]

\* "All three verified" was derived from one log, unaltered and in its order, and
\* checked against the signature of the same run, however loads and checks overlap.
VerdictBindsOneRun ==
  verdict.said = "all three verified" =>
    LET c == verdict.on
    IN /\ ~ c.reorder /\ c.sig \notin Altered
       /\ c.sha = BundledLog(c.sig) /\ c.head = ChainHeadOf(BundledLog(c.sig), FALSE)

\* The certification is issued only to one who matched every fixed verdict of the
\* run it names.
CertificateIsEarned ==
  receipt # None =>
    /\ receipt.run # None
    /\ \A i \in 0..(Gates[receipt.run] - 1) :
         /\ i \in DOMAIN receipt.answers
         /\ receipt.answers[i].right /\ receipt.answers[i].of = receipt.run

-----------------------------------------------------------------------------
(***************************************************************************)
(* The inductive invariant.                                                *)
(***************************************************************************)
Runs == Scenarios \cup {None}
LoadsInFlight == [id : Nat, scn : Scenarios, stage : {"fetch", "drill"}, play : BOOLEAN]

TypeOK ==
  /\ boot \in {"loading", "panels", "ready", "dead"} /\ shown \in Runs
  /\ loads \subseteq LoadsInFlight /\ issued \in Nat
  /\ cursor \in Nat /\ playing \in BOOLEAN /\ timers \in Nat /\ live \in BOOLEAN
  /\ toggle \in BOOLEAN
  /\ DOMAIN drill = DOMAIN NoDrill /\ drill.manifest \in Runs /\ drill.on \in BOOLEAN
  /\ drill.overlay \in {"none", "question", "reveal", "result"}
  /\ DOMAIN checks = 1..MaxChecks /\ \A v \in 1..MaxChecks : DOMAIN checks[v] = DOMAIN Idle

\* A run is on the page before its manifest comes and before anything can be
\* clicked, and the transport stays within its steps.
PageStands ==
  /\ boot \in {"panels", "ready"} \/ (\E l \in loads : l.stage = "drill") => shown # None
  /\ cursor <= Len(Steps)

\* A check whose result still stands has derived its digest from the log of a run
\* whose log is the one that was sealed; which run is on the page does not matter.
CheckStands(c) ==
  /\ c.pc \notin {"idle", "done"} =>
       shown # None /\ \E s \in Scenarios : c.log = BundledLog(s)
  /\ c.pc \in {"trusted", "chain", "sig"} /\ c.ok =>
       \E s \in Scenarios \ Altered : c.sha = BundledLog(s)

\* One drill, one manifest: while a drill is open nothing is loaded, and the gates
\* up to the one that is asked have been answered on it, each at most once.
ExamStands ==
  /\ Examining => loads = {}
  /\ drill.on <=> drill.overlay \in {"question", "reveal"}
  /\ drill.on =>
       /\ drill.manifest # None /\ drill.index \in 0..(GateCount(drill) - 1)
       /\ DOMAIN drill.answers \subseteq
            0..(IF drill.overlay = "reveal" THEN drill.index ELSE drill.index - 1)
       /\ \A i \in DOMAIN drill.answers : drill.answers[i].of = drill.manifest

ChecksStand == \A v \in 1..MaxChecks : CheckStands(checks[v])

IInv ==
  /\ TypeOK /\ PageStands /\ ChecksStand /\ VerdictBindsOneRun
  /\ ~Hasty => ExamStands /\ CertificateIsEarned
=============================================================================
