---------------------------- MODULE ExaminerPacket ----------------------------
(***************************************************************************)
(* The examiner packet of a run (floor/run_floor.py _assemble_packet,      *)
(* floor/packet.py): the run of FilingFloor with the scripted time of each *)
(* event and the texts of the filings, then the packet and its derived     *)
(* sheets, the page, and the three files that are written one after the    *)
(* other under names that a later run uses again.                          *)
(***************************************************************************)
EXTENDS FilingFloor, ExaminerPage

\* The slips of the models this instance considers: <<branch, kind>>.
CONSTANT ModelSlips
ASSUME SlipsAssumption == ModelSlips \subseteq (Branches \X Flaws)

VARIABLES
  slip,      \* the one filing of the run a model did not draft cleanly
  rows,      \* the transitions of every branch, in the order they were logged
  packet,    \* the packet and its sheets, once assembled
  disk       \* which files are of this run: "json", "html", "log"

packetVars == <<slip, rows, packet, disk>>

NoPacket == [base |-> <<>>]

\* Minutes after the start of the incident.
TS_FACTS == 17
TS_DRAFT == 57
TS_DIFF == 106
TS_RESOLVE == 126
TS_SIGN_GC == 156
TS_RELEASE == 196
TS_AMEND == 360
TS_CURE == 376
TS_AMEND_SIGN_GC == 401
TS_AMEND_RELEASE == 406
RecruitedAt(b) == IF b = "uk" THEN 86 ELSE 88
RecruitDraftAt(b) == IF b = "uk" THEN 101 ELSE 103

\* The communication to the data subjects is anchored at the last release.
Anchor == IF Amends THEN TS_AMEND_RELEASE ELSE TS_RELEASE
NoticeAt(offset) == Anchor + offset

\* The shortest window of the catalog is a day.
ShortestWindow == 1440

ReleasedAt(b) ==
  IF b = AffectedParty THEN NoticeAt(50)
  ELSE IF step = "release" THEN TS_RELEASE
  ELSE TS_AMEND_RELEASE

PacketInit ==
  /\ Init
  /\ slip \in ModelSlips
  /\ rows = [b \in Branches |-> <<>>]
  /\ packet = NoPacket
  /\ disk = {}
-----------------------------------------------------------------------------
(***************************************************************************)
(* The log of the transitions: _proto records every event with its time    *)
(* and whether it was admitted.                                            *)
(***************************************************************************)
Said(event, role, actor, ts) ==
  [event |-> event, role |-> role, actor |-> actor, ts |-> ts]

DrafterOf ==
  [nis2 |-> "nis2_drafter", sec |-> "sec_drafter", dora |-> "dora_drafter",
   uk |-> "uk_drafter", nydfs |-> "nydfs_drafter", data_subject |-> "data_subject_drafter"]

ByTriage(event, ts) == Said(event, "triage", "triage", ts)
ByWarden(event, ts) == Said(event, "warden", "warden", ts)
ByDrafter(b, event, ts) == Said(event, "drafter", DrafterOf[b], ts)

\* The state of branch b before the i-th of these events.
Before(b, said) ==
  LET before[i \in 1..Len(said)] ==
        IF i = 1 THEN state[b]
        ELSE NextState(before[i - 1], said[i - 1].event, said[i - 1].role)
  IN  before

Record(b, said) ==
  [i \in DOMAIN said |->
     [event |-> said[i].event, role |-> said[i].role, actor |-> said[i].actor,
      ts |-> said[i].ts,
      admitted |-> Admits(Before(b, said)[i], said[i].event, said[i].role)]]

\* The branches of bs log what was said to each.
Log(bs, said(_)) ==
  /\ rows' = [b \in Branches |->
                IF b \in bs THEN rows[b] \o Record(b, said(b)) ELSE rows[b]]
  /\ UNCHANGED <<slip, packet, disk>>

Quiet == UNCHANGED packetVars

OpeningSaid(b) == <<ByTriage("fact_record_posted", TS_FACTS)>>
SuppressSaid(b) == <<Said("suppress", "materiality", "materiality", TS_FACTS)>>
DraftSaid(b) ==
  <<ByDrafter(b, "draft_started", TS_DRAFT), ByDrafter(b, "draft_posted", TS_DRAFT)>>
RecruitSaid(b) ==
  <<ByTriage("fact_record_posted", RecruitedAt(b) + 1),
    ByDrafter(b, "draft_started", RecruitDraftAt(b)),
    ByDrafter(b, "draft_posted", RecruitDraftAt(b))>>
DiffSaid(b) ==
  <<ByWarden(IF Contradict(claims, Drafted) THEN "diff_blocked" ELSE "diff_passed",
             TS_DIFF)>>
\* The signoff is stamped with the time of the first diff, even if that diff
\* was red and the one that passed was later.
SignoffSaid(b) == <<ByWarden("signoff_opened", TS_DIFF)>>
ReleaseSaid(b) ==
  <<Said("human_released", "human_owner", "lena", ReleasedAt(b))>>
AmendSaid(b) == <<ByTriage("fact_amended", TS_AMEND)>>
AmendedDraftSaid(b) == <<ByDrafter(b, "draft_posted", TS_AMEND)>>
RereleaseSaid(b) ==
  <<ByWarden("diff_passed", TS_AMEND_RELEASE), ByWarden("signoff_opened", TS_AMEND_RELEASE)>>
NoticeSaid(b) ==
  <<ByTriage("fact_record_posted", NoticeAt(1)),
    ByDrafter(b, "draft_started", NoticeAt(15)), ByDrafter(b, "draft_posted", NoticeAt(15)),
    ByWarden("diff_passed", NoticeAt(30)), ByWarden("signoff_opened", NoticeAt(30))>>
CureSaid(b) == <<ByDrafter(b, "draft_posted", TS_CURE)>> \o RereleaseSaid(b)

\* The branches the diff re-drafts after it was red, and those it admits then.
ResolveSaid(b) ==
  <<ByDrafter(b, "draft_posted", TS_RESOLVE)>>
    \o IF Contradict(claims', Drafted) THEN <<>>
                                       ELSE <<ByWarden("diff_passed", TS_RESOLVE)>>

Newly(s) == { b \in Branches : state[b] # s /\ state'[b] = s }
InHand == IF todo = <<>> THEN {} ELSE {Head(todo)}

LoggedDrive ==
  \/ Open /\ Log({"nis2", "sec", "dora"}, OpeningSaid)
  \/ (Materiality \/ Reportability) /\ Log(Newly("suppressed"), SuppressSaid)
  \/ SkipSuppressed /\ Quiet
  \/ Draft /\ Log(InHand, DraftSaid)
  \/ Recruit /\ Log(InHand, RecruitSaid)
  \/ (CrossBorderScan \/ CrossBorderSignoff) /\ Quiet
  \/ Diff /\ Log(Drafted, DiffSaid)
  \/ Resolve /\ Log(Drafted, ResolveSaid)
  \/ BeginRelease /\ Log(InHand, SignoffSaid)
  \/ (SkipUnchecked \/ SignKey) /\ Quiet
  \/ Turn /\ Log(InHand, ReleaseSaid)
  \/ Amend /\ Log({ b \in Branches : Amended(b) }, AmendSaid)
  \/ (Propose \/ Concur \/ AmendDiff) /\ Quiet
  \/ SubmitAmendment /\ Log(IF CanSubmit THEN InHand ELSE {}, AmendedDraftSaid)
  \/ BeginRerelease /\ Log(InHand, RereleaseSaid)
  \/ NoHighRisk /\ Quiet
  \/ HighRisk /\ Log(InHand, NoticeSaid)
  \/ DeficiencyNotice /\ Log({"sec"}, AmendSaid)
  \/ Cure /\ Log({"sec"}, CureSaid)
  \/ (LiftHold \/ Submission \/ Seal) /\ Quiet
-----------------------------------------------------------------------------
(***************************************************************************)
(* What the packet is made of.                                             *)
(***************************************************************************)
\* The block that is planted carries a start of its own.
ForgedFacts == [CanonicalFacts EXCEPT !.start = "echoed"]

\* The facts a branch drafted its first filing from.
DraftedFrom(b) ==
  IF b = AffectedParty /\ Amends
    THEN [CanonicalFacts EXCEPT !.records = AmendedFacts.records]
    ELSE ClaimFactsFor(b)

FirstText(b) ==
  LET clean == Prose(DraftedFrom(b))
      drafted == Slip(clean, IF slip[1] = b THEN slip[2] ELSE "none")
      written == IF scenario.mode = "inject_claims" /\ b = "sec"
                   THEN Hijacked(drafted, ForgedFacts) ELSE drafted
  IN  BuildDraftBody(written, DraftedFrom(b))

Filed(b, round, text) == [branch |-> b, round |-> round, text |-> text]

\* Fault: the filing the regulator sent back stays in the packet.
BaseFilings_NotSwapped == { Filed(b, "first", FirstText(b)) : b \in Drafted }

\* The first filing of every branch; the cured one takes the place of the SEC's.
BaseFilings ==
  { IF scenario.mode = "deficiency" /\ b = "sec"
      THEN Filed("sec", "cured", BuildDraftBody(Prose(CanonicalFacts), CanonicalFacts))
      ELSE Filed(b, "first", FirstText(b)) : b \in { a \in Drafted : InRun(a) } }

AmendedFilings ==
  IF Amends
    THEN { Filed(b, "amended", BuildDraftBody(AmendedProse(AmendedFacts), AmendedFacts)) :
             b \in { a \in Branches : Amended(a) } }
    ELSE {}

\* Fault: the amended filings are scored against the facts before the amendment.
RecordFor_Base(f) == IF f.branch = AffectedParty THEN DraftedFrom(f.branch) ELSE CanonicalFacts

\* Every round is scored against the facts of that round.
RecordFor(f) ==
  IF f.round = "amended" THEN AmendedFacts
  ELSE IF f.branch = AffectedParty THEN DraftedFrom(f.branch)
  ELSE CanonicalFacts

Grounding(filings) ==
  [f \in filings |-> ScoreFiling(f.text, RecordFor(f))]

StartedAt(c) ==
  CASE c \in {"nis2-early", "nis2", "dora"} -> 0
    [] c = "sec" -> TS_FACTS
    [] c \in {"uk", "nydfs"} -> RecruitedAt(c)
    [] c = AffectedParty -> Anchor

\* A suppressed branch stops its clock when it is suppressed, a released one at
\* its first release.
StoppedAt(c) ==
  IF clock[c] # "stopped" THEN {}
  ELSE IF state[c] = "suppressed" THEN {TS_FACTS}
  ELSE IF c = AffectedParty THEN {NoticeAt(50)}
  ELSE {TS_RELEASE}

ClockRows ==
  [c \in { x \in DOMAIN clock : clock[x] # "none" } |->
     [started |-> StartedAt(c), stopped |-> StoppedAt(c),
      deadline |-> StartedAt(c) + ShortestWindow]]

\* A signature carries the time of the release it was given for.
SignedAt(b, key) ==
  LET gc == key[1] = "general_counsel" IN
  IF b = AffectedParty THEN NoticeAt(IF gc THEN 40 ELSE 50)
  ELSE IF key[2] = 0 THEN IF gc THEN TS_SIGN_GC ELSE TS_RELEASE
  ELSE IF gc THEN TS_AMEND_SIGN_GC ELSE TS_AMEND_RELEASE

ReleasedBranches == { b \in Branches : InRun(b) /\ state[b] = "released" }

Signoffs ==
  UNION { { <<b, key[1], SignedAt(b, key)>> : key \in keys[b] } : b \in ReleasedBranches }

Suppressed == { b \in Branches : state[b] = "suppressed" }

\* A review that finds nothing where the scorer finds a stray span missed it.
Ungrounded ==
  \E i \in DOMAIN DRAFTER_ROLES :
    /\ DRAFTER_ROLES[i] \in Drafted
    /\ ~Passes(ScoreFiling(FirstText(DRAFTER_ROLES[i]), CanonicalFacts))

Reviews == {"absent", "sound"} \cup (IF Ungrounded THEN {"missed"} ELSE {})

\* The packet before any sheet is derived.
BasePacket(review) ==
  [clocks |-> ClockRows, transitions |-> rows,
   claims |-> [b \in Drafted |-> claims[b]],
   blocked |-> \E b \in Branches : \E i \in DOMAIN rows[b] : rows[b][i].event = "diff_blocked",
   resolved |-> \E b \in Branches : \E i \in DOMAIN rows[b] : rows[b][i].ts = TS_RESOLVE,
   filings |-> BaseFilings \cup AmendedFilings,
   ledger |-> Drafted,
   drops |-> scenario.mode = "chaos" /\ "sec" \in Drafted,
   injected |-> scenario.mode = "inject_claims" /\ "sec" \in Drafted,
   review |-> review,
   reconciled |-> Amends,
   materiality |-> IF ~scenario.materiality THEN "absent"
                   ELSE IF "sec" \in Suppressed THEN "not_material"
                   ELSE "material",
   regimes |-> IF scenario.mode = "reportability" THEN {"nis2", "sec", "dora"} ELSE {},
   suppressed |-> Suppressed,
   conflict |-> IF scenario.mode # "cross_border" THEN "absent"
                ELSE IF conflict = "none" THEN "clean"
                ELSE conflict,
   affected |-> IF scenario.mode # "affected_party" THEN "absent"
                ELSE IF AffectedParty \in Drafted THEN "required"
                ELSE "not_required",
   hold |-> hold, deficient |-> scenario.mode = "deficiency", receipts |-> receipts,
   recruited |-> { b \in {"uk", "nydfs"} : InRun(b) },
   signoffs |-> {}]

\* The sheets, in the order they are derived: the register is read before the
\* signatures are in the packet, the assertion after.
Assembled(review) ==
  LET early == BasePacket(review)
      p == [early EXCEPT !.signoffs = Signoffs]
      s == [completeness |-> CompletenessRecord(p),
            consistency |-> ConflictingFacts(p),
            controls |-> ControlRegister(early),
            grounding |-> Grounding(p.filings),
            sod |-> SodMatrix(p),
            assertion |-> ControlRegister(p),
            attestation |-> Attestation(p),
            edgar |-> EdgarExport(p),
            after_action |-> AfterAction(p)]
      marked == Designate(p, s)
  IN  [base |-> p,
       sheets |-> [name \in DOMAIN s \cup {"privilege"} |->
                     IF name = "privilege" THEN marked ELSE s[name]]]

Assemble ==
  /\ step = "sealed" /\ packet = NoPacket
  /\ \E review \in Reviews : packet' = Assembled(review)
  /\ UNCHANGED <<vars, slip, rows, disk>>
-----------------------------------------------------------------------------
(***************************************************************************)
(* The files.  A run that ends before it wrote one leaves the one of the   *)
(* run before.                                                             *)
(***************************************************************************)
Write(file, after) ==
  /\ packet # NoPacket
  /\ after \subseteq disk /\ file \notin disk
  /\ disk' = disk \cup {file}
  /\ UNCHANGED <<vars, slip, rows, packet>>

WriteJson == Write("json", {})
WriteHtml == Write("html", {"json"})
SaveLog == Write("log", {"json", "html"})

PacketInterrupt == Interrupt /\ Quiet

\* The process may end between two files; nothing starts it again.
PacketOver ==
  step \in Finished /\ UNCHANGED <<vars, packetVars>>

PacketNext ==
  LoggedDrive \/ PacketInterrupt \/ Assemble \/ WriteJson \/ WriteHtml \/ SaveLog
    \/ PacketOver

PacketSpec == PacketInit /\ [][PacketNext]_<<vars, packetVars>>
-----------------------------------------------------------------------------
(***************************************************************************)
(* Properties.                                                             *)
(***************************************************************************)
Base == packet.base
Sheets == packet.sheets
IsAssembled == packet # NoPacket

\* The entries a reader of the timeline has seen of branch b when the clock of b
\* is shown as stopped.
StoppedAfter(b) ==
  LET line == BranchTimeline(Base, b)
  IN  \A i \in DOMAIN line :
        line[i].kind = "clock_stop" =>
          \E j \in 1..(i - 1) : line[j].event \in {"human_released", "suppress"}

ToldInOrder(b) ==
  LET line == BranchTimeline(Base, b)
  IN  /\ ReplayEntries(line, "initiated") = state[b]
      /\ StoppedAfter(b)
      /\ line # <<>> => line[1].kind = "clock_start"

\* The timeline tells the run in an order it can have happened in: what it shows
\* of a branch, read from the top, is a legal run of the protocol that ends where
\* the branch is, from the start of its clock to a release or suppression before
\* the clock stops.  (timeline.py build_timeline.)  Two beats are left out, a
\* contradiction that was caught and an amendment: there the events of one minute
\* are listed in the order of their kinds, not in the order they happened.
TimelineReplays ==
  IsAssembled =>
    \A b \in Branches : ~Base.blocked /\ ~(Amends /\ Amended(b)) => ToldInOrder(b)

\* The signatures the packet prints for a released branch are the two that
\* released what now stands: both roles, none older than the release before, the
\* last one at the minute of the last release.  (TwoKeyReleaseGate.reset,
\* _assemble_packet)
PacketNamesStandingKeys ==
  IsAssembled =>
    \A b \in ReleasedBranches :
      LET given == { k \in Base.signoffs : k[1] = b }
          releases == { rows[b][i].ts : i \in { j \in DOMAIN rows[b] :
                          rows[b][j].event = "human_released" /\ rows[b][j].admitted } }
      IN  /\ { k[2] : k \in given } = REQUIRED_ROLES
          /\ \A k \in given : \A t \in releases :
               t < k[3] \/ \A u \in releases : u <= t
          /\ \E k \in given : k[3] \in releases

\* The sheets agree with the branches and with each other: the clocks that the
\* signed attestation, the after-action and the cover count as filed in time are
\* those of the branches that were closed one way or the other, the register and
\* the assertion name the same controls although one is derived before the
\* signatures are there, and a veto or a release is in the register exactly when
\* the run had one; and the signatures they print are the standing ones.
\* (attestation.py, timeline.py, packet.py, controls.py)
AccountsAgree ==
  IsAssembled =>
    LET closed == { b \in Branches : state[b] \in {"released", "suppressed"} }
    IN  /\ Sheets.attestation.met = closed
        /\ Sheets.after_action.met = closed
        /\ { c \in DOMAIN Base.clocks : ClockStatus(Base, c) = "filed" } = closed
        /\ Operated(Sheets.controls) = Operated(Sheets.assertion)
        /\ "SOD-01" \in Operated(Sheets.controls) <=> ReleasedBranches # {}
        /\ "VAL-01" \in Operated(Sheets.controls) <=>
             scenario.mode = "inject_contradiction" /\ "sec" \in Drafted
        /\ AllHold(Sheets.sod)
        /\ PacketNamesStandingKeys

\* The EDGAR export puts together what stands filed and what was filed first: its
\* facts are those the SEC branch released last, its body is one draft that writes
\* its own start, with one claims block, and the facts of that block are those of
\* the first release.  A correction or an amendment changes the claims and not the
\* text: after an amendment facts and text are of two filings, and after a
\* contradiction, and only then, the text is of a draft that was never filed.
\* (_diff_and_gate, exports_edgar.py to_edgar_8k, drafter.py defang_control_fences)
ExportIsOfTheFilings ==
  IsAssembled /\ Sheets.edgar # NoExport =>
    LET body == Sheets.edgar.body[1]
        sent == filed["sec"]
    IN  /\ Sheets.edgar.facts[1] = sent[Len(sent)]
        /\ WellFormed(body)
        /\ \E i \in DOMAIN body.dates : body.dates[i] = ParseClaims(body).start
        /\ ParseClaims(body) = sent[1] <=> ~Base.blocked

\* The screens flag the filings that have something wrong and no other, each
\* round by the facts of that round.  An amended filing has no mandated fields at
\* all; the transposed start of a contradiction is of the right day and passes.
\* (grounding.py score_filings, completeness.py, _assemble_packet)
ScreensFlagOnlySlips ==
  IsAssembled =>
    \A f \in Base.filings :
      LET slipped == IF f.round = "first" /\ slip[1] = f.branch THEN slip[2] ELSE "none"
          echoes == scenario.mode = "inject_claims" /\ f.branch = "sec"
      IN  /\ Passes(Sheets.grounding[f]) <=> slipped \notin {"figure", "actor"} /\ ~echoes
          /\ Sheets.completeness[f] <=> slipped # "field" /\ f.round # "amended"

\* What makes a section of the page red, in terms of the run.
Causes ==
  LET missed == IF Base.review = "missed" THEN {"adversarial_review"} ELSE {}
      slipped == slip[1] \in Drafted
                   /\ ~(scenario.mode = "deficiency" /\ slip[1] = "sec")
      mode == scenario.mode
  IN  missed
      \cup (IF mode = "inject_contradiction" /\ "sec" \in Drafted THEN {"diff"} ELSE {})
      \cup (IF Amends THEN {"reconciliation", "completeness", "consistency"} ELSE {})
      \cup (IF mode = "deficiency" THEN {"deficiency"} ELSE {})
      \cup (IF slipped /\ slip[2] = "field" THEN {"completeness"} ELSE {})
      \cup (IF slipped /\ slip[2] \in {"figure", "actor"} THEN {"grounding"} ELSE {})
      \cup (IF Base.injected THEN {"grounding"} ELSE {})
      \cup (IF scenario.materiality /\ Suppressed # {} THEN {"materiality"} ELSE {})
      \cup (IF mode = "reportability" /\ Suppressed # {} THEN {"reportability"} ELSE {})
      \cup (IF Base.affected = "not_required" THEN {"affected_party"} ELSE {})
      \cup (IF conflict # "none" THEN {"cross_border"} ELSE {})
      \cup (IF Sheets.privilege.privileged # {} THEN {"privilege"} ELSE {})

\* The page is red where the run had something to show in red and nowhere else,
\* and the outcome on its cover is that of the run: cleared after a contradiction,
\* released if anything was, pending if every branch was suppressed.  No sealed
\* run is shown as blocked: nothing it logged was turned away.  (packet.py)
PageTellsTheRun ==
  IsAssembled =>
    LET page == RenderHtml(Base, Sheets)
        drafted == { b \in Branches : InRun(b) } \ Suppressed
    IN  /\ RedSections(page) = Causes
        /\ page.cover.gate =
             IF drafted = {} THEN "PENDING"
             ELSE IF scenario.mode = "inject_contradiction" /\ "sec" \in drafted THEN "CLEARED"
             ELSE "RELEASED"
-----------------------------------------------------------------------------
(***************************************************************************)
(* The inductive invariant, on top of that of the floor: what the log of a *)
(* branch says is what the branch has been through, and an assembled packet *)
(* is what the sealed run amounts to.                                      *)
(***************************************************************************)
\* Who speaks in which role.
Voice ==
  [triage |-> {"triage"}, warden |-> {"warden"}, materiality |-> {"materiality"},
   drafter |-> { DrafterOf[b] : b \in Branches }, human_owner |-> {"lena"},
   human_admin |-> {}]
Voices == UNION { Voice[role] : role \in Roles }

Spoken ==
  { s \in [event : Event, role : Roles, actor : Voices, ts : Nat] :
      s.role \in EVENT_AUTHORITY[s.event] /\ s.actor \in Voice[s.role] }
Row ==
  { r \in [event : Event, role : Roles, actor : Voices, ts : Nat, admitted : BOOLEAN] :
      r.role \in EVENT_AUTHORITY[r.event] /\ r.actor \in Voice[r.role] }

RowsOf(b) == { rows[b][i] : i \in DOMAIN rows[b] }

\* The amendment found the SEC branch suppressed: this run will not be sealed.
Stuck(b) == Amends /\ b = "sec" /\ state[b] = "suppressed"

\* The SEC filing contradicts the others.
Vetoed == scenario.mode = "inject_contradiction" /\ Live("sec")

\* When the n-th filing of b was released.
ReleasedOn(b, n) ==
  IF b = AffectedParty THEN NoticeAt(50)
  ELSE IF n = 1 THEN TS_RELEASE
  ELSE TS_AMEND_RELEASE

BeforeDiff == Early \ {"resolve"}

Fits(b, r) ==
  \/ Stuck(b)
  \/ /\ r.admitted
     /\ r.event \in {"signoff_opened", "human_released"} => Live(b) /\ step \notin Early
     /\ r.event = "diff_blocked" => Vetoed /\ step \notin BeforeDiff
     /\ r.event = "human_released" =>
          \E n \in 1..Len(filed[b]) : r.ts = ReleasedOn(b, n)

IsRelease(b, r) ==
  r.event = "human_released" /\ r.admitted /\ r.ts = ReleasedOn(b, Len(filed[b]))

Veto(r) == r.event = "diff_blocked"
Remedy(r) == r.ts = TS_RESOLVE

RowsOK ==
  /\ \A b \in Branches : \A r \in RowsOf(b) : Fits(b, r)
  /\ \A b \in Branches : filed[b] # <<>> => \E r \in RowsOf(b) : IsRelease(b, r)
  /\ Vetoed /\ step \notin BeforeDiff => \E b \in Branches : \E r \in RowsOf(b) : Veto(r)
  /\ Vetoed /\ step \notin Early => \E b \in Branches : \E r \in RowsOf(b) : Remedy(r)

\* The two signatures of the last release of b.
LastKeys(b) == REQUIRED_ROLES \X {Len(filed[b]) - 1}

BeatsOK ==
  /\ clock["nis2-early"] # "stopped"
  /\ conflict # "none" => scenario.mode = "cross_border"
  /\ step = "resolve" => Vetoed
  /\ \A b \in Branches : state[b] = "suppressed" => claims[b] = NoClaims \/ Amends
  /\ Stuck("sec") =>
       \/ step \in Early \cup {"release", "amend", "propose", "concur",
                              "amend_submit", "amend_diff"}
       \/ step = "amend_release" /\ InTodo("sec")
  /\ \A b \in Branches : filed[b] # <<>> /\ ~Signing(b) => keys[b] = LastKeys(b)

PacketTypeOK ==
  slip \in ModelSlips /\ rows \in [Branches -> Seq(Row)]

PacketOK ==
  packet # NoPacket =>
    step = "sealed" /\ \E review \in Reviews : packet = Assembled(review)

PacketIInv ==
  /\ IInv /\ PacketTypeOK /\ PacketOK
  /\ ~CutShort => BeatsOK /\ RowsOK
=============================================================================
