---------------------------- MODULE ExaminerSheets ----------------------------
(***************************************************************************)
(* The sheets that are derived from an examiner packet: each one is a pure *)
(* reading of the packet (floor/completeness.py, consistency.py,           *)
(* controls.py, assertion.py, sod.py, attestation.py, telemetry.py,        *)
(* timeline.py, exports_edgar.py).  Several of them read the same clock or *)
(* the same transitions and have to tell one story.                        *)
(*                                                                         *)
(* Times are minutes after the start of the incident.  A clock row is      *)
(* [started, stopped, deadline] with stopped a set of at most one time; a  *)
(* transition row is [event, role, actor, ts, admitted].                   *)
(***************************************************************************)
EXTENDS FilingProse, WardenProtocol
LOCAL INSTANCE Naturals
LOCAL INSTANCE Sequences
LOCAL INSTANCE FiniteSets
LOCAL INSTANCE SequencesExt
LOCAL INSTANCE TLC

Rows(p) ==
  UNION { { p.transitions[b][i] : i \in DOMAIN p.transitions[b] } : b \in DOMAIN p.transitions }
Admitted(p) == { r \in Rows(p) : r.admitted }
AdmittedEvents(p) == { r.event : r \in Admitted(p) }

\* Who holds which release key.
KeyHolder == [general_counsel |-> "gc", head_of_ir |-> "lena"]
-----------------------------------------------------------------------------
(***************************************************************************)
(* The filings: grounding, completeness, consistency.                      *)
(***************************************************************************)
\* One sheet for every filing of the packet.
CompletenessRecord(p) == [f \in p.filings |-> SheetComplete(f.text)]
AllComplete(sheets) == \A f \in DOMAIN sheets : sheets[f]

LoadBearingFacts == {"start", "records", "containment"}

\* The facts on which the final claims of two branches differ; a run with one
\* set of claims has no sheet.
CrossRead(p) == Cardinality(DOMAIN p.claims) >= 2
ConflictingFacts(p) ==
  { f \in LoadBearingFacts :
      \E a, b \in DOMAIN p.claims : p.claims[a][f] # p.claims[b][f] }
-----------------------------------------------------------------------------
(***************************************************************************)
(* The control register: a control operated when the run shows one of its  *)
(* events, either an admitted transition or a section of the packet.       *)
(***************************************************************************)
ControlCatalog == {"SOD-01", "VAL-01", "AVL-01", "INT-01", "TML-01", "DEC-01"}

ProvingEvents(id) ==
  CASE id = "SOD-01" -> {"human_released", "signoff_opened"}
    [] id = "VAL-01" -> {"diff_blocked"}
    [] OTHER -> {}

\* Whether the section of the packet the control points at has anything in it.
SectionPresent(id, p) ==
  CASE id = "SOD-01" -> p.signoffs # {}
    [] id = "VAL-01" -> p.blocked
    [] id = "AVL-01" -> p.ledger # {}
    [] id = "DEC-01" -> p.regimes # {}
    [] OTHER -> TRUE     \* the chain head and the clocks are always there

Found(id, p) ==
  (ProvingEvents(id) \cap AdmittedEvents(p))
    \cup (IF SectionPresent(id, p) THEN {"section"} ELSE {})

\* Fault: only the section a control points at is looked for.
ControlRegister_SectionsOnly(p) ==
  [id \in ControlCatalog |-> IF SectionPresent(id, p) THEN {"section"} ELSE {}]

ControlRegister(p) == [id \in ControlCatalog |-> Found(id, p)]

Operated(register) == { id \in ControlCatalog : register[id] # {} }
-----------------------------------------------------------------------------
(***************************************************************************)
(* The separation of duties, over the actors of the admitted transitions   *)
(* and of the release keys <<branch, role, ts>>.                           *)
(***************************************************************************)
Authors(p) == { r.actor : r \in { x \in Admitted(p) :
                                    "drafter" \in EVENT_AUTHORITY[x.event] } }
Gatekeepers(p) == { r.actor : r \in { x \in Admitted(p) : x.role = "warden" } }
Releasers(p) == { KeyHolder[k[2]] : k \in p.signoffs }

KeysOfBranch(p, b) == { k[2] : k \in { x \in p.signoffs : x[1] = b } }

SodMatrix(p) ==
  [distinct_keys |->
     \A k \in p.signoffs : KeysOfBranch(p, k[1]) = DOMAIN KeyHolder,
   no_draft_and_release |-> Authors(p) \cap Releasers(p) = {},
   warden_authors_nothing |-> Gatekeepers(p) \cap Authors(p) = {},
   roles_apart |->
     { r.role : r \in { x \in Admitted(p) : "drafter" \in EVENT_AUTHORITY[x.event] } }
       \cap { k[2] : k \in p.signoffs } = {}]

AllHold(matrix) == \A i \in DOMAIN matrix : matrix[i]
-----------------------------------------------------------------------------
(***************************************************************************)
(* Four readings of the clocks: the signed attestation, the SLO line, the  *)
(* after-action margins and the chips on the cover.                        *)
(***************************************************************************)
Stopped(row) == row.stopped # {}
InTime(row) == \A t \in row.stopped : t <= row.deadline

Attestation(p) ==
  [filed |-> { c \in DOMAIN p.clocks : Stopped(p.clocks[c]) },
   met |-> { c \in DOMAIN p.clocks :
               Stopped(p.clocks[c]) /\ InTime(p.clocks[c]) }]
AllMet(att) == att.filed # {} /\ att.met = att.filed

\* The breach of a clock is judged when it stopped.
Landed(p) == { c \in DOMAIN p.clocks : p.clocks[c].stopped # {} }
Breached(p) == { c \in Landed(p) :
                   \E t \in p.clocks[c].stopped : t > p.clocks[c].deadline }

AfterAction(p) ==
  [filed |-> Landed(p), met |-> Landed(p) \ Breached(p), breaches |-> Breached(p),
   fact_change |-> p.reconciled, contradiction_caught |-> p.blocked]

ClockStatus(p, c) ==
  IF c \in Breached(p) THEN "breached"
  ELSE IF c \in Landed(p) THEN "filed"
  ELSE "running"
-----------------------------------------------------------------------------
(***************************************************************************)
(* The timeline: everything the run did, by time; entries of one minute by *)
(* kind, and then in the order they were logged.                           *)
(***************************************************************************)
\* Fault: a clock stops before what stopped it.
KindRank_StopsFirst(kind) ==
  CASE kind = "clock_start" -> 0
    [] kind = "clock_stop"  -> 1
    [] kind = "transition"  -> 2
    [] kind = "fact_change" -> 3
    [] kind = "recruit"     -> 4

KindRank(kind) ==
  CASE kind = "clock_start" -> 0
    [] kind = "transition"  -> 1
    [] kind = "fact_change" -> 2
    [] kind = "recruit"     -> 3
    [] kind = "clock_stop"  -> 4

Entry(kind, event, ts, at) ==
  [kind |-> kind, event |-> event, ts |-> ts, at |-> at]

ClockEntries(p, b) ==
  IF b \notin DOMAIN p.clocks THEN {}
  ELSE { Entry("clock_start", "clock_started", p.clocks[b].started, 0) }
         \cup { Entry("clock_stop", "clock_stopped", t, 0) : t \in p.clocks[b].stopped }

TransitionEntries(p, b) ==
  { Entry(IF p.transitions[b][i].event = "fact_amended" THEN "fact_change"
                                                        ELSE "transition",
          p.transitions[b][i].event, p.transitions[b][i].ts, i) :
      i \in { j \in DOMAIN p.transitions[b] : p.transitions[b][j].admitted } }

\* A jurisdiction that was recruited is listed at the start of its clock.
RecruitEntries(p, b) ==
  IF b \in p.recruited THEN {Entry("recruit", "recruit", p.clocks[b].started, 0)} ELSE {}

Precedes(d, e) ==
  \/ d.ts < e.ts
  \/ d.ts = e.ts /\ KindRank(d.kind) < KindRank(e.kind)
  \/ d.ts = e.ts /\ d.kind = e.kind /\ d.at < e.at

\* The entries of branch b, in the order the timeline shows them.
Ordered(entries) ==
  [n \in 1..Cardinality(entries) |->
     CHOOSE e \in entries : Cardinality({ d \in entries : Precedes(d, e) }) = n - 1]

BranchTimeline(p, b) ==
  Ordered(ClockEntries(p, b) \cup TransitionEntries(p, b) \cup RecruitEntries(p, b))

\* The timeline of b, replayed through the typed protocol: where it leads, or
\* "illegal" when an event is listed before the one that enables it.
ReplayEntries(entries, s) ==
  FoldLeft(LAMBDA at, entry :
             IF entry.event \notin Event THEN at
             ELSE IF Admits(at, entry.event, NoRole) THEN NextState(at, entry.event, NoRole)
             ELSE "illegal",
           s, entries)
-----------------------------------------------------------------------------
(***************************************************************************)
(* The EDGAR export: the facts are the final SEC claims, the body of every *)
(* element is the text of the first SEC filing.                            *)
(***************************************************************************)
NoExport == [facts |-> <<>>, body |-> <<>>]

EdgarExport(p) ==
  LET sec == { f \in p.filings : f.branch = "sec" }
      first == CHOOSE f \in sec : f.round = "amended" => \A g \in sec : g.round = "amended"
  IN  IF "sec" \notin DOMAIN p.clocks \/ "sec" \notin DOMAIN p.claims THEN NoExport
      ELSE [facts |-> <<p.claims["sec"]>>,
            body |-> IF sec = {} THEN <<>> ELSE <<first.text>>]

\* The records of the packet that were written in anticipation of a dispute or
\* for counsel, and those that are filings or statutory screens.
Privileged == {"materiality", "reportability", "affected_party_high_risk",
               "legal_hold", "reconciliation", "adversarial_review",
               "cross_border_scan", "cross_border_resolution"}
Disclosable == {"filings", "submission_receipt", "edgar_export", "completeness",
                "consistency", "regulator_intake", "attestation"}

Artifacts(p, sheets) ==
  { a \in Privileged \cup Disclosable :
      CASE a = "materiality"              -> p.materiality # "absent"
        [] a = "reportability"            -> p.regimes # {}
        [] a = "affected_party_high_risk" -> p.affected # "absent"
        [] a = "legal_hold"               -> p.hold # "none"
        [] a = "reconciliation"           -> p.reconciled
        [] a = "adversarial_review"       -> p.review # "absent"
        [] a = "cross_border_scan"        -> p.conflict # "absent"
        [] a = "cross_border_resolution"  -> p.conflict = "resolved"
        [] a = "filings"                  -> p.filings # {}
        [] a = "submission_receipt"       -> p.receipts # {}
        [] a = "edgar_export"             -> sheets.edgar # NoExport
        [] a = "completeness"             -> p.filings # {}
        [] a = "consistency"              -> CrossRead(p)
        [] a = "regulator_intake"         -> p.deficient
        [] a = "attestation"              -> TRUE }

\* What may be withheld, and what has to be produced.
Designate(p, sheets) ==
  [privileged |-> Artifacts(p, sheets) \cap Privileged,
   produced |-> Artifacts(p, sheets) \cap Disclosable]
=============================================================================
