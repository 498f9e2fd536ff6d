----------------------------- MODULE ExaminerPage -----------------------------
(***************************************************************************)
(* The page that is rendered from an examiner packet (floor/packet.py):    *)
(* which sections it shows, and the tone of the line each one opens with:  *)
(* "ok" is green, "bad" is red, "plain" is neither.  A section whose part  *)
(* of the packet is empty is "absent".                                     *)
(***************************************************************************)
EXTENDS ExaminerSheets

\* Shown only if there is something to show, green if it is good, red if not.
Shown(there, good) == IF there THEN (IF good THEN "ok" ELSE "bad") ELSE "absent"
Green(there) == Shown(there, TRUE)
Plain(there) == IF there THEN "plain" ELSE "absent"

\* The diff opens with the block even when it was resolved.
RenderDiff(p) == Shown(TRUE, ~p.blocked)
RenderChaos(p) ==
  IF p.ledger = {} THEN "absent"
  ELSE IF p.drops THEN "ok"
  ELSE "plain"
RenderSecurity(p) == Green(p.injected)
RenderReconciliation(p) == Shown(p.reconciled, FALSE)  \* blocked before it concurred
RenderDeficiency(p) == Shown(p.deficient, FALSE)       \* the initial rejection
RenderSubmission(p) == Green(p.receipts # {})
RenderCompleteness(p, s) == Shown(p.filings # {}, AllComplete(s.completeness))
RenderConsistency(p, s) == Shown(CrossRead(p), s.consistency = {})
RenderControls(p) == "ok"
RenderAssertion(p) == "ok"
RenderSod(p, s) == Shown(TRUE, AllHold(s.sod))
RenderLegalHold(p) == Shown(p.hold # "none", p.hold = "released")
RenderReportability(p) ==
  Shown(p.regimes # {}, p.regimes \cap p.suppressed = {})
RenderAffectedParty(p) == Shown(p.affected # "absent", p.affected = "required")
RenderCrossBorder(p) == Shown(p.conflict # "absent", p.conflict = "clean")
RenderMateriality(p) == Shown(p.materiality # "absent", p.materiality = "material")
RenderRecruit(p) == Green("uk" \in p.recruited)
RenderNydfsRecruit(p) == Green("nydfs" \in p.recruited)
RenderGrounding(p, s) ==
  Shown(p.filings # {}, \A f \in DOMAIN s.grounding : Passes(s.grounding[f]))
RenderAdversarialReview(p) == Shown(p.review # "absent", p.review # "missed")
RenderOperability(p) == Shown(TRUE, Breached(p) = {})
RenderAttestation(p, s) == Shown(TRUE, AllMet(s.attestation))
RenderRelease(p) == Green(p.signoffs # {})
RenderEdgarExport(p, s) == Plain(s.edgar # NoExport)
RenderTimeline(p) == "plain"
RenderAfterAction(p, s) ==
  Shown(TRUE, s.after_action.breaches = {} /\ s.after_action.filed # {})
\* The legend of the privileged documents is printed in red.
RenderPrivilege(s) == IF s.privilege.privileged = {} THEN "plain" ELSE "bad"

\* Fault: a run that released anything is shown as released.
GateOutcome_ReleasedFirst(p) ==
  IF \E r \in Rows(p) : r.event = "human_released" THEN "RELEASED"
  ELSE IF p.blocked /\ ~p.resolved THEN "BLOCKED"
  ELSE IF p.blocked /\ p.resolved THEN "CLEARED"
  ELSE "PENDING"

\* The outcome on the cover: an event that was turned away comes first, then a
\* contradiction that was caught, and only then the releases.
GateOutcome(p) ==
  IF \E r \in Rows(p) : ~r.admitted THEN "BLOCKED"
  ELSE IF p.blocked /\ ~p.resolved THEN "BLOCKED"
  ELSE IF p.blocked /\ p.resolved THEN "CLEARED"
  ELSE IF \E r \in Rows(p) : r.event = "human_released" THEN "RELEASED"
  ELSE "PENDING"

RenderCover(p) ==
  [gate |-> GateOutcome(p), chips |-> [c \in DOMAIN p.clocks |-> ClockStatus(p, c)]]

Sections(p, s) ==
  [diff |-> RenderDiff(p), chaos |-> RenderChaos(p), security |-> RenderSecurity(p),
   reconciliation |-> RenderReconciliation(p), deficiency |-> RenderDeficiency(p),
   submission |-> RenderSubmission(p), completeness |-> RenderCompleteness(p, s),
   consistency |-> RenderConsistency(p, s), controls |-> RenderControls(p),
   assertion |-> RenderAssertion(p), sod |-> RenderSod(p, s),
   legal_hold |-> RenderLegalHold(p), reportability |-> RenderReportability(p),
   affected_party |-> RenderAffectedParty(p), cross_border |-> RenderCrossBorder(p),
   materiality |-> RenderMateriality(p), recruit |-> RenderRecruit(p),
   nydfs_recruit |-> RenderNydfsRecruit(p), grounding |-> RenderGrounding(p, s),
   adversarial_review |-> RenderAdversarialReview(p),
   operability |-> RenderOperability(p), attestation |-> RenderAttestation(p, s),
   release |-> RenderRelease(p), edgar_export |-> RenderEdgarExport(p, s),
   timeline |-> RenderTimeline(p), after_action |-> RenderAfterAction(p, s),
   privilege |-> RenderPrivilege(s)]

RenderHtml(p, s) == [cover |-> RenderCover(p), sections |-> Sections(p, s)]

RedSections(page) ==
  { name \in DOMAIN page.sections : page.sections[name] = "bad" }
=============================================================================
