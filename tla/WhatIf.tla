-------------------------------- MODULE WhatIf --------------------------------
(***************************************************************************)
(* What would have happened: floor/whatif.py takes one input of a captured *)
(* run away or moves it, computes what the same deterministic parts make   *)
(* of that, and scripts/whatif_report.py signs the answer, anchored to the *)
(* run it was derived from (warden/counterfactual_signing.py).  The answer *)
(* is checked by the script, which computes it again from what is on disk, *)
(* and by the console (web/app.js), which has the receipt only.            *)
(*                                                                         *)
(* Of the answer the figures are kept, in both worlds: the instants of the *)
(* later determination, the run without its veto and what it would have    *)
(* filed, the figure that was not corrected.  Its prose is left out.       *)
(***************************************************************************)
EXTENDS EvidenceBundle

Calendar == INSTANCE StatutoryClocks

VARIABLE whatif   \* [outcome, head, signature] in whatif-<name>.json, or NoReceipt

NoReceipt == [none |-> TRUE]

\* The question that is asked of a captured run, if one is.
Question ==
  IF At(captured, "fact_amendment") # {} THEN "amended_count_unchanged"
  ELSE IF \E i \in DOMAIN captured : Said(captured, i, "diff_blocked") THEN "contradiction_not_caught"
  ELSE IF At(captured, "chaos") \cup At(captured, "submission_receipt") # {} THEN "none"
  ELSE "sec_materiality_6h_later"

(***************************************************************************)
(* The run in which the veto was not raised.                               *)
(***************************************************************************)
\* A branch that was blocked posts a second draft, which nobody would have asked for.
Redraft(l, e) ==
  /\ Said(l, e.seq + 1, "draft_posted")
  /\ \E j \in DOMAIN l : Said(l, j, "diff_blocked") /\ Corr(l[j]) = Corr(e)
  /\ \E j \in 1..e.seq : Said(l, j, "draft_posted") /\ Corr(l[j]) = Corr(e)

OfTheBlock(l, e) == e.type = "diff" \/ Said(l, e.seq + 1, "diff_blocked")

\* Fault: the redrafts stay in.
StripContradictionBlock_KeepRedrafts(l) == SelectSeq(l, LAMBDA e : ~ OfTheBlock(l, e))

StripContradictionBlock(l) == SelectSeq(l, LAMBDA e : ~ OfTheBlock(l, e) /\ ~ Redraft(l, e))

\* A log of its own, replayed from the start by a fresh state machine.
Hypothetical(l) == Replay(Numbered(StripContradictionBlock(l)))

(***************************************************************************)
(* The three questions.                                                    *)
(***************************************************************************)
\* The instants of the captured run: the SEC clock starts with the fact record,
\* here an hour later with every revision of the rows, and stops at the release.
IncidentDay == Calendar!Midnight(Calendar!Day(2026, 6, 16))
SecStarted == IncidentDay + 9060 + packet.clocks * Calendar!HourSeconds
SecFiled == IncidentDay + 18000
Juneteenth == Calendar!Day(2026, 6, 19)

\* The count as it would be without a holiday table.
CountWeekendsOnly(start, days) ==
  LET today == Calendar!DateOf(start)
      counted(d) == { x \in today + 1 .. d : Calendar!Weekday(x) < 5 }
      last == CHOOSE d \in counted(today + 2 * days + 2) : Cardinality(counted(d)) = days
  IN  Calendar!Midnight(last + 1) - 1

\* Fault: the holiday table is left out.
Determination_Blind(at) ==
  LET due == CountWeekendsOnly(at, 4)
  IN  [at |-> at, due |-> due, met |-> SecFiled <= due]

Determination(at) ==
  LET due == Calendar!AddBusinessDays(at, 4, "US_FEDERAL")
  IN  [at |-> at, due |-> due, met |-> SecFiled <= due]

SecMaterialityLater(hours) ==
  LET later == SecStarted + hours * Calendar!HourSeconds
      moved == Determination(later)
      blind == CountWeekendsOnly(later, 4)
  IN  [actual |-> Determination(SecStarted), counterfactual |-> moved,
       naive |-> later + 4 * Calendar!DaySeconds,
       weekends_only |-> blind,
       skipped |-> Juneteenth \in Calendar!DateOf(later) .. Calendar!DateOf(moved.due),
       added |-> Calendar!DateOf(moved.due) - Calendar!DateOf(blind)]

\* The drafts that would have gone out are written down in the question itself:
\* the SEC starts the incident at another time than the other branches.
Divergent(b) == IF b = "sec" THEN "02:41" ELSE "02:14"

ContradictionNotCaught ==
  [actual |-> [blocked |-> TRUE, chain_head |-> HeadOf(log),
               conflicts |-> { Get(log[i].payload, "conflicts", 0) : i \in At(log, "diff") }],
   counterfactual |->
     [blocked |-> FALSE, run |-> StripContradictionBlock(log),
      conflicts |-> { p \in kSubset(2, ToSet(BRANCHES)) :
                        \E a, b \in p : Divergent(a) # Divergent(b) }]]

\* The figure is the only fact in which the two texts of the SEC filing differ.
Grounded(stated, held) == stated = held

AmendedCountUnchanged ==
  LET old == "48,211"
      new == "2,100,000"
  IN  [actual |-> [from |-> old, to |-> new, delta |-> old # new, refiled |-> TRUE,
                   amended |-> Grounded(new, new)],
       counterfactual |-> [from |-> old, to |-> old, delta |-> FALSE, refiled |-> FALSE,
                           original |-> Grounded(old, old), amended |-> Grounded(new, old)]]

(***************************************************************************)
(* The answer, its receipt, and who checks it.                             *)
(***************************************************************************)
Outcome ==
  CASE Question = "sec_materiality_6h_later" -> SecMaterialityLater(6)
    [] Question = "contradiction_not_caught" -> ContradictionNotCaught
    [] Question = "amended_count_unchanged" -> AmendedCountUnchanged

CounterfactualPayload(name, head, outcome) ==
  [counterfactual |-> name, actual_chain_head |-> head, outcome |-> outcome]

\* The record names what it was made over, beside the signature itself.
SignCounterfactual(name, head, outcome) ==
  [named |-> name, anchor |-> head, digest |-> outcome,
   over |-> CounterfactualPayload(name, head, outcome)]

Artifact ==
  [outcome |-> Outcome, head |-> HeadOf(log),
   signature |-> SignCounterfactual(Question, HeadOf(log), Outcome)]

\* whatif_report.py --check: nothing of the record is used but the signature.
CheckWhatif ==
  /\ HeadOf(log) = whatif.head
  /\ ~ ReplayRaises(log) /\ whatif.outcome = Outcome
  /\ whatif.signature.over = CounterfactualPayload(Question, HeadOf(log), Outcome)

\* The console: the outcome it shows against the record, never against the run.
VerifyWhatIf ==
  /\ whatif.outcome = whatif.signature.digest
  /\ whatif.signature.over =
       CounterfactualPayload(whatif.signature.named, whatif.signature.anchor, whatif.outcome)

WhatifInit == whatif = IF Question = "none" THEN NoReceipt ELSE Artifact

ReportWhatif ==
  /\ Question # "none"
  /\ whatif' = Artifact

\* One part of a stored receipt.
AlterWhatif ==
  /\ Question # "none"
  /\ \/ whatif' = [whatif EXCEPT !.outcome = [forged |-> TRUE]]
     \/ whatif' = [whatif EXCEPT !.head = "forged"]
     \/ \E f \in {"named", "anchor"} : whatif' = [whatif EXCEPT !.signature[f] = "forged"]
     \/ whatif' = [whatif EXCEPT !.signature.digest = [forged |-> TRUE]]
     \/ whatif' = [whatif EXCEPT !.signature.over.actual_chain_head = "forged"]

(***************************************************************************)
(* Properties.                                                             *)
(***************************************************************************)
\* Without its veto the run of a contradiction would have gone through: every
\* event that is left is admitted, every branch ends released, and the releases
\* have their two keys, so that nothing but the diff stopped it. It is another run
\* than the one that was sealed (whatif.contradiction_not_caught).
HypotheticalGoesThrough ==
  LET h == Hypothetical(captured)
      moves == At(h, "protocol_event")
      LastMove(c) == Max({i \in moves : Corr(h[i]) = c})
  IN /\ WellFormed(h) /\ Replay(h) = h
     /\ \A i \in moves : h[i].payload.admitted
     /\ \A c \in ToSet(BRANCHES) : h[LastMove(c)].payload.to_state = "released"
     /\ TwoKeyRelease(h)
     /\ ChainHead(h) # ChainHead(captured)

\* The holidays carry the count: a determination up to two days later is due when
\* the law of the calendar says, on a later day than without the holiday table,
\* by one day for the holiday that is named, and the filing is still in time.
HolidaysCarryTheCount ==
  \A hours \in {0, 6, 24, 48} :
    LET answer == SecMaterialityLater(hours)
        day == Calendar!DateOf(answer.counterfactual.at)
    IN  /\ Calendar!DateOf(answer.counterfactual.due) = Calendar!LawfulDay(day, 4, "US_FEDERAL")
        /\ answer.skipped /\ answer.added = 1
        /\ answer.weekends_only < answer.counterfactual.due
        /\ answer.naive < answer.counterfactual.due
        /\ answer.actual.due <= answer.counterfactual.due /\ answer.counterfactual.met

\* What an answer says happened, and what it takes away, is in the captured run:
\* the contradiction that is computed again is the one that was recorded, and the
\* SEC filed as often as the figures of its world call for.  (whatif.py)
AnswerTellsTheRun ==
  LET moves(e) == { i \in At(captured, "protocol_event") : Said(captured, i, e) }
      of(e, b) == { i \in moves(e) : Corr(captured[i]) = b }
  IN CASE Question = "sec_materiality_6h_later" -> HolidaysCarryTheCount
       [] Question = "contradiction_not_caught" ->
            /\ HypotheticalGoesThrough
            /\ Outcome.actual.blocked = (moves("diff_blocked") # {})
            /\ Outcome.actual.conflicts \ {0} = {Cardinality(Outcome.counterfactual.conflicts)}
       [] Question = "amended_count_unchanged" ->
            /\ Outcome.actual.delta = Outcome.actual.amended
            /\ Outcome.counterfactual.delta = Outcome.counterfactual.amended
            /\ Outcome.counterfactual.original
            /\ Outcome.actual.refiled = (Cardinality(of("human_released", "sec")) > 1)
=============================================================================
