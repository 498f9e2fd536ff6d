----------------------------- MODULE FilingProse -----------------------------
(***************************************************************************)
(* The text of a filing, as the deterministic readers of the packet see    *)
(* it: what a drafter posts (floor/drafter.py, floor/claims.py), how it is *)
(* scored against the fact record (floor/grounding.py), and whether its    *)
(* mandated fields have a body (floor/completeness.py,                     *)
(* floor/deficiency.py).                                                   *)
(*                                                                         *)
(* A text is the dates, actors and count-shaped figures it writes, in      *)
(* order, whether every mandated field has a body, and the claims blocks   *)
(* that can be parsed out of it.  The rest of the prose is not looked at.  *)
(***************************************************************************)
LOCAL INSTANCE Naturals
LOCAL INSTANCE Sequences
LOCAL INSTANCE FiniteSets

\* What the readers can tell apart.  The transposed start is another minute of
\* the day of the incident; the echoed date is of another day.
Date   == {"true", "transposed", "echoed"}
Actor  == {"named", "other"}
Figure == {"old", "new", "stray"}

\* A draft of these facts that says nothing else.
Prose(facts) ==
  [dates |-> <<facts.start>>, actors |-> <<"named">>,
   figures |-> <<facts.records>>, filled |-> TRUE, blocks |-> <<>>]

\* A model may add a figure or an actor of its own, or leave a field empty.
Flaws == {"none", "figure", "actor", "field"}

Slip(text, kind) ==
  CASE kind = "figure" -> [text EXCEPT !.figures = Append(@, "stray")]
    [] kind = "actor"  -> [text EXCEPT !.actors = Append(@, "other")]
    [] kind = "field"  -> [text EXCEPT !.filled = FALSE]
    [] OTHER -> text

\* A model that obeys what was planted in its input repeats it at the top: a
\* date of its own and a claims block.
Hijacked(text, forged) ==
  [text EXCEPT !.dates = <<"echoed">> \o @, !.blocks = <<forged>> \o @]

\* The text an amendment is posted with names the new count and no field.
AmendedProse(facts) ==
  [dates |-> <<>>, actors |-> <<>>, figures |-> <<facts.records>>,
   filled |-> FALSE, blocks |-> <<>>]

\* Fault: a fence the model wrote is left as it is.
DefangControlFences_Kept(text) == text

\* A fence the model wrote is made inert; the prose around it stays.
DefangControlFences(text) == [text EXCEPT !.blocks = <<>>]

\* The one block that counts is appended after that.
BuildDraftBody(prose, facts) ==
  LET clean == DefangControlFences(prose)
  IN  [clean EXCEPT !.blocks = Append(@, facts)]

\* parse_claims refuses anything but exactly one block.
WellFormed(text) == Len(text.blocks) = 1
ParseClaims(text) == text.blocks[1]
-----------------------------------------------------------------------------
(***************************************************************************)
(* Grounding: every date, actor and count-shaped number is looked up in    *)
(* the fact record of its round.                                           *)
(***************************************************************************)
\* A date counts when it is of the day of the incident, at whatever time.
DateMatches(date) == date # "echoed"

\* How many of these spans are among those the record knows.
Grounded(s, known) == Cardinality({ i \in DOMAIN s : s[i] \in known })

ScoreFiling(text, record) ==
  LET grounded == Grounded(text.dates, { d \in Date : DateMatches(d) })
                  + Grounded(text.actors, {"named"})
                  + Grounded(text.figures, {record.records})
      total == Len(text.dates) + Len(text.actors) + Len(text.figures)
  IN  [grounded |-> grounded, total |-> total]

\* The threshold is 1.0; a text with nothing to score passes.
Passes(score) == score.grounded = score.total

\* The amended filings state one figure, each as its first count.
CheckFigureEquality(texts, record) ==
  \A i \in DOMAIN texts :
    texts[i].figures # <<>> /\ texts[i].figures[1] = record.records
-----------------------------------------------------------------------------
(***************************************************************************)
(* The mandated fields.                                                    *)
(***************************************************************************)
\* The regulator's desk takes the prose up to the last block, the completeness
\* screen up to the first: they read the same text when there is one block.
DeskAccepts(text) == text.filled
SheetComplete(text) == text.filled /\ Len(text.blocks) <= 1
=============================================================================
