--------------------------- MODULE DrafterHandoff ---------------------------
(***************************************************************************)
(* One drafter of the full floor, driven by hand through the lifecycle of  *)
(* its mention (floor/run_floor.py, _drive_drafter): it looks at the room, *)
(* drafts, records its key in the ledger, posts and marks the mention.     *)
(* With --chaos the drafter is killed once at position B, after its post   *)
(* and before its mark, and a restarted one takes the mention again.       *)
(*                                                                         *)
(* The driver has no except branch: a failed call ends the run.  A draft   *)
(* is its number: every call of the model writes another text.             *)
(***************************************************************************)
EXTENDS BandCalls, Sequences

CONSTANT DrainLoops   \* max_loops of _drain: how often an empty inbox is polled

ASSUME DrafterAssumption == DrainLoops \in Nat \ {0}

VARIABLES
  chaos,     \* this branch is the one the drill kills
  recovery,  \* the drafter was killed and restarted
  polls,     \* polls of the running _drain
  handled,   \* _handled: the client takes the mention for done
  mention,   \* Band: the fact record's mention
  landed,    \* Band: the drafts in the room, in order
  seen,      \* the ledger accepted the draft's key
  dropped,   \* duplicates the ledger dropped
  drafts,    \* how often the model has written the draft
  text       \* result["text"]: the draft the packet will show, 0 for none

bandVars   == <<mention, landed>>
ledgerVars == <<seen, dropped>>
vars == <<callVars, chaos, recovery, polls, handled, bandVars, ledgerVars,
          drafts, text>>

Init ==
  /\ pc = "drain" /\ CallsInit
  /\ chaos \in BOOLEAN /\ recovery = FALSE
  /\ polls = 0 /\ handled = FALSE
  /\ mention = "delivered" /\ landed = <<>>
  /\ seen = FALSE /\ dropped = 0
  /\ drafts = 0 /\ text = 0

Goto(l) == pc' = l
Keep == UNCHANGED bandVars

\* The error is on its way out of the driver.
Raise == Goto("raising")
-----------------------------------------------------------------------------
\* An empty inbox is polled again, up to the limit of _drain.
PollAgain ==
  IF polls + 1 < DrainLoops THEN Goto("drain") ELSE Raise

\* next_message: an outage with an empty body is an empty inbox, any other one
\* is a BandError.
Drain ==
  /\ pc = "drain"
  /\ Call(Keep, Keep,
          IF handled THEN PollAgain ELSE Goto("claim"),
          PollAgain \/ Raise)
  /\ polls' = IF pc' # "drain" THEN 0
              ELSE IF attempt' > 0 THEN polls
              ELSE polls + 1
  /\ UNCHANGED <<chaos, recovery, handled, ledgerVars, drafts, text>>

\* mark(processing).
Claim ==
  /\ pc = "claim"
  /\ Call(mention' = "processing" /\ UNCHANGED landed, Keep,
          Goto("look"), Raise)
  /\ UNCHANGED <<chaos, recovery, polls, handled, ledgerVars, drafts, text>>

\* already_posted, before anything is drafted.
Look ==
  /\ pc = "look"
  /\ ReadRoom(landed # <<>>, Keep, Goto("drop"), Goto("draft"))
  /\ UNCHANGED <<chaos, recovery, polls, handled, ledgerVars, drafts, text>>

\* IdempotencyLedger.record.
Record ==
  /\ seen' = TRUE
  /\ dropped' = IF seen THEN dropped + 1 ELSE dropped

\* Fault: the duplicate is dropped and the ledger is not told.
Drop_NotRecorded ==
  /\ pc = "drop"
  /\ Goto("posted")
  /\ Local
  /\ UNCHANGED <<chaos, recovery, polls, handled, bandVars, ledgerVars,
                 drafts, text>>

\* The draft is in the room already: the ledger drops the duplicate.
Drop ==
  /\ pc = "drop"
  /\ Record
  /\ Goto("posted")
  /\ Local
  /\ UNCHANGED <<chaos, recovery, polls, handled, bandVars, drafts, text>>

\* The model writes the draft, or fails.  The ledger records the key before the
\* draft is posted, and nobody looks at its answer.
Draft ==
  /\ pc = "draft"
  /\ \/ /\ drafts' = drafts + 1
        /\ Record
        /\ Goto("guard")
     \/ Raise /\ UNCHANGED <<drafts, ledgerVars>>
  /\ Local
  /\ UNCHANGED <<chaos, recovery, polls, handled, bandVars, text>>

\* post looks at the room itself.
Guard ==
  /\ pc = "guard"
  /\ ReadRoom(landed # <<>>, Keep, Goto("keep"), Goto("post"))
  /\ UNCHANGED <<chaos, recovery, polls, handled, ledgerVars, drafts, text>>

\* Fault: a post that failed is sent again without another look at the room.
Post_TriedAgain ==
  /\ pc = "post"
  /\ Call(landed' = Append(landed, drafts) /\ UNCHANGED mention, Keep,
          Goto("keep"), Goto("post"))
  /\ UNCHANGED <<chaos, recovery, polls, handled, ledgerVars, drafts, text>>

Post ==
  /\ pc = "post"
  /\ Call(landed' = Append(landed, drafts) /\ UNCHANGED mention, Keep,
          Goto("keep"), Raise)
  /\ UNCHANGED <<chaos, recovery, polls, handled, ledgerVars, drafts, text>>

\* The packet keeps the latest draft, posted or not.
KeepText ==
  /\ pc = "keep"
  /\ text' = drafts
  /\ Goto("posted")
  /\ Local
  /\ UNCHANGED <<chaos, recovery, polls, handled, bandVars, ledgerVars, drafts>>

\* Crash position B, once: _forget_handled, and the mention is drained again.
Kill ==
  /\ pc = "posted" /\ chaos /\ ~recovery
  /\ recovery' = TRUE /\ handled' = FALSE
  /\ Goto("drain")
  /\ Local
  /\ UNCHANGED <<chaos, polls, bandVars, ledgerVars, drafts, text>>

\* Nobody was killed: the mention is marked processing once more.
Reclaim ==
  /\ pc = "posted" /\ ~chaos
  /\ Call(mention' = "processing" /\ UNCHANGED landed, Keep,
          Goto("ack"), Raise)
  /\ UNCHANGED <<chaos, recovery, polls, handled, ledgerVars, drafts, text>>

Recovered ==
  /\ pc = "posted" /\ recovery
  /\ Goto("ack")
  /\ Local
  /\ UNCHANGED <<chaos, recovery, polls, handled, bandVars, ledgerVars,
                 drafts, text>>

\* mark(processed): Band refuses it once the mention is no longer processing.
Ack ==
  /\ pc = "ack"
  /\ IF mention = "processing"
       THEN Call(mention' = "processed" /\ UNCHANGED landed, Keep,
                 Goto("done"), Raise)
       ELSE Keep /\ Local /\ Raise
  /\ handled' = (pc' = "done")
  /\ UNCHANGED <<chaos, recovery, polls, ledgerVars, drafts, text>>

\* The error has left the driver: this run will not drive the mention again.
Abort ==
  /\ pc = "raising"
  /\ Goto("raised")
  /\ Local
  /\ UNCHANGED <<chaos, recovery, polls, handled, bandVars, ledgerVars,
                 drafts, text>>

Over == pc \in {"done", "raised"} /\ UNCHANGED vars

Next ==
  \/ Drain \/ Claim \/ Look \/ Drop \/ Draft \/ Guard \/ Post \/ KeepText
  \/ Kill \/ Reclaim \/ Recovered \/ Ack \/ Abort
  \/ Over

Spec == Init /\ [][Next]_vars
-----------------------------------------------------------------------------
TypeOK ==
  /\ pc \in {"drain", "claim", "look", "drop", "draft", "guard", "post", "keep",
             "posted", "ack", "raising", "raised", "done"}
  /\ attempt \in Nat /\ faults \in Nat
  /\ max_attempts \in Nat \ {0} /\ blind \in BOOLEAN
  /\ chaos \in BOOLEAN /\ recovery \in BOOLEAN
  /\ polls \in Nat /\ handled \in BOOLEAN
  /\ mention \in {"delivered", "processing", "processed"}
  /\ landed \in Seq(Nat)
  /\ seen \in BOOLEAN /\ dropped \in Nat
  /\ drafts \in Nat /\ text \in Nat

\* The mention is in hand from its claim to its mark, and closed by nothing else.
\* Only the drafter of the drill is killed, and only it takes a mention twice.
InHand ==
  /\ pc \in {"look", "drop", "draft", "guard", "post", "keep", "posted"} =>
       mention = "processing"
  /\ mention = "processed" => pc \in {"ack", "raising", "raised", "done"}
  /\ handled => pc = "done"
  /\ recovery => chaos
  /\ pc \in {"ack", "done"} => recovery = chaos

\* Where the first drive stands when the room can be read and no call is
\* repeated: nothing has landed, and from the draft on the ledger has its key.
FirstDrive ==
  Sighted /\ ~recovery =>
    /\ dropped = 0
    /\ pc \in {"drain", "claim", "look", "draft", "guard", "post"} => landed = <<>>
    /\ pc \in {"drain", "claim", "look", "draft"} => ~seen
    /\ pc \in {"guard", "post", "keep", "posted"} => seen
    /\ pc = "keep" => landed = <<drafts>>
    /\ pc # "drop"

\* Where the drive after the kill stands: the draft is there, its key is known,
\* and all that is left is to drop the duplicate.
SecondDrive ==
  Sighted /\ recovery =>
    /\ landed = <<text>> /\ seen
    /\ pc \notin {"draft", "guard", "post", "keep"}
    /\ pc \in {"drain", "claim", "look", "drop"} => dropped = 0
    /\ pc \in {"posted", "ack", "done"} => dropped = 1

\* What has landed, whichever drive put it there.
Landed ==
  Sighted =>
    /\ landed = <<>> \/ Len(landed) = 1
    /\ pc \in {"posted", "ack", "done"} => landed = <<text>>
    /\ mention = "processed" => Len(landed) = 1

\* The inductive invariant.
IInv == TypeOK /\ InHand /\ FirstDrive /\ SecondDrive /\ Landed
-----------------------------------------------------------------------------
\* With a room that can be read and no blind retry a drive that ends well has
\* put one draft into the room, shows that draft in the packet, and has dropped
\* one duplicate exactly if its drafter was killed.
PacketShowsWhatLanded ==
  pc = "done" /\ Sighted =>
    /\ landed = <<text>>
    /\ dropped = IF chaos THEN 1 ELSE 0

\* The drill is an exactly-once handoff.
Promise == INSTANCE ExactlyOnceHandoff WITH
  copies <- Len(landed),
  status <- IF mention = "processed" THEN "done"
            ELSE IF pc = "raised" THEN "given_up"
            ELSE "open"

KeepsHandoffPromise ==
  /\ Promise!HandoffInit
  /\ [][Sighted => [Promise!HandoffNext]_(Promise!handoff)]_vars
=============================================================================
