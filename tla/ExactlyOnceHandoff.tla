------------------------- MODULE ExactlyOnceHandoff -------------------------
(***************************************************************************)
(* What the handoff layer promises about one unit of work, whatever        *)
(* machinery keeps the promise: its result lands at most once, the work is *)
(* called done only when the result has landed, and nothing lands after    *)
(* the work was closed.                                                    *)
(***************************************************************************)
EXTENDS Naturals

VARIABLES copies,   \* how many copies of the result are in the room
          status    \* "open", "done" or "given_up"

handoff == <<copies, status>>

HandoffInit == copies = 0 /\ status = "open"

Land ==
  /\ status = "open" /\ copies = 0
  /\ copies' = 1
  /\ UNCHANGED status

Settle ==
  /\ status = "open" /\ copies = 1
  /\ status' = "done"
  /\ UNCHANGED copies

GiveUp ==
  /\ status = "open"
  /\ status' = "given_up"
  /\ UNCHANGED copies

HandoffNext == Land \/ Settle \/ GiveUp

HandoffSpec == HandoffInit /\ [][HandoffNext]_handoff
=============================================================================
