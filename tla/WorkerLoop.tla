----------------------------- MODULE WorkerLoop -----------------------------
(***************************************************************************)
(* An agent that carries one mention through its lifecycle and posts its   *)
(* reply exactly once: the loop BandAgentShell.run drives                  *)
(* (shell/band_agent_shell.py).  The single-drafter floor runs its drafter *)
(* this way, and every floor its Warden.                                   *)
(*                                                                         *)
(* The room and the lifecycle of the mention are Band's (external): a      *)
(* mention is served again until it is marked processed or failed, and     *)
(* those marks are accepted only while it is processing.                   *)
(***************************************************************************)
EXTENDS BandCalls

CONSTANTS
  IdleBreaks,     \* idle_breaks: empty polls after which run() returns
  MaxCrashes      \* bound: how many times the process is killed

ASSUME WorkerAssumption == IdleBreaks \in Nat \ {0} /\ MaxCrashes \in Nat

VARIABLES
  mention,   \* Band: where the mention stands
  copies,    \* Band: how many replies with our dedup key are in the room
  handled,   \* _handled: this process carried the mention to its end
  idle,      \* consecutive empty polls
  crashes    \* how often the process was killed

bandVars   == <<mention, copies>>
workerVars == <<handled, idle>>
vars == <<callVars, bandVars, workerVars, crashes>>

Open == {"delivered", "processing"}
Over == {"down", "left"}

Init ==
  /\ pc = "poll" /\ CallsInit
  /\ mention = "delivered" /\ copies = 0
  /\ handled = FALSE /\ idle = 0 /\ crashes = 0

Goto(l) == pc' = l
Keep == UNCHANGED bandVars
-----------------------------------------------------------------------------
\* next_message: a failure whose body is empty looks like an empty inbox, any
\* other one is a BandError that leaves run().
Poll ==
  /\ pc = "poll"
  /\ Call(Keep, Keep,
          Goto(IF mention \in Open /\ ~handled THEN "claim" ELSE "empty"),
          Goto("empty") \/ Goto("down"))
  /\ UNCHANGED <<workerVars, crashes>>

\* Fault: run() returns one empty poll too early.
Empty_OneTooFew ==
  /\ pc = "empty"
  /\ idle' = idle + 1
  /\ Goto(IF idle' + 1 >= IdleBreaks THEN "left" ELSE "poll")
  /\ Local /\ UNCHANGED <<bandVars, handled, crashes>>

\* Enough empty polls in a row and run() returns.
Empty ==
  /\ pc = "empty"
  /\ idle' = idle + 1
  /\ Goto(IF idle' = IdleBreaks THEN "left" ELSE "poll")
  /\ Local /\ UNCHANGED <<bandVars, handled, crashes>>

\* mark(processing): outside the try of run().
Claim ==
  /\ pc = "claim"
  /\ idle' = 0
  /\ Call(mention' = "processing" /\ UNCHANGED copies, Keep,
          Goto("handle"), Goto("down"))
  /\ UNCHANGED <<handled, crashes>>

\* handle() writes the reply, or raises (the model failed).
Handle ==
  /\ pc = "handle"
  /\ Goto("check") \/ Goto("fail")
  /\ Local /\ UNCHANGED <<bandVars, workerVars, crashes>>

\* already_posted reads the room.
Check ==
  /\ pc = "check"
  /\ ReadRoom(copies > 0, Keep, Goto("ack"), Goto("post"))
  /\ UNCHANGED <<workerVars, crashes>>

\* Fault: a post that failed is sent again without another look at the room.
Post_TriedAgain ==
  /\ pc = "post"
  /\ Call(copies' = copies + 1 /\ UNCHANGED mention, Keep,
          Goto("ack"), Goto("post"))
  /\ UNCHANGED <<workerVars, crashes>>

Post ==
  /\ pc = "post"
  /\ Call(copies' = copies + 1 /\ UNCHANGED mention, Keep,
          Goto("ack"), Goto("fail"))
  /\ UNCHANGED <<workerVars, crashes>>

\* A terminal mark.  Band refuses it unless the mention is processing, which it
\* no longer is when an earlier attempt got through and its reply was lost.
Mark(state, onFailure) ==
  /\ IF mention = "processing"
       THEN Call(mention' = state /\ UNCHANGED copies, Keep,
                 Goto("poll"), Goto(onFailure))
       ELSE Keep /\ Local /\ Goto(onFailure)
  /\ handled' = (handled \/ pc' = "poll")
  /\ UNCHANGED <<idle, crashes>>

\* mark(processed): a failure goes to the except branch of run().
Ack == pc = "ack" /\ Mark("processed", "fail")

\* mark(failed): a failure of this one leaves run().
Fail == pc = "fail" /\ Mark("failed", "down")

\* The process is killed wherever it is.
Crash ==
  /\ pc \notin Over /\ crashes < MaxCrashes
  /\ crashes' = crashes + 1
  /\ Goto("down")
  /\ Local /\ UNCHANGED <<bandVars, workerVars>>

\* A fresh process remembers nothing.
Restart ==
  /\ pc = "down"
  /\ Goto("poll") /\ attempt' = 0
  /\ handled' = FALSE /\ idle' = 0
  /\ UNCHANGED <<faults, setup, bandVars, crashes>>

Left == pc = "left" /\ UNCHANGED vars

Work == Poll \/ Empty \/ Claim \/ Handle \/ Check \/ Post \/ Ack \/ Fail

Next == Work \/ Crash \/ Restart \/ Left

Spec == Init /\ [][Next]_vars

\* The loop keeps running and a dead agent is restarted.
FairSpec == Spec /\ WF_vars(Work) /\ WF_vars(Restart)
-----------------------------------------------------------------------------
TypeOK ==
  /\ pc \in {"poll", "empty", "claim", "handle", "check", "post", "ack", "fail"}
           \cup Over
  /\ attempt \in Nat /\ faults \in Nat
  /\ max_attempts \in Nat \ {0} /\ blind \in BOOLEAN
  /\ mention \in Open \cup {"processed", "failed"} /\ copies \in Nat
  /\ handled \in BOOLEAN /\ idle \in Nat /\ crashes \in Nat

\* A reply is posted, and copied, only while the mention is in hand: the claim is
\* of an open mention, and what follows it of one that is processing.
InHand ==
  /\ pc = "claim" => mention \in Open
  /\ pc \in {"handle", "check", "post"} => mention = "processing"

\* What a copy costs, seen from inside the post: everything in the room is paid
\* for before another copy is sent.
CopiesArePaid ==
  /\ copies <= 1 + faults
  /\ pc = "post" => copies <= faults

\* What the loop knows of the room when it can be read and no call is repeated.
KnowsRoom ==
  Sighted =>
    /\ copies <= 1
    /\ pc = "post" => copies = 0
    /\ pc = "ack" => copies = 1 /\ mention = "processing"
    /\ mention = "processed" => copies = 1

\* The inductive invariant.
IInv == TypeOK /\ InHand /\ CopiesArePaid /\ KnowsRoom
-----------------------------------------------------------------------------
\* Kills alone never double a reply: behind every copy after the first there is
\* a call the network spoiled, an unread room or a lost answer.
ExtraCopiesCostFaults == copies <= 1 + faults

\* With a room that can always be read and no blind retry, the loop is an
\* exactly-once handoff: kills, lost answers and all.
Promise == INSTANCE ExactlyOnceHandoff WITH
  status <- CASE mention = "processed" -> "done"
              [] mention = "failed" -> "given_up"
              [] OTHER -> "open"

KeepsHandoffPromise ==
  /\ Promise!HandoffInit
  /\ [][Sighted => [Promise!HandoffNext]_(Promise!handoff)]_vars

\* Every mention reaches the end of its lifecycle, as long as fewer polls fail
\* than the loop takes for a quiet inbox (MaxFaults < IdleBreaks).
MentionIsClosed == <>(mention \notin Open)
=============================================================================
