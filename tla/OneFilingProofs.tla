--------------------------- MODULE OneFilingProofs ---------------------------
(***************************************************************************)
(* What is proved of one filing taken by itself, in two parts.             *)
(*                                                                         *)
(* Its life under the composed Warden (ComposedWarden), for every bound on *)
(* the amendment rounds: the inductive invariant, and that it implements   *)
(* the lifecycle of a filing.                                              *)
(*                                                                         *)
(* Its draft on the way to the room (DrafterHandoff), for any retry limit, *)
(* any number of spoiled calls and any length of the drain, with and       *)
(* without the kill of the drill: where the room can be read and no call   *)
(* is repeated, one draft lands, the packet shows that one, and the ledger *)
(* drops exactly the duplicate of the drill.                               *)
(***************************************************************************)
EXTENDS ComposedWarden, DrafterHandoff, SequenceTheorems, TLAPS

-----------------------------------------------------------------------------
(* The life of a filing under the composed Warden                          *)

\* The table is typed: an admitted event moves a branch from a live state to a
\* state of the protocol.
LEMMA MovesTyped ==
  ASSUME NEW s, NEW e, NEW role, NEW t, Moves(s, e, role, t)
  PROVE  /\ s \in State /\ t \in State
         /\ s \notin TERMINAL_STATES
         /\ <<s, e, t>> \in TRANSITIONS
  BY DEF Moves, TRANSITIONS, ProtocolRows, BreachRows, State,
         TERMINAL_STATES, REOPENABLE_STATES

\* Where an event that rides no gate can lead: only a breach leaves the state
\* of an open amendment, nothing enters or leaves a release, and a branch on
\* its way to release stays on it or is closed.
LEMMA PlainMoves ==
  ASSUME NEW s \in State, NEW e \in Event, NEW role, NEW t,
         e \notin {"human_released", "fact_amended"},
         ~(s = "amending" /\ e = "draft_posted"),
         Moves(s, e, role, t)
  PROVE  /\ s # "released" /\ t # "released" /\ t # "amending"
         /\ s = "amending" => t = "failed"
         /\ t \notin {"initiated"}
         /\ t = "fact_record_ready" => s = "initiated"
         /\ s \in {"drafting", "draft_submitted", "contradiction_checked",
                   "awaiting_human_signoff"} =>
              t \in {"drafting", "draft_submitted", "contradiction_checked",
                     "awaiting_human_signoff"} \cup TERMINAL_STATES
  BY DEF Moves, TRANSITIONS, ProtocolRows, BreachRows, State,
         TERMINAL_STATES, REOPENABLE_STATES

\* The three gated events have one edge each.
LEMMA GatedMoves ==
  ASSUME NEW s, NEW role, NEW t
  PROVE  /\ Moves(s, "human_released", role, t) =>
              s = "awaiting_human_signoff" /\ t = "released"
         /\ Moves(s, "fact_amended", role, t) =>
              s = "released" /\ t = "amending"
         /\ Moves(s, "draft_posted", role, t) =>
              s \in {"drafting", "amending"} /\ t = "draft_submitted"
  BY DEF Moves, TRANSITIONS, ProtocolRows, BreachRows

LEMMA InitWardenIInv == WardenInit => WardenIInv
  <1> SUFFICES ASSUME WardenInit PROVE WardenIInv
    OBVIOUS
  <1>1. WardenTypeOK
    <2>1. released_once \in BOOLEAN /\ concurred \in BOOLEAN
      BY Zenon DEF WardenInit
    <2>2. amend_round \in 0..MAX_ROUNDS
      BY MaxRoundsAssumption DEF WardenInit
    <2>3. state \in State /\ have_keys \subseteq REQUIRED_ROLES
      BY DEF WardenInit, State
    <2>4. QED
      BY <2>1, <2>2, <2>3 DEF WardenTypeOK
  <1>2. KeysAreUsedUp /\ AmendmentRoundIsOpen
    BY DEF WardenInit, KeysAreUsedUp, AmendmentRoundIsOpen
  <1>3. ReleaseCommitIsPosition /\ ConcurrenceIsForThisRound
    BY Zenon DEF WardenInit, ReleaseCommitIsPosition, ConcurrenceIsForThisRound
  <1>4. QED
    BY <1>1, <1>2, <1>3 DEF WardenIInv

LEMMA NextWardenIInv == WardenIInv /\ [WardenNext]_wardenVars => WardenIInv'
  <1> SUFFICES ASSUME WardenIInv, [WardenNext]_wardenVars PROVE WardenIInv'
    OBVIOUS
  <1> USE MaxRoundsAssumption
          DEF WardenIInv, WardenTypeOK, KeysAreUsedUp, ReleaseCommitIsPosition,
              ConcurrenceIsForThisRound, AmendmentRoundIsOpen
  <1>1. ASSUME NEW e \in Event, ProtocolStep(e) PROVE WardenIInv'
    <2>1. PICK role \in EVENT_AUTHORITY[e] : PlainEvent(e, role)
      BY <1>1 DEF ProtocolStep
    <2>2. Moves(state, e, role, state')
      BY <2>1 DEF PlainEvent, Apply
    <2>3. state' \in State
      BY <2>2, MovesTyped
    <2>4. /\ state # "released" /\ state' # "released" /\ state' # "amending"
          /\ state = "amending" => state' = "failed"
          /\ state' # "initiated"
          /\ state' = "fact_record_ready" => state = "initiated"
          /\ state \in {"drafting", "draft_submitted", "contradiction_checked",
                        "awaiting_human_signoff"} =>
               state' \in {"drafting", "draft_submitted",
                           "contradiction_checked", "awaiting_human_signoff"}
                          \cup TERMINAL_STATES
      BY <2>1, <2>2, PlainMoves DEF PlainEvent
    <2>5. state \notin TERMINAL_STATES
      BY <2>2 DEF Moves
    <2>6. QED
      BY <2>1, <2>3, <2>4, <2>5 DEF PlainEvent, TERMINAL_STATES
  <1>2. CASE ReleaseStep
    <2>1. PICK role \in EVENT_AUTHORITY["human_released"] : HumanReleased(role)
      BY <1>2 DEF ReleaseStep
    <2>2. state = "awaiting_human_signoff" /\ state' = "released"
      BY <2>1, GatedMoves DEF HumanReleased, Apply
    <2>3. QED
      BY <2>1, <2>2 DEF HumanReleased, State
  <1>3. CASE AmendStep
    <2>1. PICK role \in EVENT_AUTHORITY["fact_amended"] : FactAmended(role)
      BY <1>3 DEF AmendStep
    <2>2. state = "released" /\ state' = "amending"
      BY <2>1, GatedMoves DEF FactAmended, Apply
    <2>3. have_keys' = {}
      BY <2>1, <2>2 DEF FactAmended, TERMINAL_STATES
    <2>4. amend_round' \in 1..MAX_ROUNDS
      BY <2>1 DEF FactAmended
    <2>5. released_once' = FALSE /\ concurred' = FALSE
      BY <2>1 DEF FactAmended
    <2>6. released_once' \in BOOLEAN /\ concurred' \in BOOLEAN
      BY <2>5, Zenon
    <2>7. WardenTypeOK'
      BY <2>2, <2>3, <2>4, <2>6 DEF State
    <2>8. ReleaseCommitIsPosition' /\ ConcurrenceIsForThisRound'
      BY <2>2, <2>5, Zenon
    <2>9. QED
      BY <2>2, <2>3, <2>4, <2>7, <2>8
  <1>4. CASE SubmitStep
    <2>1. PICK role \in EVENT_AUTHORITY["draft_posted"] :
            AmendmentSubmitted(role)
      BY <1>4 DEF SubmitStep
    <2>2. state = "amending" /\ state' = "draft_submitted"
      BY <2>1, GatedMoves DEF AmendmentSubmitted, Apply
    <2>3. UNCHANGED <<have_keys, released_once, amend_round>>
      BY <2>1 DEF AmendmentSubmitted
    <2>4. have_keys = {} /\ ~released_once
      BY <2>2, Zenon DEF TERMINAL_STATES
    <2>5. concurred' = FALSE
      BY <2>1 DEF AmendmentSubmitted
    <2>6. WardenTypeOK'
      BY <2>2, <2>3, <2>5 DEF State
    <2>7. ReleaseCommitIsPosition' /\ ConcurrenceIsForThisRound'
      BY <2>2, <2>3, <2>4, <2>5, Zenon
    <2>8. QED
      BY <2>2, <2>3, <2>4, <2>6, <2>7
  <1>5. ASSUME NEW role \in REQUIRED_ROLES, SignKey(role) PROVE WardenIInv'
    BY <1>5 DEF SignKey
  <1>6. CASE PostConcur
    BY <1>6 DEF PostConcur
  <1>7. CASE Absorbed \/ UNCHANGED wardenVars
    BY <1>7 DEF Absorbed, wardenVars
  <1>8. QED
    BY <1>1, <1>2, <1>3, <1>4, <1>5, <1>6, <1>7 DEF WardenNext

\* The composed Warden is type-correct, never lets a key outlive its release,
\* commits a release once per lifecycle, and binds a concurrence to its round,
\* for every bound on the rounds.
THEOREM ComposedInvariant == WardenSpec => []WardenIInv
  BY InitWardenIInv, NextWardenIInv, PTL DEF WardenSpec

-----------------------------------------------------------------------------
LEMMA InitRefines == WardenInit => Filing!LifecycleInit
  BY DEF WardenInit, Filing!LifecycleInit, TERMINAL_STATES

\* Every step of the composed machine is a step of the filing or a stutter.
LEMMA StepRefines ==
  WardenIInv /\ [WardenNext]_wardenVars => [Filing!LifecycleNext]_(Filing!lifecycle)
  <1> SUFFICES ASSUME WardenIInv, [WardenNext]_wardenVars
               PROVE  Filing!LifecycleNext \/ UNCHANGED Filing!lifecycle
    OBVIOUS
  <1> USE DEF WardenIInv, WardenTypeOK, Filing!lifecycle, TERMINAL_STATES
  <1>1. ASSUME NEW e \in Event, ProtocolStep(e)
        PROVE  Filing!LifecycleNext \/ UNCHANGED Filing!lifecycle
    <2>1. PICK role \in EVENT_AUTHORITY[e] : PlainEvent(e, role)
      BY <1>1 DEF ProtocolStep
    <2>2. Moves(state, e, role, state') /\ UNCHANGED <<have_keys, concurred>>
      BY <2>1 DEF PlainEvent, Apply
    <2>3. /\ state # "released" /\ state' # "released" /\ state' # "amending"
          /\ state = "amending" => state' = "failed"
          /\ state \notin TERMINAL_STATES
          /\ state' \in State
      BY <2>1, <2>2, MovesTyped, PlainMoves DEF PlainEvent
    <2>4. CASE state' \in TERMINAL_STATES
      <3>1. Filing!Close
        BY <2>2, <2>3, <2>4 DEF Filing!Close
      <3>2. QED
        BY <3>1 DEF Filing!LifecycleNext
    <2>5. CASE state' \in {"contradiction_checked", "awaiting_human_signoff"}
      <3>1. Filing!Check
        BY <2>2, <2>3, <2>5 DEF Filing!Check
      <3>2. QED
        BY <3>1 DEF Filing!LifecycleNext
    <2>6. CASE /\ state' \notin TERMINAL_STATES
               /\ state' \notin {"contradiction_checked",
                                 "awaiting_human_signoff"}
      <3>1. Filing!Uncheck
        BY <2>2, <2>3, <2>6 DEF Filing!Uncheck
      <3>2. QED
        BY <3>1 DEF Filing!LifecycleNext
    <2>7. QED
      BY <2>4, <2>5, <2>6
  <1>2. CASE ReleaseStep
    <2>1. PICK role \in EVENT_AUTHORITY["human_released"] : HumanReleased(role)
      BY <1>2 DEF ReleaseStep
    <2>2. state = "awaiting_human_signoff" /\ state' = "released"
      BY <2>1, GatedMoves DEF HumanReleased, Apply
    <2>3. have_keys = REQUIRED_ROLES
      BY <2>1 DEF HumanReleased, CanRelease
    <2>4. Filing!File
      BY <2>1, <2>2, <2>3 DEF HumanReleased, Filing!File
    <2>5. QED
      BY <2>4 DEF Filing!LifecycleNext
  <1>3. CASE AmendStep
    <2>1. PICK role \in EVENT_AUTHORITY["fact_amended"] : FactAmended(role)
      BY <1>3 DEF AmendStep
    <2>2. state = "released" /\ state' = "amending"
      BY <2>1, GatedMoves DEF FactAmended, Apply
    <2>3. Filing!Reopen
      BY <2>1, <2>2 DEF FactAmended, Filing!Reopen
    <2>4. QED
      BY <2>3 DEF Filing!LifecycleNext
  <1>4. CASE SubmitStep
    <2>1. PICK role \in EVENT_AUTHORITY["draft_posted"] :
            AmendmentSubmitted(role)
      BY <1>4 DEF SubmitStep
    <2>2. state = "amending" /\ state' = "draft_submitted" /\ concurred
      BY <2>1, GatedMoves DEF AmendmentSubmitted, Apply, CanSubmitAmendment
    <2>3. UNCHANGED Filing!lifecycle
      BY <2>1, <2>2 DEF AmendmentSubmitted
    <2>4. QED
      BY <2>3
  <1>5. ASSUME NEW role \in REQUIRED_ROLES, SignKey(role)
        PROVE  Filing!LifecycleNext \/ UNCHANGED Filing!lifecycle
    <2>1. Filing!Sign(role)
      BY <1>5 DEF SignKey, Filing!Sign
    <2>2. QED
      BY <2>1, <1>5 DEF Filing!LifecycleNext
  <1>6. CASE PostConcur
    <2>1. Filing!Agree
      BY <1>6 DEF PostConcur, Filing!Agree
    <2>2. QED
      BY <2>1 DEF Filing!LifecycleNext
  <1>7. CASE Absorbed \/ UNCHANGED wardenVars
    BY <1>7 DEF Absorbed, wardenVars
  <1>8. QED
    BY <1>1, <1>2, <1>3, <1>4, <1>5, <1>6, <1>7 DEF WardenNext

\* Every behaviour of the composed Warden is a filing lifecycle: no filing
\* without a passed check, both keys since the last filing and, once reopened,
\* the drafters' agreement.
THEOREM WardenKeepsFilingPromise == WardenSpec => KeepsFilingPromise
  BY InitRefines, StepRefines, ComposedInvariant, PTL
     DEF WardenSpec, KeepsFilingPromise, Filing!LifecycleSpec

-----------------------------------------------------------------------------
(* The draft of a filing on its way to the room                            *)

\* What a post does to the room.
LEMMA AppendToRoom ==
  ASSUME NEW room \in Seq(Nat), NEW d \in Nat
  PROVE  /\ Append(room, d) \in Seq(Nat)
         /\ Len(Append(room, d)) = Len(room) + 1
         /\ room = <<>> => Append(room, d) = <<d>>
  <1>1. /\ Append(room, d) \in Seq(Nat)
        /\ Len(Append(room, d)) = Len(room) + 1
    BY AppendProperties
  <1>2. Append(<<>>, d) = <<d>>
    OBVIOUS
  <1>3. QED
    BY <1>1, <1>2

LEMMA InitIInv == Init => IInv
  <1> SUFFICES ASSUME Init PROVE IInv
    OBVIOUS
  <1> USE DEF Init, CallsInit
  <1>1. /\ blind \in BOOLEAN /\ handled \in BOOLEAN /\ chaos \in BOOLEAN
        /\ recovery \in BOOLEAN /\ seen \in BOOLEAN
        /\ ~handled /\ ~recovery /\ ~seen
    OBVIOUS
  <1>2. /\ pc = "drain" /\ mention = "delivered" /\ landed = <<>>
        /\ attempt = 0 /\ faults = 0 /\ polls = 0
        /\ dropped = 0 /\ drafts = 0 /\ text = 0
    OBVIOUS
  <1>3. max_attempts \in Nat \ {0}
    BY CallsAssumption
  <1>4. landed \in Seq(Nat)
    BY <1>2
  <1> HIDE DEF Init
  <1>5. TypeOK
    BY <1>1, <1>2, <1>3, <1>4 DEF TypeOK
  <1>6. InHand
    BY <1>1, <1>2 DEF InHand
  <1>7. FirstDrive /\ SecondDrive /\ Landed
    BY <1>1, <1>2 DEF FirstDrive, SecondDrive, Landed
  <1>8. QED
    BY <1>5, <1>6, <1>7 DEF IInv

LEMMA NextIInv == IInv /\ [Next]_vars => IInv'
  <1> SUFFICES ASSUME IInv, [Next]_vars PROVE IInv'
    OBVIOUS
  <1> USE DEF IInv, TypeOK, InHand, FirstDrive, SecondDrive, Landed, Sighted,
              bandVars, ledgerVars, setup, Goto, Keep, Raise
  <1>1. CASE Drain
    <2>1. TypeOK'
      BY <1>1 DEF Drain, PollAgain, Call, Answered, Spoiled, Refused,
                  AgainOrGiveUp
    <2>2. /\ pc = "drain" /\ ~handled /\ pc' \in {"drain", "claim", "raising"}
          /\ UNCHANGED <<chaos, recovery, handled, mention, landed, seen, dropped,
                         drafts, text, max_attempts, blind>>
      BY <1>1 DEF Drain, PollAgain, Call, Answered, Spoiled, Refused,
                  AgainOrGiveUp
    <2> HIDE DEF TypeOK
    <2>3. QED
      BY <2>1, <2>2
  <1>2. CASE Claim
    BY <1>2 DEF Claim, Call, Answered, Spoiled, Refused, AgainOrGiveUp
  <1>3. CASE Look
    <2>1. TypeOK'
      BY <1>3 DEF Look, ReadRoom, Answered, Spoiled, Refused, AgainOrGiveUp
    <2>2. /\ pc = "look" /\ pc' \in {"look", "draft", "drop"}
          /\ UNCHANGED <<chaos, recovery, handled, mention, landed, seen, dropped,
                         drafts, text, max_attempts, blind>>
      BY <1>3 DEF Look, ReadRoom, Answered, Spoiled, Refused, AgainOrGiveUp
    <2>3. Sighted => pc' = IF landed # <<>> THEN "drop" ELSE "draft"
      BY <1>3 DEF Look, ReadRoom, Answered
    <2>4. Sighted /\ recovery => landed # <<>>
      BY SMTT(20)
    <2> HIDE DEF TypeOK
    <2>5. QED
      BY <2>1, <2>2, <2>3, <2>4
  <1>4. CASE Drop
    BY <1>4 DEF Drop, Record, Local
  <1>5. CASE Draft
    <2>0. seen' \in BOOLEAN /\ dropped' \in Nat /\ drafts' \in Nat
      <3>1. seen' = TRUE \/ seen' = seen
        BY <1>5 DEF Draft, Record
      <3>2. /\ dropped' = dropped \/ dropped' = dropped + 1
            /\ drafts' = drafts \/ drafts' = drafts + 1
        BY <1>5 DEF Draft, Record
      <3>3. seen' \in BOOLEAN
        BY <3>1
      <3>4. dropped' \in Nat /\ drafts' \in Nat
        BY <3>2
      <3>5. QED
        BY <3>3, <3>4
    <2>1. TypeOK'
      BY <1>5, <2>0 DEF Draft, Local
    <2>2. /\ pc = "draft"
          /\ UNCHANGED <<chaos, recovery, handled, mention, landed, text,
                         max_attempts, blind>>
          /\ \/ pc' = "guard" /\ seen' = TRUE
                /\ dropped' = IF seen THEN dropped + 1 ELSE dropped
             \/ pc' = "raising" /\ UNCHANGED <<seen, dropped>>
      BY <1>5 DEF Draft, Record, Local
    <2> HIDE DEF TypeOK
    <2>3. QED
      BY <2>1, <2>2
  <1>6. CASE Guard
    <2>1. TypeOK'
      BY <1>6 DEF Guard, ReadRoom, Answered, Spoiled, Refused, AgainOrGiveUp
    <2>2. /\ pc = "guard" /\ pc' \in {"guard", "keep", "post"}
          /\ UNCHANGED <<chaos, recovery, handled, mention, landed, seen, dropped,
                         drafts, text, max_attempts, blind>>
      BY <1>6 DEF Guard, ReadRoom, Answered, Spoiled, Refused, AgainOrGiveUp
    <2>3. Sighted => pc' = IF landed # <<>> THEN "keep" ELSE "post"
      BY <1>6 DEF Guard, ReadRoom, Answered
    <2> HIDE DEF TypeOK
    <2>4. QED
      BY <2>1, <2>2, <2>3
  <1>7. CASE Post
    <2>1. /\ pc = "post" /\ pc' \in {"post", "keep", "raising"}
          /\ UNCHANGED <<chaos, recovery, polls, handled, mention, seen, dropped,
                         drafts, text, max_attempts, blind>>
      BY <1>7 DEF Post, Call, Answered, Spoiled, Refused, AgainOrGiveUp
    <2>2. landed' = landed \/ landed' = Append(landed, drafts)
      BY <1>7 DEF Post, Call, Answered, Spoiled, Refused, AgainOrGiveUp
    <2>3. /\ Sighted => pc' # "post"
          /\ pc' = "keep" => landed' = Append(landed, drafts)
          /\ attempt' \in Nat /\ faults' \in Nat
      BY <1>7 DEF Post, Call, Answered, Spoiled, Refused, AgainOrGiveUp
    <2>4. landed' \in Seq(Nat)
      BY <2>2, AppendToRoom
    <2>5. TypeOK'
      BY <2>1, <2>3, <2>4
    <2>6. Sighted => /\ ~recovery /\ landed = <<>>
                     /\ landed' = <<>> \/ Len(landed') = 1
                     /\ pc' = "keep" => landed' = <<drafts>>
      <3>1. SUFFICES ASSUME Sighted
                     PROVE  /\ ~recovery /\ landed = <<>>
                            /\ landed' = <<>> \/ Len(landed') = 1
                            /\ pc' = "keep" => landed' = <<drafts>>
        OBVIOUS
      <3>2. ~recovery /\ landed = <<>>
        BY <2>1, <3>1
      <3>3. Append(landed, drafts) = <<drafts>> /\ Len(Append(landed, drafts)) = 1
        BY <3>2, AppendToRoom
      <3>4. QED
        BY <2>2, <2>3, <3>2, <3>3
    <2> HIDE DEF TypeOK
    <2>7. QED
      BY <2>1, <2>3, <2>5, <2>6
  <1>8. CASE KeepText
    BY <1>8 DEF KeepText, Local
  <1>9. CASE Kill
    BY <1>9 DEF Kill, Local
  <1>10. CASE Reclaim
    BY <1>10 DEF Reclaim, Call, Answered, Spoiled, Refused, AgainOrGiveUp
  <1>11. CASE Recovered
    BY <1>11 DEF Recovered, Local
  <1>12. CASE Ack
    BY <1>12, SMTT(20) DEF Ack, Local, Call, Answered, Spoiled, Refused, AgainOrGiveUp
  <1>13. CASE Abort
    BY <1>13 DEF Abort, Local
  <1>14. CASE Over \/ UNCHANGED vars
    BY <1>14 DEF Over, vars, callVars
  <1>15. QED
    BY <1>1, <1>2, <1>3, <1>4, <1>5, <1>6, <1>7, <1>8, <1>9, <1>10, <1>11,
       <1>12, <1>13, <1>14 DEF Next

\* The drafter knows where its draft is, at every step of every schedule of lost
\* calls, killed once or not.
THEOREM DrafterInvariant == Spec => []IInv
  <1>1. QED
    BY InitIInv, NextIInv, PTL DEF Spec

\* A drive that ends well put one draft into the room, shows that one in the
\* packet, and dropped one duplicate exactly if its drafter was killed.
THEOREM PacketIsWhatLanded == Spec => []PacketShowsWhatLanded
  <1>1. IInv => PacketShowsWhatLanded
    <2> SUFFICES ASSUME IInv, pc = "done", Sighted
                 PROVE  /\ landed = <<text>>
                        /\ dropped = IF chaos THEN 1 ELSE 0
      BY DEF PacketShowsWhatLanded
    <2>1. recovery = chaos
      BY DEF IInv, InHand
    <2>2. landed = <<text>>
      BY DEF IInv, Landed
    <2>3. dropped = IF recovery THEN 1 ELSE 0
      BY DEF IInv, FirstDrive, SecondDrive
    <2>4. QED
      BY <2>1, <2>2, <2>3
  <1>2. QED
    BY <1>1, DrafterInvariant, PTL

\* With a readable room and no blind retry the drafter hands its draft over exactly
\* once, through the kill between its post and its mark as well.
THEOREM DrafterKeepsHandoffPromise == Spec => KeepsHandoffPromise
  <1>1. Init => Promise!HandoffInit
    BY DEF Init, Promise!HandoffInit
  <1>2. IInv /\ [Next]_vars =>
          (Sighted => [Promise!HandoffNext]_(Promise!handoff))
    <2> SUFFICES ASSUME IInv, [Next]_vars, Sighted
                 PROVE  [Promise!HandoffNext]_(Promise!handoff)
      OBVIOUS
    <2> DEFINE closed == mention = "processed"
               raised == pc = "raised"
    <2>1. CASE landed' = landed /\ closed' = closed /\ raised' = raised
      BY <2>1 DEF Promise!handoff
    <2>2. CASE landed' = landed /\ closed /\ closed'
      BY <2>2 DEF Promise!handoff
    <2> USE DEF IInv, TypeOK, InHand, Landed, FirstDrive, Sighted, bandVars, setup,
                Keep, Goto, Raise, Call, ReadRoom, Answered, Spoiled, Refused,
                AgainOrGiveUp, Local
    <2>3. CASE Post
      <3>1. ~closed /\ ~closed' /\ ~raised /\ ~raised'
        BY <2>3 DEF Post
      <3>2. landed = <<>> /\ (landed' = landed \/ landed' = Append(landed, drafts))
        BY <2>3 DEF Post, SecondDrive
      <3>3. Len(landed) = 0 /\ (landed' = landed \/ Len(landed') = 1)
        BY <3>2, AppendToRoom
      <3>4. QED
        BY <2>1, <3>1, <3>3 DEF Promise!HandoffNext, Promise!Land
    <2>4. CASE Ack
      <3>1. landed' = landed /\ Len(landed) = 1 /\ ~raised /\ ~raised'
        BY <2>4 DEF Ack
      <3>2. closed' = closed \/ (~closed /\ closed')
        BY <2>4 DEF Ack
      <3>3. QED
        BY <2>1, <3>1, <3>2 DEF Promise!HandoffNext, Promise!Settle
    <2>5. CASE Abort
      <3>1. landed' = landed /\ closed' = closed /\ ~raised /\ raised'
        BY <2>5 DEF Abort
      <3>2. QED
        BY <2>2, <3>1 DEF Promise!HandoffNext, Promise!GiveUp
    <2>6. CASE Claim \/ Reclaim
      <3>1. landed' = landed /\ closed' = closed /\ raised' = raised
        BY <2>6 DEF Claim, Reclaim
      <3>2. QED
        BY <2>1, <3>1
    <2>7. CASE Drain \/ Look \/ Drop \/ Draft \/ Guard \/ KeepText \/ Kill
               \/ Recovered \/ Over \/ UNCHANGED vars
      <3>1. landed' = landed /\ mention' = mention
        BY <2>7 DEF Drain, Look, Drop, Draft, Guard, KeepText, Kill, Recovered,
                    Over, vars
      <3>2. raised' = raised
        BY <2>7 DEF Drain, PollAgain, Look, Drop, Draft, Guard, KeepText, Kill,
                    Recovered, Over, vars, callVars
      <3>3. QED
        BY <2>1, <3>1, <3>2
    <2>8. QED
      BY <2>3, <2>4, <2>5, <2>6, <2>7 DEF Next
  <1>3. QED
    BY <1>1, <1>2, DrafterInvariant, PTL DEF Spec, KeepsHandoffPromise
=============================================================================
