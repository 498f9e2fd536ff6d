------------------------- MODULE HandoffDrainProofs -------------------------
(***************************************************************************)
(* For any number of branches and of failures: the ledger, the room and    *)
(* the protocol agree on what has landed, and every branch's draft is      *)
(* handed over exactly once.                                               *)
(***************************************************************************)
EXTENDS HandoffDrain, TLAPS

\* apply() leaves a branch in a state of the protocol.
LEMMA NextStateTyped ==
  ASSUME NEW s \in State, NEW e, NEW role
  PROVE  NextState(s, e, role) \in State
  <1>1. CASE Admits(s, e, role)
    <2>1. \E t \in State : Moves(s, e, role, t)
      BY <1>1 DEF Admits
    <2>2. (CHOOSE t \in State : Moves(s, e, role, t)) \in State
      BY <2>1
    <2>3. QED
      BY <1>1, <2>2 DEF NextState
  <1>2. CASE ~Admits(s, e, role)
    BY <1>2 DEF NextState
  <1>3. QED
    BY <1>1, <1>2

\* Where an event has at most one edge the table decides.
LEMMA NextStateIs ==
  ASSUME NEW s, NEW e, NEW role, NEW t \in State,
         Moves(s, e, role, t),
         \A u \in State : Moves(s, e, role, u) => u = t
  PROVE  NextState(s, e, role) = t
  BY DEF NextState, Admits

\* The events of a run, in the states a branch has when they are fired.
LEMMA RunMoves ==
  /\ NextState("initiated", "fact_record_posted", "triage")
       = "fact_record_ready"
  /\ NextState("fact_record_ready", "draft_started", "drafter") = "drafting"
  /\ NextState("drafting", "draft_started", "drafter") = "drafting"
  /\ NextState("draft_submitted", "draft_started", "drafter")
       = "draft_submitted"
  /\ NextState("drafting", "draft_posted", "drafter") = "draft_submitted"
  /\ NextState("draft_submitted", "diff_blocked", "warden") = "drafting"
  /\ NextState("draft_submitted", "diff_passed", "warden")
       = "contradiction_checked"
  /\ NextState("contradiction_checked", "signoff_opened", "warden")
       = "awaiting_human_signoff"
  /\ NextState("awaiting_human_signoff", "human_released", "drafter")
       = "awaiting_human_signoff"
  /\ NextState("awaiting_human_signoff", "human_released", "human_owner")
       = "released"
  /\ Admits("drafting", "draft_posted", "drafter")
  /\ ~Admits("fact_record_ready", "draft_posted", "drafter")
  <1> DEFINE OnlyMove(s, e, role, t) ==
               /\ t \in State /\ Moves(s, e, role, t)
               /\ \A u \in State : Moves(s, e, role, u) => u = t
             Stays(s, e, role) == \A u \in State : ~Moves(s, e, role, u)
  <1>1. /\ OnlyMove("initiated", "fact_record_posted", "triage",
                    "fact_record_ready")
        /\ OnlyMove("fact_record_ready", "draft_started", "drafter", "drafting")
        /\ OnlyMove("drafting", "draft_posted", "drafter", "draft_submitted")
        /\ OnlyMove("draft_submitted", "diff_blocked", "warden", "drafting")
        /\ OnlyMove("draft_submitted", "diff_passed", "warden",
                    "contradiction_checked")
        /\ OnlyMove("contradiction_checked", "signoff_opened", "warden",
                    "awaiting_human_signoff")
        /\ OnlyMove("awaiting_human_signoff", "human_released", "human_owner",
                    "released")
        /\ Stays("awaiting_human_signoff", "human_released", "drafter")
        /\ Stays("drafting", "draft_started", "drafter")
        /\ Stays("draft_submitted", "draft_started", "drafter")
        /\ Stays("fact_record_ready", "draft_posted", "drafter")
    BY DEF Moves, TRANSITIONS, ProtocolRows, BreachRows, State, Event,
           TERMINAL_STATES, REOPENABLE_STATES, Authorised, EVENT_AUTHORITY,
           NoRole
  <1>2. ASSUME NEW s, NEW e, NEW role, NEW t, OnlyMove(s, e, role, t)
        PROVE  NextState(s, e, role) = t
    BY <1>2, NextStateIs
  <1>3. ASSUME NEW s, NEW e, NEW role, Stays(s, e, role)
        PROVE  NextState(s, e, role) = s /\ ~Admits(s, e, role)
    BY <1>3 DEF NextState, Admits
  <1>4. Admits("drafting", "draft_posted", "drafter")
    BY <1>1 DEF Admits
  <1> HIDE DEF OnlyMove, Stays
  <1>5. QED
    BY <1>1, <1>2, <1>3, <1>4

LEMMA InitIInv == Init => IInv
  <1> SUFFICES ASSUME Init PROVE IInv
    OBVIOUS
  <1> USE DrainAssumption DEF Init
  <1>1. \A b \in Branches : state[b] = "fact_record_ready"
    BY RunMoves
  <1>2. TypeOK
    <2>1. state \in [Branches -> State]
      BY NextStateTyped DEF State
    <2>2. QED
      BY <2>1 DEF TypeOK, Draining, Keys
  <1>3. OneInHand
    BY DEF OneInHand, Carrying, Draining
  <1>4. LandedOnce
    BY <1>1 DEF LandedOnce, Draining, Keys
  <1>5. PostIsAdmitted
    BY DEF PostIsAdmitted
  <1>6. EveryBranchFiles
    BY DEF EveryBranchFiles
  <1>7. QED
    BY <1>2, <1>3, <1>4, <1>5, <1>6 DEF IInv

\* While the drain lasts a message is served, fails or is closed for one branch.
LEMMA VisitIInv ==
  ASSUME IInv, NEW b \in Branches, Visit(b)
  PROVE  IInv'
  <1> USE DrainAssumption DEF IInv, TypeOK, messageVars, ledgerVars, postVars
  <1>a. at' \in Draining => EveryBranchFiles'
    BY DEF Draining, EveryBranchFiles
  <1>1. CASE Serve(b)
    <2> USE <1>1 DEF Serve
    <2>1. state'[b] = IF state[b] = "draft_submitted" THEN "draft_submitted"
                                                      ELSE "drafting"
      BY RunMoves DEF LandedOnce, Draining
    <2>2. TypeOK'
      BY NextStateTyped DEF Draining
    <2>3. OneInHand'
      BY DEF OneInHand, Draining, Carrying, Settled
    <2>4. LandedOnce'
      BY <2>1 DEF LandedOnce, Draining, ClaimsFor
    <2>5. PostIsAdmitted'
      BY <2>1, RunMoves DEF PostIsAdmitted, LandedOnce, Draining
    <2>6. QED
      BY <1>a, <2>2, <2>3, <2>4, <2>5 DEF Draining
  <1>2. ASSUME NEW kind \in Kinds, Fail(b, kind), current = b, at \in Carrying,
               \/ attempt' = attempt
               \/ attempt' = [attempt EXCEPT ![b] = @ + 1]
        PROVE  IInv'
    <2> USE <1>2 DEF Fail, CanFail
    <2>1. TypeOK'
      BY DEF Draining, Kinds
    <2>2. OneInHand'
      BY DEF OneInHand, Draining, Carrying, Settled
    <2>3. LandedOnce'
      BY DEF LandedOnce, Draining, Carrying, ClaimsFor
    <2>4. PostIsAdmitted'
      BY DEF PostIsAdmitted
    <2>5. QED
      BY <1>a, <2>1, <2>2, <2>3, <2>4 DEF Draining
  <1>3. CASE DieBeforePost(b) \/ DieAfterPost(b) \/ LoseAck(b)
    BY <1>2, <1>3 DEF DieBeforePost, DieAfterPost, LoseAck, Kill, Fail, Carrying,
                      Kinds
  <1>4. CASE Post(b)
    <2> USE <1>4 DEF Post
    <2>1. <<b, 1>> \notin seen => state[b] = "drafting"
      BY RunMoves DEF PostIsAdmitted, LandedOnce, Draining
    <2>2. <<b, 1>> \notin seen => state'[b] = "draft_submitted"
      BY <2>1, RunMoves DEF Accepted
    <2>3. TypeOK'
      BY NextStateTyped DEF Draining, Keys, ClaimsFor
    <2>4. OneInHand'
      BY DEF OneInHand, Draining, Carrying, Settled
    <2>5. LandedOnce'
      <3>1. CASE <<b, 1>> \in seen
        BY <3>1 DEF LandedOnce, Draining, Accepted, ClaimsFor
      <3>2. CASE <<b, 1>> \notin seen
        <4>1. /\ seen' = seen \cup {<<b, 1>>}
              /\ room' = [room EXCEPT ![<<b, 1>>] = @ + 1]
              /\ claims' = [claims EXCEPT ![b] = ClaimsFor(b)]
              /\ \A c \in Branches : c # b => state'[c] = state[c]
          BY <3>2 DEF Accepted
        <4>2. \A c \in Branches : <<c, 1>> \in Keys
          BY DEF Keys
        <4>3. QED
          BY <2>2, <3>2, <4>1, <4>2 DEF LandedOnce, Draining, ClaimsFor
      <3>3. QED
        BY <3>1, <3>2
    <2>6. PostIsAdmitted'
      BY DEF PostIsAdmitted
    <2>7. QED
      BY <1>a, <2>3, <2>4, <2>5, <2>6 DEF Draining
  <1>5. CASE Ack(b)
    <2> USE <1>5 DEF Ack
    <2>1. TypeOK'
      BY DEF Draining
    <2>2. OneInHand'
      BY DEF OneInHand, Draining, Carrying, Settled
    <2>3. LandedOnce'
      BY DEF LandedOnce, Draining, ClaimsFor
    <2>4. PostIsAdmitted'
      BY DEF PostIsAdmitted
    <2>5. QED
      BY <1>a, <2>1, <2>2, <2>3, <2>4 DEF Draining
  <1>6. QED
    BY <1>1, <1>3, <1>4, <1>5 DEF Visit

\* After the drain the driver holds no message and posts under no first key.
LEMMA AfterDrainIInv ==
  ASSUME IInv, Drained \/ GivesUp \/ DiffPasses \/ Correct \/ Signoff \/ HumansRelease
  PROVE  IInv'
  <1> USE DrainAssumption DEF IInv, TypeOK, messageVars, ledgerVars, postVars
  <1>1. CASE Drained
    BY <1>1 DEF Drained, OneInHand, LandedOnce, PostIsAdmitted, Draining,
                Carrying, Settled, ClaimsFor, EveryBranchFiles
  <1>g. CASE GivesUp
    BY <1>g DEF GivesUp, OneInHand, LandedOnce, PostIsAdmitted, Draining,
                Carrying, Settled, ClaimsFor, EveryBranchFiles
  <1>2. at = "diff" => \A b \in Branches :
          state[b] = "draft_submitted" /\ claims[b] = ClaimsFor(b)
    BY DEF OneInHand, LandedOnce, Settled, Draining
  <1>3. CASE DiffPasses
    <2> USE <1>3 DEF DiffPasses
    <2>1. \A b \in Branches : claims[b] = "canonical"
      <3>1. SUFFICES ASSUME NEW b \in Branches, claims[b] # "canonical"
                     PROVE  FALSE
        OBVIOUS
      <3>2. b = wrong
        BY <1>2, <3>1 DEF ClaimsFor
      <3>3. PICK a \in Branches : a # b
        BY <3>1
      <3>4. claims[a] = "canonical"
        BY <1>2, <3>2, <3>3 DEF ClaimsFor
      <3>5. QED
        BY <3>1, <3>4 DEF Conflict
    <2>2. TypeOK' /\ OneInHand' /\ LandedOnce' /\ PostIsAdmitted'
      BY DEF OneInHand, LandedOnce, PostIsAdmitted, Draining, Carrying, Settled
    <2>3. QED
      BY <1>2, <2>1, <2>2 DEF EveryBranchFiles
  <1>4. CASE Correct
    <2> USE <1>4 DEF Correct
    <2>1. wrong \in Branches
      BY <1>2 DEF Conflict, ClaimsFor
    <2>2. TypeOK'
      BY <2>1, NextStateTyped DEF Draining, Redrafted, Blocked, Keys
    <2>3. OneInHand' /\ LandedOnce' /\ PostIsAdmitted'
      BY DEF OneInHand, LandedOnce, PostIsAdmitted, Draining, Carrying, Settled,
             Keys
    <2>4. \A b \in Branches : state'[b] = "draft_submitted"
      BY <1>2, RunMoves DEF Redrafted, Blocked
    <2>5. \A b \in Branches : claims'[b] = "canonical"
      BY <1>2, <2>1 DEF ClaimsFor
    <2>6. QED
      BY <2>2, <2>3, <2>4, <2>5 DEF EveryBranchFiles
  <1>5. CASE Signoff
    <2> USE <1>5 DEF Signoff
    <2>1. TypeOK'
      BY NextStateTyped DEF Draining, Passed
    <2>2. OneInHand' /\ LandedOnce' /\ PostIsAdmitted'
      BY DEF OneInHand, LandedOnce, PostIsAdmitted, Draining, Carrying, Settled
    <2>3. \A b \in Branches : state'[b] = "awaiting_human_signoff"
      BY RunMoves DEF EveryBranchFiles, Passed
    <2>4. QED
      BY <2>1, <2>2, <2>3 DEF EveryBranchFiles
  <1>6. CASE HumansRelease
    <2> USE <1>6 DEF HumansRelease
    <2>1. TypeOK'
      BY NextStateTyped DEF Draining
    <2>2. OneInHand' /\ LandedOnce' /\ PostIsAdmitted'
      BY DEF OneInHand, LandedOnce, PostIsAdmitted, Draining, Carrying, Settled
    <2>3. \A b \in Branches : state'[b] = "released"
      BY RunMoves DEF EveryBranchFiles
    <2>4. QED
      BY <2>1, <2>2, <2>3 DEF EveryBranchFiles
  <1>7. QED
    BY <1>1, <1>g, <1>3, <1>4, <1>5, <1>6

LEMMA NextIInv == IInv /\ [Next]_vars => IInv'
  <1> SUFFICES ASSUME IInv, [Next]_vars PROVE IInv'
    OBVIOUS
  <1>1. CASE \E b \in Branches : Visit(b)
    BY <1>1, VisitIInv
  <1>2. CASE Drained \/ GivesUp \/ DiffPasses \/ Correct \/ Signoff \/ HumansRelease
    BY <1>2, AfterDrainIInv
  <1>3. CASE UNCHANGED vars
    BY <1>3 DEF vars, messageVars, ledgerVars, postVars, IInv, TypeOK, OneInHand,
                LandedOnce, PostIsAdmitted, Settled, ClaimsFor, EveryBranchFiles
  <1>4. QED
    BY <1>1, <1>2, <1>3 DEF Next, Drive, Over

\* The driver, the ledger, the room and the protocol agree, at every step of a
\* drain over any number of branches under any failure schedule: this is the
\* invariant the run checks on three branches.
THEOREM DrainInvariant == Spec => []IInv
  <1>1. QED
    BY InitIInv, NextIInv, PTL DEF Spec

\* Every message's draft lands once in the ledger, the room and the protocol
\* together, whatever the schedule.
THEOREM DrainLandsOnce == Spec => []LandedOnce
  <1>1. IInv => LandedOnce
    BY DEF IInv
  <1>2. QED
    BY <1>1, DrainInvariant, PTL

\* Whatever failed, a run that reaches its end has filed every branch, and no two
\* branches have filed different facts.
THEOREM DrainFiles == Spec => []EveryBranchFiles
  <1>1. IInv => EveryBranchFiles
    BY DEF IInv
  <1>2. QED
    BY <1>1, DrainInvariant, PTL

\* Every branch's draft is handed over exactly once: it lands at most once, is
\* called done only when it has landed, and nothing lands afterwards.
THEOREM DrainKeepsHandoffPromise == Spec => KeepsHandoffPromise
  <1>1. Init => \A b \in Branches : Handoff(b)!HandoffInit
    BY DEF Init, Handoff!HandoffInit, Keys
  <1>2. IInv /\ [Next]_vars =>
          \A b \in Branches : [Handoff(b)!HandoffNext]_(Handoff(b)!handoff)
    <2> SUFFICES ASSUME IInv, [Next]_vars, NEW b \in Branches
                 PROVE  [Handoff(b)!HandoffNext]_(Handoff(b)!handoff)
      OBVIOUS
    <2> DEFINE copies == room[<<b, 1>>]
               done == lifecycle[b] = "processed"
    <2>1. CASE copies' = copies /\ done' = done
      BY <2>1 DEF Handoff!handoff
    <2>2. CASE ~done /\ ~done' /\ copies = 0 /\ copies' = 1
      BY <2>2 DEF Handoff!HandoffNext, Handoff!Land
    <2>3. CASE ~done /\ done' /\ copies = 1 /\ copies' = 1
      BY <2>3 DEF Handoff!HandoffNext, Handoff!Settle
    <2>4. copies = (IF <<b, 1>> \in seen THEN 1 ELSE 0)
      BY DEF IInv, LandedOnce
    <2>5. CASE \E c \in Branches : Visit(c)
      <3> PICK c \in Branches : Visit(c)
        BY <2>5
      <3> USE DEF IInv, TypeOK, messageVars, ledgerVars, postVars
      <3>1. CASE Post(c)
        <4>1. done' = done
          BY <3>1 DEF Post
        <4>2. copies' = IF c = b /\ <<b, 1>> \notin seen THEN copies + 1
                                                        ELSE copies
          BY <3>1 DEF Post, Accepted, Keys
        <4>3. done => <<b, 1>> \in seen
          BY DEF LandedOnce
        <4>4. QED
          BY <2>1, <2>2, <2>4, <4>1, <4>2, <4>3
      <3>2. CASE Ack(c)
        <4>1. copies' = copies
          BY <3>2 DEF Ack
        <4>2. CASE c = b
          <5>1. <<b, 1>> \in seen /\ ~done
            BY <3>2, <4>2 DEF Ack, LandedOnce, OneInHand
          <5>2. done'
            BY <3>2, <4>2 DEF Ack
          <5>3. QED
            BY <2>3, <2>4, <4>1, <5>1, <5>2
        <4>3. CASE c # b
          <5>1. done' = done
            BY <3>2, <4>3 DEF Ack
          <5>2. QED
            BY <2>1, <4>1, <5>1
        <4>4. QED
          BY <4>2, <4>3
      <3>3. CASE ~Post(c) /\ ~Ack(c)
        <4>1. copies' = copies
          BY <3>3 DEF Visit, Serve, DieBeforePost, DieAfterPost, LoseAck, Kill,
                      Fail
        <4>2. done' = done
          BY <3>3 DEF Visit, Serve, DieBeforePost, DieAfterPost, LoseAck, Kill,
                      Fail, OneInHand
        <4>3. QED
          BY <2>1, <4>1, <4>2
      <3>4. QED
        BY <3>1, <3>2, <3>3
    <2>6. CASE ~\E c \in Branches : Visit(c)
      <3>1. done' = done
        BY <2>6 DEF Next, Drive, Drained, GivesUp, DiffPasses, Correct, Signoff,
                    HumansRelease, Over, vars, messageVars
      <3>2. copies' = copies
        BY <2>6 DEF Next, Drive, Drained, GivesUp, DiffPasses, Correct, Signoff,
                    HumansRelease, Over, vars, messageVars, postVars, IInv,
                    TypeOK, Keys
      <3>3. QED
        BY <2>1, <3>1, <3>2
    <2>7. QED
      BY <2>5, <2>6
  <1>3. QED
    BY <1>1, <1>2, DrainInvariant, PTL DEF Spec, KeepsHandoffPromise
=============================================================================
