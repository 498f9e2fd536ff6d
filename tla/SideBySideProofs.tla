-------------------------- MODULE SideBySideProofs --------------------------
(***************************************************************************)
(* What is proved of what runs side by side: any incidents, of any         *)
(* branches and in any order of their steps, over one Warden               *)
(* (IncidentsApart), and any number of clients, of runs, of stops and of   *)
(* changed files over one directory (GovernanceService).                   *)
(***************************************************************************)
EXTENDS IncidentsApart, GovernanceService, FiniteSetTheorems, WellFoundedInduction, TLAPS

-----------------------------------------------------------------------------
(***************************************************************************)
(* The incidents of one Warden.                                            *)
(***************************************************************************)
\* apply() leaves a filing in a state of the protocol.
LEMMA NextStateTyped ==
  ASSUME NEW s \in State, NEW e, NEW role
  PROVE  NextState(s, e, role) \in State
  <1>1. CASE \E t \in State : Moves(s, e, role, t)
    <2>1. (CHOOSE t \in State : Moves(s, e, role, t)) \in State
      BY <1>1
    <2>2. QED
      BY <1>1, <2>1 DEF NextState, Admits
  <1>2. CASE ~\E t \in State : Moves(s, e, role, t)
    BY <1>2 DEF NextState, Admits
  <1>3. QED
    BY <1>1, <1>2

\* A key of the ledger is a pair of a branch, or of the fact record, and an
\* incident.
LEMMA KeysTyped ==
  ASSUME NEW i \in Incidents, NEW b \in Branches
  PROVE  /\ <<i, b>> \in Filings
         /\ DraftKey(i, b) \in Keys /\ FactRecordKey(i) \in Keys
  BY DEF Filings, DraftKey, FactRecordKey, Keys

LEMMA TypeInit == IncidentsInit => TypeOK
  BY DEF IncidentsInit, TypeOK, State, NoReport, Reports

LEMMA TypeStep == TypeOK /\ [IncidentsNext]_incidentVars => TypeOK'
  <1> SUFFICES ASSUME TypeOK, [IncidentsNext]_incidentVars PROVE TypeOK'
    OBVIOUS
  <1> USE DEF TypeOK
  <1>1. CASE UNCHANGED incidentVars
    BY <1>1 DEF incidentVars, Filings, Keys, Reports
  <1>2. CASE Conclude
    BY <1>2 DEF Conclude, Reports, Filings, Keys
  <1>3. ASSUME NEW i \in Incidents, StepOf(i) PROVE TypeOK'
    <2>1. ASSUME NEW op, NEW b, Takes(i, op, b)
          PROVE  at' \in [Incidents -> Nat] /\ report' \in {NoReport} \cup Reports
      BY <2>1 DEF Takes
    <2>2. CASE StartClocks(i)
      BY <2>1, <2>2 DEF StartClocks, Filings
    <2>3. CASE FactRecordPosted(i)
      <3>1. state' \in [Filings -> State]
        BY <2>3, NextStateTyped DEF FactRecordPosted, Triage
      <3>2. recorded' \in [Keys -> Nat]
        <4>1. FactRecordKey(i) \in Keys
          BY DEF FactRecordKey, Keys
        <4>2. QED
          BY <2>3, <4>1 DEF FactRecordPosted
      <3>3. QED
        BY <2>1, <2>3, <3>1, <3>2 DEF FactRecordPosted
    <2>4. ASSUME NEW b \in Branches, Draft(i, b) PROVE TypeOK'
      <3>1. state' \in [Filings -> State]
        BY <2>4, NextStateTyped, KeysTyped DEF Draft, Drafter
      <3>2. Attempts(i, b) \in Nat
        BY DEF Attempts
      <3>3. recorded' \in [Keys -> Nat]
        BY <2>4, <3>2, KeysTyped DEF Draft
      <3>4. QED
        BY <2>1, <2>4, <3>1, <3>3 DEF Draft
    <2>5. ASSUME NEW b \in Branches, DiffPass(i, b) PROVE TypeOK'
      <3>1. state' \in [Filings -> State]
        BY <2>5, NextStateTyped, KeysTyped DEF DiffPass, Warden
      <3>2. QED
        BY <2>1, <2>5, <3>1 DEF DiffPass
    <2>6. ASSUME NEW b \in Branches, ReleaseFiling(i, b) PROVE TypeOK'
      <3>1. state' \in [Filings -> State]
        <4> DEFINE opened == Warden(state[<<i, b>>], "signoff_opened")
        <4>1. opened \in State /\ Human(opened, "human_released") \in State
          BY NextStateTyped, KeysTyped DEF Warden, Human
        <4>2. QED
          BY <2>6, <4>1 DEF ReleaseFiling
      <3>2. keys' \in [Filings -> SUBSET REQUIRED_ROLES]
        BY <2>6, KeysTyped DEF ReleaseFiling, CONCURRENT_SIGNERS, REQUIRED_ROLES
      <3>3. QED
        BY <2>1, <2>6, <3>1, <3>2 DEF ReleaseFiling
    <2>7. QED
      BY <1>3, <2>2, <2>3, <2>4, <2>5, <2>6 DEF StepOf
  <1>4. QED
    BY <1>1, <1>2, <1>3 DEF IncidentsNext, IncidentsOver

\* Every step keeps the Warden's shared memory in shape.
THEOREM TypeCorrect == IncidentsSpec => []TypeOK
  BY TypeInit, TypeStep, PTL DEF IncidentsSpec
-----------------------------------------------------------------------------
\* The streams, the protocol and the roles do not depend on the incidents.
LEMMA SameStream ==
  ASSUME NEW i
  PROVE  /\ Alone(i)!Stream = Stream
         /\ Alone(i)!Branches = Branches
         /\ Alone(i)!NoReport = NoReport
         /\ Alone(i)!Filings = {i} \X Branches
  BY DEF Stream, Alone!Stream, Branches, Alone!Branches, NoReport, Alone!NoReport,
         Alone!Filings

\* A step of another incident changes nothing of incident i.
LEMMA OthersStutter ==
  ASSUME TypeOK, NEW i \in Incidents, NEW j \in Incidents, i # j, StepOf(j)
  PROVE  UNCHANGED Alone(i)!incidentVars
  <1> USE DEF TypeOK
  <1>1. ASSUME NEW op, NEW b, Takes(j, op, b)
        PROVE  at'[i] = at[i] /\ report' = report /\ kill' = kill
    BY <1>1 DEF Takes
  <1>2. at'[i] = at[i] /\ report' = report /\ kill' = kill
    BY <1>1 DEF StepOf, StartClocks, FactRecordPosted, Draft, DiffPass, ReleaseFiling
  <1>3. \A b \in Branches : state'[<<i, b>>] = state[<<i, b>>]
    <2> SUFFICES ASSUME NEW c \in Branches PROVE state'[<<i, c>>] = state[<<i, c>>]
      OBVIOUS
    <2>1. <<i, c>> \in Filings /\ \A b : <<j, b>> # <<i, c>>
      BY DEF Filings
    <2>2. QED
      BY <2>1, KeysTyped DEF StepOf, StartClocks, FactRecordPosted, Draft, DiffPass, ReleaseFiling
  <1>4. \A b \in Branches : keys'[<<i, b>>] = keys[<<i, b>>]
    <2> SUFFICES ASSUME NEW c \in Branches PROVE keys'[<<i, c>>] = keys[<<i, c>>]
      OBVIOUS
    <2>1. <<i, c>> \in Filings /\ \A b : <<j, b>> # <<i, c>>
      BY DEF Filings
    <2>2. QED
      BY <2>1, KeysTyped DEF StepOf, StartClocks, FactRecordPosted, Draft, DiffPass, ReleaseFiling
  <1>5. \A k \in (Branches \cup {"factrecord"}) \X {i} : recorded'[k] = recorded[k]
    <2> SUFFICES ASSUME NEW k \in (Branches \cup {"factrecord"}) \X {i}
                 PROVE  recorded'[k] = recorded[k]
      OBVIOUS
    <2>1. k \in Keys /\ k # FactRecordKey(j) /\ \A b : k # DraftKey(j, b)
      BY DEF Keys, FactRecordKey, DraftKey
    <2>2. QED
      BY <2>1, KeysTyped DEF StepOf, StartClocks, FactRecordPosted, Draft, DiffPass, ReleaseFiling
  <1>6. clocked' \cap ({i} \X Branches) = clocked \cap ({i} \X Branches)
    BY DEF StepOf, StartClocks, FactRecordPosted, Draft, DiffPass, ReleaseFiling
  <1>7. Of(i, state)' = Of(i, state) /\ Of(i, keys)' = Of(i, keys)
    BY <1>3, <1>4 DEF Of
  <1>8. Ledger(i, recorded)' = Ledger(i, recorded)
    BY <1>5 DEF Ledger
  <1>9. [l \in {i} |-> at[l]]' = [l \in {i} |-> at[l]]
    BY <1>2
  <1>10. QED
    BY <1>2, <1>6, <1>7, <1>8, <1>9 DEF Alone!incidentVars

\* What the incident sees of its own step: the scheduler's part.
LEMMA OwnTakes ==
  ASSUME TypeOK, NEW i \in Incidents, NEW op, NEW b, Takes(i, op, b)
  PROVE  Alone(i)!Takes(i, op, b)
  <1> DEFINE seen(r) == IF ~r.done THEN NoReport
                        ELSE [done |-> TRUE, states |-> Of(i, r.states),
                              ledger |-> Ledger(i, r.ledger)]
  <1>1. ~report.done /\ report' = report /\ kill' = kill
    BY DEF Takes
  <1>2. seen(report) = NoReport /\ seen(report)' = NoReport /\ ~NoReport.done
    BY <1>1 DEF NoReport
  <1>3. [j \in {i} |-> at[j]]' = [[j \in {i} |-> at[j]] EXCEPT ![i] = at[i] + 1]
    BY DEF Takes, TypeOK
  <1>4. [j \in {i} |-> at[j]][i] = at[i]
    OBVIOUS
  <1>5. at[i] < Len(Alone(i)!Stream) /\ Alone(i)!Stream[at[i] + 1] = <<op, b>>
    BY SameStream DEF Takes
  <1> HIDE DEF seen
  <1>6. /\ ~seen(report).done
        /\ [j \in {i} |-> at[j]][i] < Len(Alone(i)!Stream)
        /\ Alone(i)!Stream[[j \in {i} |-> at[j]][i] + 1] = <<op, b>>
        /\ [j \in {i} |-> at[j]]'
             = [[j \in {i} |-> at[j]] EXCEPT ![i] = [j \in {i} |-> at[j]][i] + 1]
        /\ UNCHANGED <<kill, seen(report)>>
    BY <1>1, <1>2, <1>3, <1>4, <1>5
  <1>7. QED
    BY <1>6 DEF Alone!Takes, seen

\* The protocol is the same for every incident.
LEMMA SameProtocol ==
  ASSUME NEW i, NEW s, NEW e
  PROVE  /\ Alone(i)!Triage(s, e) = Triage(s, e)
         /\ Alone(i)!Drafter(s, e) = Drafter(s, e)
         /\ Alone(i)!Warden(s, e) = Warden(s, e)
         /\ Alone(i)!Human(s, e) = Human(s, e)
  <1>1. Alone(i)!TRANSITIONS = TRANSITIONS /\ Alone(i)!State = State
    BY DEF TRANSITIONS, Alone!TRANSITIONS, ProtocolRows, Alone!ProtocolRows,
           BreachRows, Alone!BreachRows, State, Alone!State,
           TERMINAL_STATES, Alone!TERMINAL_STATES,
           REOPENABLE_STATES, Alone!REOPENABLE_STATES
  <1>2. Alone(i)!EVENT_AUTHORITY = EVENT_AUTHORITY /\ Alone(i)!TERMINAL_STATES = TERMINAL_STATES
    BY DEF EVENT_AUTHORITY, Alone!EVENT_AUTHORITY, Event, Alone!Event,
           TERMINAL_STATES, Alone!TERMINAL_STATES
  <1>3. \A r, t : Alone(i)!Moves(s, e, r, t) = Moves(s, e, r, t)
    BY <1>1, <1>2 DEF Moves, Alone!Moves, Authorised, Alone!Authorised, NoRole, Alone!NoRole
  <1>4. \A r : Alone(i)!NextState(s, e, r) = NextState(s, e, r)
    BY <1>1, <1>3 DEF NextState, Alone!NextState, Admits, Alone!Admits
  <1>5. QED
    BY <1>4 DEF Triage, Alone!Triage, Drafter, Alone!Drafter, Warden, Alone!Warden,
                Human, Alone!Human

\* Every step of an incident is a step of that incident alone.
LEMMA OwnStep ==
  ASSUME TypeOK, NEW i \in Incidents, StepOf(i)
  PROVE  Alone(i)!StepOf(i)
  <1> USE DEF TypeOK
  <1> DEFINE part == {i} \X Branches
  <1>1. CASE StartClocks(i)
    <2>1. Alone(i)!Takes(i, "clocks", "all")
      BY <1>1, OwnTakes DEF StartClocks
    <2>2. (clocked \cap part)' = (clocked \cap part) \cup part
      BY <1>1 DEF StartClocks
    <2>3. Of(i, state)' = Of(i, state) /\ Of(i, keys)' = Of(i, keys)
          /\ Ledger(i, recorded)' = Ledger(i, recorded)
      BY <1>1 DEF StartClocks
    <2>4. Alone(i)!StartClocks(i)
      BY <2>1, <2>2, <2>3, SameStream DEF Alone!StartClocks
    <2>5. QED
      BY <2>4 DEF Alone!StepOf
  <1>2. CASE FactRecordPosted(i)
    <2>1. Alone(i)!Takes(i, "fact_record", "all")
      BY <1>2, OwnTakes DEF FactRecordPosted
    <2>2. Of(i, state)' = [c \in part |-> IF c[1] = i THEN Triage(Of(i, state)[c], "fact_record_posted")
                                          ELSE Of(i, state)[c]]
      <3>1. \A c \in part : state'[c] = Triage(state[c], "fact_record_posted") /\ c[1] = i
        BY <1>2 DEF FactRecordPosted, Filings
      <3>2. QED
        BY <3>1 DEF Of
    <2>3. FactRecordKey(i) \in (Branches \cup {"factrecord"}) \X {i}
      BY DEF FactRecordKey
    <2>4. Ledger(i, recorded)' = [Ledger(i, recorded) EXCEPT
                                    ![FactRecordKey(i)] = Ledger(i, recorded)[FactRecordKey(i)] + 1]
      <3>1. recorded' = [recorded EXCEPT ![FactRecordKey(i)] = recorded[FactRecordKey(i)] + 1]
        BY <1>2 DEF FactRecordPosted
      <3>2. recorded[FactRecordKey(i)] + 1 \in Nat
        BY <2>3 DEF Keys
      <3>3. Ledger(i, recorded') = [Ledger(i, recorded) EXCEPT
                                    ![FactRecordKey(i)] = recorded[FactRecordKey(i)] + 1]
        BY <2>3, <3>1, <3>2 DEF Ledger, Keys
      <3>4. QED
        BY <2>3, <3>3 DEF Ledger
    <2>5. clocked' = clocked /\ Of(i, keys)' = Of(i, keys)
      BY <1>2 DEF FactRecordPosted
    <2>6. Alone(i)!FactRecordKey(i) = FactRecordKey(i)
      BY DEF FactRecordKey, Alone!FactRecordKey
    <2>7. \A c : Alone(i)!Triage(Of(i, state)[c], "fact_record_posted")
                   = Triage(Of(i, state)[c], "fact_record_posted")
      BY SameProtocol
    <2>8. Alone(i)!FactRecordPosted(i)
      BY <2>1, <2>2, <2>4, <2>5, <2>6, <2>7, SameStream DEF Alone!FactRecordPosted
    <2>9. QED
      BY <2>8 DEF Alone!StepOf
  <1>3. ASSUME NEW b \in Branches, Draft(i, b) PROVE Alone(i)!StepOf(i)
    <2>1. Alone(i)!Takes(i, "draft", b)
      BY <1>3, OwnTakes DEF Draft
    <2> DEFINE drafted == Drafter(Drafter(state[<<i, b>>], "draft_started"), "draft_posted")
    <2>2. Of(i, state)' = [Of(i, state) EXCEPT ![<<i, b>>] = drafted]
      <3>1. state' = [state EXCEPT ![<<i, b>>] = drafted]
        BY <1>3 DEF Draft
      <3>2. drafted \in State
        BY NextStateTyped, KeysTyped DEF Drafter
      <3> HIDE DEF drafted
      <3>3. Of(i, state') = [Of(i, state) EXCEPT ![<<i, b>>] = drafted]
        BY <3>1, <3>2 DEF Of, Filings
      <3>4. QED
        BY <3>3 DEF Of
    <2>3. DraftKey(i, b) \in (Branches \cup {"factrecord"}) \X {i}
      BY DEF DraftKey
    <2>4. Ledger(i, recorded)' = [Ledger(i, recorded) EXCEPT
                                    ![DraftKey(i, b)] = Ledger(i, recorded)[DraftKey(i, b)] + Attempts(i, b)]
      <3>1. recorded' = [recorded EXCEPT ![DraftKey(i, b)] = recorded[DraftKey(i, b)] + Attempts(i, b)]
        BY <1>3 DEF Draft
      <3>2. recorded[DraftKey(i, b)] \in Nat /\ Attempts(i, b) \in Nat
        BY KeysTyped DEF Attempts
      <3>3. Ledger(i, recorded') = [Ledger(i, recorded) EXCEPT
                                    ![DraftKey(i, b)] = recorded[DraftKey(i, b)] + Attempts(i, b)]
        BY <2>3, <3>1, <3>2 DEF Ledger, Keys
      <3>4. QED
        BY <2>3, <3>3 DEF Ledger, Attempts
    <2>5. clocked' = clocked /\ Of(i, keys)' = Of(i, keys)
      BY <1>3 DEF Draft
    <2>6. Alone(i)!DraftKey(i, b) = DraftKey(i, b) /\ Alone(i)!Attempts(i, b) = Attempts(i, b)
      BY DEF DraftKey, Alone!DraftKey, Attempts, Alone!Attempts
    <2>7. Alone(i)!Drafter(Alone(i)!Drafter(Of(i, state)[<<i, b>>], "draft_started"), "draft_posted")
            = drafted
      <3>1. Of(i, state)[<<i, b>>] = state[<<i, b>>]
        BY DEF Of
      <3>2. QED
        BY <3>1, SameProtocol
    <2> HIDE DEF drafted
    <2>8. Alone(i)!Draft(i, b)
      BY <2>1, <2>2, <2>4, <2>5, <2>6, <2>7 DEF Alone!Draft
    <2>9. QED
      BY <2>8, SameStream DEF Alone!StepOf
  <1>4. ASSUME NEW b \in Branches, DiffPass(i, b) PROVE Alone(i)!StepOf(i)
    <2>1. Alone(i)!Takes(i, "diff", b)
      BY <1>4, OwnTakes DEF DiffPass
    <2> DEFINE passed == Warden(state[<<i, b>>], "diff_passed")
    <2>2. Of(i, state)' = [Of(i, state) EXCEPT ![<<i, b>>] = passed]
      <3>1. state' = [state EXCEPT ![<<i, b>>] = passed]
        BY <1>4 DEF DiffPass
      <3>2. passed \in State
        BY NextStateTyped, KeysTyped DEF Warden
      <3> HIDE DEF passed
      <3>3. Of(i, state') = [Of(i, state) EXCEPT ![<<i, b>>] = passed]
        BY <3>1, <3>2 DEF Of, Filings
      <3>4. QED
        BY <3>3 DEF Of
    <2>3. UNCHANGED <<clocked, recorded, keys>>
      BY <1>4 DEF DiffPass
    <2>4. Alone(i)!Warden(Of(i, state)[<<i, b>>], "diff_passed") = passed
      BY SameProtocol DEF Of
    <2> HIDE DEF passed
    <2>5. Of(i, keys)' = Of(i, keys) /\ Ledger(i, recorded)' = Ledger(i, recorded)
          /\ (clocked \cap part)' = clocked \cap part
      BY <2>3
    <2>6. Alone(i)!DiffPass(i, b)
      BY <2>1, <2>2, <2>4, <2>5, SameStream DEF Alone!DiffPass
    <2>7. QED
      BY <2>6, SameStream DEF Alone!StepOf
  <1>5. ASSUME NEW b \in Branches, ReleaseFiling(i, b) PROVE Alone(i)!StepOf(i)
    <2>1. Alone(i)!Takes(i, "release", b)
      BY <1>5, OwnTakes DEF ReleaseFiling
    <2> DEFINE signed == keys[<<i, b>>] \cup CONCURRENT_SIGNERS
               opened == Warden(state[<<i, b>>], "signoff_opened")
               after  == IF Turned(signed) THEN Human(opened, "human_released") ELSE opened
    <2>2. keys' = [keys EXCEPT ![<<i, b>>] = signed] /\ state' = [state EXCEPT ![<<i, b>>] = after]
      BY <1>5 DEF ReleaseFiling
    <2>3. after \in State /\ signed \in SUBSET REQUIRED_ROLES
      <3>1. opened \in State /\ Human(opened, "human_released") \in State
        BY NextStateTyped, KeysTyped DEF Warden, Human
      <3>2. signed \in SUBSET REQUIRED_ROLES
        BY KeysTyped DEF CONCURRENT_SIGNERS, REQUIRED_ROLES
      <3>3. QED
        BY <3>1, <3>2
    <2>4. Of(i, state)[<<i, b>>] = state[<<i, b>>] /\ Of(i, keys)[<<i, b>>] = keys[<<i, b>>]
      BY DEF Of
    <2>5. LET signedA == Of(i, keys)[<<i, b>>] \cup Alone(i)!CONCURRENT_SIGNERS
              openedA == Alone(i)!Warden(Of(i, state)[<<i, b>>], "signoff_opened")
              afterA  == IF Alone(i)!Turned(signedA) THEN Alone(i)!Human(openedA, "human_released")
                         ELSE openedA
          IN  signedA = signed /\ afterA = after
      <3>1. Of(i, keys)[<<i, b>>] \cup Alone(i)!CONCURRENT_SIGNERS = signed
        BY <2>4 DEF CONCURRENT_SIGNERS, Alone!CONCURRENT_SIGNERS
      <3>2. Alone(i)!Warden(Of(i, state)[<<i, b>>], "signoff_opened") = opened
        BY <2>4, SameProtocol
      <3>3. Alone(i)!Turned(signed) = Turned(signed)
        BY DEF Turned, Alone!Turned, REQUIRED_ROLES, Alone!REQUIRED_ROLES
      <3>4. Alone(i)!Human(opened, "human_released") = Human(opened, "human_released")
        BY SameProtocol
      <3> HIDE DEF signed, opened
      <3>5. QED
        BY <3>1, <3>2, <3>3, <3>4
    <2> HIDE DEF signed, after
    <2>6. Of(i, state') = [Of(i, state) EXCEPT ![<<i, b>>] = after]
          /\ Of(i, keys') = [Of(i, keys) EXCEPT ![<<i, b>>] = signed]
      BY <2>2, <2>3 DEF Of, Filings
    <2>7. Of(i, state)' = Of(i, state') /\ Of(i, keys)' = Of(i, keys')
      BY DEF Of
    <2>8. (clocked \cap part)' = clocked \cap part /\ Ledger(i, recorded)' = Ledger(i, recorded)
      BY <1>5 DEF ReleaseFiling
    <2>9. Alone(i)!ReleaseFiling(i, b)
      BY <2>1, <2>5, <2>6, <2>7, <2>8, SameStream DEF Alone!ReleaseFiling
    <2>10. QED
      BY <2>9, SameStream DEF Alone!StepOf
  <1>6. QED
    BY <1>1, <1>2, <1>3, <1>4, <1>5 DEF StepOf

\* The report cut down to one incident is that incident's report.
LEMMA OwnConclude ==
  ASSUME TypeOK, NEW i \in Incidents, Conclude
  PROVE  Alone(i)!Conclude
  <1> DEFINE seen(r) == IF ~r.done THEN NoReport
                        ELSE [done |-> TRUE, states |-> Of(i, r.states),
                              ledger |-> Ledger(i, r.ledger)]
  <1>1. ~report.done /\ report' = [done |-> TRUE, states |-> state, ledger |-> recorded]
    BY DEF Conclude
  <1>2. seen(report) = NoReport /\ ~NoReport.done
    BY <1>1 DEF NoReport
  <1>3. seen(report)' = [done |-> TRUE, states |-> Of(i, state), ledger |-> Ledger(i, recorded)]
    BY <1>1
  <1>4. /\ [j \in {i} |-> at[j]]' = [j \in {i} |-> at[j]] /\ kill' = kill
        /\ (clocked \cap ({i} \X Branches))' = clocked \cap ({i} \X Branches)
        /\ Of(i, state)' = Of(i, state) /\ Of(i, keys)' = Of(i, keys)
        /\ Ledger(i, recorded)' = Ledger(i, recorded)
    BY DEF Conclude
  <1> HIDE DEF seen
  <1>5. /\ ~seen(report).done
        /\ seen(report)' = [done |-> TRUE, states |-> Of(i, state), ledger |-> Ledger(i, recorded)]
        /\ UNCHANGED <<[j \in {i} |-> at[j]], kill, clocked \cap ({i} \X Branches),
                       Of(i, state), Ledger(i, recorded), Of(i, keys)>>
    BY <1>2, <1>3, <1>4
  <1>6. QED
    BY <1>5 DEF Alone!Conclude, seen

\* Every incident starts as it would start alone.
LEMMA OwnInit ==
  ASSUME IncidentsInit, NEW i \in Incidents
  PROVE  Alone(i)!IncidentsInit
  <1>1. /\ [j \in {i} |-> at[j]] = [j \in {i} |-> 0]
        /\ clocked \cap ({i} \X Branches) = {} /\ kill \in Kills /\ ~report.done
    BY DEF IncidentsInit, NoReport
  <1>2. Of(i, state) = [c \in {i} \X Branches |-> "initiated"]
    BY DEF IncidentsInit, Of, Filings
  <1>3. Of(i, keys) = [c \in {i} \X Branches |-> {}]
    BY DEF IncidentsInit, Of, Filings
  <1>4. Ledger(i, recorded) = [k \in (Branches \cup {"factrecord"}) \X {i} |-> 0]
    BY DEF IncidentsInit, Ledger, Keys
  <1>5. Alone(i)!Keys = (Branches \cup {"factrecord"}) \X {i}
    BY SameStream DEF Alone!Keys
  <1>6. QED
    BY <1>1, <1>2, <1>3, <1>4, <1>5, SameStream DEF Alone!IncidentsInit

\* A step of the Warden is a step of each incident, or nothing to it.
LEMMA ApartStep ==
  ASSUME TypeOK, [IncidentsNext]_incidentVars, NEW i \in Incidents
  PROVE  [Alone(i)!IncidentsNext]_(Alone(i)!incidentVars)
  <1>1. CASE UNCHANGED incidentVars
    BY <1>1 DEF incidentVars, Alone!incidentVars, Of, Ledger
  <1>2. CASE Conclude
    BY <1>2, OwnConclude DEF Alone!IncidentsNext
  <1>3. CASE IncidentsOver
    BY <1>3 DEF IncidentsOver, incidentVars, Alone!incidentVars, Of, Ledger
  <1>4. CASE StepOf(i)
    BY <1>4, OwnStep DEF Alone!IncidentsNext
  <1>5. ASSUME NEW j \in Incidents, j # i, StepOf(j) PROVE [Alone(i)!IncidentsNext]_(Alone(i)!incidentVars)
    BY <1>5, OthersStutter
  <1>6. QED
    BY <1>1, <1>2, <1>3, <1>4, <1>5 DEF IncidentsNext

\* For any incidents, any branches, any killed drafter and any order of the
\* steps: every incident runs as it would run alone (run_concurrent).
THEOREM RunsApart == IncidentsSpec => IncidentsAreApart
  <1>1. IncidentsInit => \A i \in Incidents : Alone(i)!IncidentsInit
    BY OwnInit
  <1>2. TypeOK /\ [IncidentsNext]_incidentVars => [\A i \in Incidents : [Alone(i)!IncidentsNext]_(Alone(i)!incidentVars)]_incidentVars
    BY ApartStep
  <1>3. QED
    BY <1>1, <1>2, TypeCorrect, PTL DEF IncidentsSpec, IncidentsAreApart

-----------------------------------------------------------------------------
(***************************************************************************)
(* The clients of one directory.                                           *)
(***************************************************************************)
-----------------------------------------------------------------------------
\* What a reader has folded so far, and what the script wrote: names with the logs
\* that were found under them.
Folds == UNION {[ns -> Modes] : ns \in SUBSET Names}

Stages == {"new", "run", "copying", "sign", "sealed", "answer", "rejected", "lost"}

ServiceTypeOK ==
  /\ renames \in BOOLEAN
  /\ disk \in [Names -> [log : LogFile, sig : SigFile]]
  /\ post \in [Posts -> [at : Stages, mode : PostModes, name : Nat]]
  /\ read \in [Threads -> [at : {"idle", "reading", "done", "raised"}, todo : SUBSET Names,
                           seen : Folds, since : SUBSET Names]]
  /\ document \in Folds
  /\ crashes \in Nat /\ edits \in Nat

\* A log that is not there is not signed, and a rename leaves none half-written.
Directory ==
  \A n \in Names : /\ disk[n].log = "none" => disk[n].sig = "none"
                   /\ renames => disk[n].log # "torn"

\* A client has its name to itself from the log on until it is answered.
Carries(p) == post[p].at \in {"copying", "sign", "sealed"}
HasItsName(p) ==
  /\ Writing(p) => post[p].mode \in Modes
  /\ Carries(p) => post[p].name \in Names
  /\ post[p].at = "copying" => /\ ~ renames /\ disk[post[p].name].log \in {"torn", "changed"}
                               /\ disk[post[p].name].sig = "none"
  /\ post[p].at = "sign" => disk[post[p].name].log = post[p].mode /\ disk[post[p].name].sig = "none"
  /\ post[p].at = "sealed" => Valid(post[p].name)
InHand ==
  /\ \A p \in Posts : HasItsName(p)
  /\ \A p, q \in Posts : Carries(p) /\ Carries(q) /\ p # q => post[p].name # post[q].name

\* A read finds what it was asked for, and nothing that is not sealed.
ReadsOn(t) ==
  /\ read[t].todo \subseteq Present
  /\ read[t].since \subseteq read[t].todo \cup DOMAIN read[t].seen
  /\ read[t].since \cup DOMAIN read[t].seen \subseteq Attested
Reading ==
  /\ \A t \in Threads : read[t].at = "reading" => ReadsOn(t)
  /\ \A p \in Posts : read[p].at = "reading" => post[p].at = "answer" /\ post[p].name \in read[p].since
  /\ RenameNeverFailsReads

SInv == ServiceTypeOK /\ Directory /\ InHand /\ Reading

-----------------------------------------------------------------------------
LEMMA MinIs ==
  ASSUME NEW S \in SUBSET Nat, S # {}
  PROVE  Min(S) \in S
<1> DEFINE R == { pair \in Nat \X Nat : pair[1] < pair[2] }
<1>1. PICK i \in S : \A j \in S : ~(<<j, i>> \in R)
  <2>1. IsWellFoundedOn(R, Nat) /\ S \subseteq Nat
    BY NatLessThanWellFounded, Zenon DEF OpToRel
  <2> HIDE DEF R
  <2> QED BY <2>1, WFMin
<1>2. \A j \in S : i <= j
  <2>1. ASSUME NEW j \in S PROVE i <= j
    <3>1. i \in Nat /\ j \in Nat /\ ~(j < i)
      BY <1>1
    <3> QED BY <3>1
  <2> QED BY <2>1
<1> QED BY <1>1, <1>2 DEF Min

\* What has no log is not of a captured run.
LEMMA ModesAreLogs ==
  /\ \A m \in Modes : m \in LogFile /\ m \in SigFile /\ m \notin {"none", "torn", "changed", "cut"}
  /\ {"none", "torn", "changed"} \subseteq LogFile /\ {"none", "cut"} \subseteq SigFile
BY ServiceAssumption DEF LogFile, SigFile

LEMMA AttestedIsPresent == Attested \subseteq Present
BY ModesAreLogs DEF Attested, Present, Valid

LEMMA NothingFolded == NoDocument \in Folds
<1>1. NoDocument \in [{} -> Modes]
  <2>1. NoDocument = [n \in {} |-> n]
    BY DEF NoDocument
  <2> QED BY <2>1
<1> QED BY <1>1 DEF Folds

\* A reader whose runs are still there reads on.
LEMMA ReadsOnWhenTheDiskGrows ==
  ASSUME NEW t \in Threads, ReadsOn(t), read'[t] = read[t], Present \subseteq Present', Attested \subseteq Attested'
  PROVE  ReadsOn(t)'
BY DEF ReadsOn

LEMMA InitEstablishes == Init => SInv
<1> SUFFICES ASSUME Init PROVE SInv
  OBVIOUS
<1>1. /\ renames \in BOOLEAN
      /\ disk = [n \in Names |-> IF n \in DOMAIN Captures
                                   THEN [log |-> Captures[n], sig |-> Captures[n]] ELSE Absent]
      /\ post \in [Posts -> [at : {"new"}, mode : PostModes, name : {0}]]
      /\ read = [t \in Threads |-> Idle] /\ document = NoDocument /\ crashes = 0 /\ edits = 0
  BY DEF Init
<1>2. ASSUME NEW n \in Names
      PROVE  /\ disk[n] \in [log : LogFile, sig : SigFile]
             /\ disk[n].log = "none" => disk[n].sig = "none"
             /\ disk[n].log # "torn"
  <2>1. CASE n \in DOMAIN Captures
    BY <1>1, <2>1, ModesAreLogs, ServiceAssumption
  <2>2. CASE n \notin DOMAIN Captures
    BY <1>1, <2>2, ModesAreLogs DEF Absent
  <2> QED BY <2>1, <2>2
<1>3. ASSUME NEW p \in Posts
      PROVE  post[p] \in [at : Stages, mode : PostModes, name : Nat] /\ post[p].at = "new"
  BY <1>1 DEF Stages
<1>4. ASSUME NEW t \in Threads
      PROVE  /\ read[t].at = "idle"
             /\ read[t] \in [at : {"idle", "reading", "done", "raised"}, todo : SUBSET Names,
                             seen : Folds, since : SUBSET Names]
  BY <1>1, NothingFolded DEF Idle, Over, NoDocument
<1>5. ServiceTypeOK
  <2>1. disk \in [Names -> [log : LogFile, sig : SigFile]]
    BY <1>1, <1>2
  <2>2. post \in [Posts -> [at : Stages, mode : PostModes, name : Nat]]
    BY <1>1, <1>3
  <2>3. read \in [Threads -> [at : {"idle", "reading", "done", "raised"}, todo : SUBSET Names,
                              seen : Folds, since : SUBSET Names]]
    BY <1>1, <1>4
  <2> QED BY <1>1, <2>1, <2>2, <2>3, NothingFolded DEF ServiceTypeOK
<1>6. Directory
  BY <1>2 DEF Directory
<1>7. InHand
  BY <1>3 DEF InHand, HasItsName, Carries, Writing
<1>8. Reading
  BY <1>4 DEF Reading, RenameNeverFailsReads, Threads
<1> QED BY <1>5, <1>6, <1>7, <1>8 DEF SInv

-----------------------------------------------------------------------------
LEMMA ReadFacts ==
  ASSUME ServiceTypeOK, NEW t \in Threads
  PROVE  /\ DOMAIN read = Threads
         /\ DOMAIN read[t] = {"at", "todo", "seen", "since"}
         /\ read[t].todo \in SUBSET Names /\ read[t].since \in SUBSET Names
         /\ read[t].seen \in Folds
BY DEF ServiceTypeOK

\* What the clients hold does not depend on who reads.
LEMMA ClientsLeftAlone ==
  ASSUME InHand, UNCHANGED <<disk, post, renames>>
  PROVE  InHand'
BY DEF InHand, HasItsName, Carries, Writing, Valid

LEMMA ReadRunKeeps == ASSUME SInv, NEW t \in Threads, ReadRun(t) PROVE SInv'
<1> DEFINE n == Min(read[t].todo)
<1>1. /\ read[t].at = "reading" /\ read[t].todo # {}
      /\ read' = IF disk[n].log \in {"torn", "none"}
                   THEN [read EXCEPT ![t] = Over("raised")]
                   ELSE [read EXCEPT
                     ![t].todo = @ \ {n},
                     ![t].seen = IF Valid(n) THEN [m \in DOMAIN @ \cup {n} |-> IF m = n THEN disk[n].log ELSE @[m]]
                                             ELSE @]
      /\ UNCHANGED <<facts, renames, disk, post, document, crashes, edits>>
  BY DEF ReadRun
<1>2. ServiceTypeOK /\ ReadsOn(t)
  BY <1>1 DEF SInv, Reading
<1>3. n \in read[t].todo /\ n \in Names /\ disk[n].log # "none"
  <2>1. read[t].todo \in SUBSET Nat
    BY <1>2, ReadFacts, ServiceAssumption
  <2>2. n \in read[t].todo
    BY <1>1, <2>1, MinIs
  <2> HIDE DEF n
  <2> QED BY <1>2, <2>2, ReadFacts DEF ReadsOn, Present
<1> HIDE DEF n
<1>4. \A u \in Threads : u # t => read'[u] = read[u]
  BY <1>1, <1>2, ReadFacts
<1>5. UNCHANGED <<Present, Attested>>
  BY <1>1 DEF Present, Attested, Valid
<1>6. CASE disk[n].log \in {"torn", "none"}
  <2>1. read' = [read EXCEPT ![t] = Over("raised")] /\ ~ renames
    BY <1>1, <1>3, <1>6 DEF SInv, Directory
  <2>2. read'[t] = Over("raised")
    BY <1>2, <2>1, ReadFacts
  <2>3. Over("raised") \in [at : {"idle", "reading", "done", "raised"}, todo : SUBSET Names,
                            seen : Folds, since : SUBSET Names] /\ Over("raised").at = "raised"
    BY NothingFolded DEF Over, NoDocument
  <2>4. ServiceTypeOK'
    BY <1>1, <1>2, <2>1, <2>3 DEF ServiceTypeOK
  <2>5. Reading'
    <3>1. ASSUME NEW u \in Threads, read'[u].at = "reading" PROVE u # t /\ read'[u] = read[u] /\ ReadsOn(u)'
      <4>1. u # t /\ read'[u] = read[u]
        BY <1>4, <2>2, <2>3, <3>1
      <4> QED BY <1>5, <3>1, <4>1, ReadsOnWhenTheDiskGrows DEF SInv, Reading
    <3> QED BY <1>1, <2>1, <3>1 DEF SInv, Reading, RenameNeverFailsReads, Threads
  <2> QED BY <1>1, <2>4, <2>5, ClientsLeftAlone DEF SInv, Directory
<1>7. CASE disk[n].log \notin {"torn", "none"}
  <2> DEFINE s == read[t].seen
             added == IF Valid(n) THEN [m \in DOMAIN s \cup {n} |-> IF m = n THEN disk[n].log ELSE s[m]] ELSE s
  <2>1. /\ read' = [read EXCEPT ![t] = read'[t]] /\ read'[t].at = "reading"
        /\ read'[t] = [at |-> "reading", todo |-> read[t].todo \ {n}, seen |-> added, since |-> read[t].since]
    BY <1>1, <1>2, <1>7, ReadFacts DEF ServiceTypeOK
  <2>2. /\ added \in Folds
        /\ DOMAIN added = IF Valid(n) THEN DOMAIN s \cup {n} ELSE DOMAIN s
    <3>1. PICK ns \in SUBSET Names : s \in [ns -> Modes]
      BY <1>2, ReadFacts DEF Folds
    <3>2. Valid(n) => added \in [ns \cup {n} -> Modes]
      BY <3>1 DEF Valid
    <3>3. ns \cup {n} \in SUBSET Names
      BY <1>3
    <3> QED BY <3>1, <3>2, <3>3 DEF Folds
  <2> HIDE DEF added, s
  <2>3. ServiceTypeOK'
    <3>1. read'[t] \in [at : {"idle", "reading", "done", "raised"}, todo : SUBSET Names,
                        seen : Folds, since : SUBSET Names]
      BY <1>2, <2>1, <2>2, ReadFacts
    <3> QED BY <1>1, <1>2, <2>1, <3>1 DEF ServiceTypeOK
  <2>4. ReadsOn(t)'
    <3>1. n \in Attested <=> Valid(n)
      BY <1>3 DEF Attested
    <3> QED BY <1>2, <1>5, <2>1, <2>2, <3>1 DEF ReadsOn, s
  <2>5. Reading'
    <3>1. ASSUME NEW u \in Threads, read'[u].at = "reading" PROVE ReadsOn(u)'
      <4>1. CASE u = t
        BY <2>4, <4>1
      <4>2. CASE u # t
        BY <1>4, <1>5, <3>1, <4>2, ReadsOnWhenTheDiskGrows DEF SInv, Reading
      <4> QED BY <4>1, <4>2
    <3>2. ASSUME NEW u \in Threads PROVE read'[u].at = read[u].at /\ read'[u].since = read[u].since
      <4>1. CASE u = t
        <5>1. read'[t].at = "reading" /\ read[t].at = "reading" /\ read'[t].since = read[t].since
          BY <1>1, <2>1
        <5> QED BY <4>1, <5>1
      <4>2. CASE u # t
        BY <1>4, <4>2
      <4> QED BY <4>1, <4>2
    <3> QED BY <1>1, <3>1, <3>2 DEF SInv, Reading, RenameNeverFailsReads, Threads
  <2> QED BY <1>1, <2>3, <2>5, ClientsLeftAlone DEF SInv, Directory
<1> QED BY <1>6, <1>7

-----------------------------------------------------------------------------
(***************************************************************************)
(* A client that moves on, and who else notices.                           *)
(***************************************************************************)
LEMMA OneClientMoves ==
  ASSUME InHand, NEW p \in Posts, HasItsName(p)', renames' = renames,
         \A q \in Posts \ {p} :
           /\ post'[q] = post[q]
           /\ Carries(q) => /\ disk'[post[q].name] = disk[post[q].name]
                            /\ Carries(p)' => post'[p].name # post[q].name
  PROVE  InHand'
<1>1. ASSUME NEW q \in Posts PROVE HasItsName(q)'
  <2>1. CASE q = p
    BY <2>1
  <2>2. CASE q # p
    BY <2>2 DEF InHand, HasItsName, Carries, Writing, Valid
  <2> QED BY <2>1, <2>2
<1>2. ASSUME NEW q \in Posts, NEW r \in Posts, Carries(q)', Carries(r)', q # r
      PROVE  post'[q].name # post'[r].name
  <2>1. \A u \in Posts \ {p} : Carries(u)' => Carries(u)
    BY DEF Carries
  <2>2. CASE q = p
    BY <1>2, <2>1, <2>2
  <2>3. CASE r = p
    BY <1>2, <2>1, <2>3
  <2>4. CASE q # p /\ r # p
    BY <1>2, <2>1, <2>4 DEF InHand
  <2> QED BY <2>2, <2>3, <2>4
<1> QED BY <1>1, <1>2 DEF InHand

LEMMA ReadersReadOn ==
  ASSUME Reading, NEW p \in Posts, post[p].at # "answer",
         \A q \in Posts \ {p} : post'[q] = post[q],
         UNCHANGED <<read, renames>>, Present \subseteq Present', Attested \subseteq Attested'
  PROVE  Reading'
<1>1. ASSUME NEW t \in Threads, read'[t].at = "reading" PROVE ReadsOn(t)'
  BY <1>1, ReadsOnWhenTheDiskGrows DEF Reading
<1>2. ASSUME NEW q \in Posts, read'[q].at = "reading"
      PROVE  post'[q].at = "answer" /\ post'[q].name \in read'[q].since
  <2>1. q # p /\ q \in Threads
    BY <1>2 DEF Reading, Threads
  <2> QED BY <1>2, <2>1 DEF Reading
<1> QED BY <1>1, <1>2 DEF Reading, RenameNeverFailsReads

LEMMA PostFacts ==
  ASSUME ServiceTypeOK, NEW p \in Posts
  PROVE  /\ DOMAIN post = Posts /\ DOMAIN post[p] = {"at", "mode", "name"}
         /\ post[p].mode \in PostModes /\ post[p].name \in Nat
BY DEF ServiceTypeOK

\* A step of a client, field by field.
LEMMA StepIs ==
  ASSUME ServiceTypeOK, NEW p \in Posts, NEW from, NEW to \in Stages, Step(p, from, to)
  PROVE  /\ post[p].at = from
         /\ post'[p].at = to /\ post'[p].mode = post[p].mode /\ post'[p].name = post[p].name
         /\ \A q \in Posts \ {p} : post'[q] = post[q]
         /\ post' \in [Posts -> [at : Stages, mode : PostModes, name : Nat]]
<1>1. post[p].at = from /\ post' = [post EXCEPT ![p].at = to]
  BY DEF Step
<1>2. post \in [Posts -> [at : Stages, mode : PostModes, name : Nat]]
  BY DEF ServiceTypeOK
<1> QED BY <1>1, <1>2

\* One file of a run is set.
LEMMA SetsIs ==
  ASSUME ServiceTypeOK, NEW n \in Names, NEW l \in LogFile, NEW s \in SigFile,
         \/ disk' = [disk EXCEPT ![n].log = l] /\ s = disk[n].sig
         \/ disk' = [disk EXCEPT ![n].sig = s] /\ l = disk[n].log
  PROVE  /\ disk'[n].log = l /\ disk'[n].sig = s
         /\ \A m \in Names \ {n} : disk'[m] = disk[m]
         /\ disk' \in [Names -> [log : LogFile, sig : SigFile]]
<1>1. disk \in [Names -> [log : LogFile, sig : SigFile]]
  BY DEF ServiceTypeOK
<1> QED BY <1>1

\* Where the run of one name changes and stays there.
LEMMA DiskGrows ==
  ASSUME NEW n \in Names, \A m \in Names \ {n} : disk'[m] = disk[m],
         ~ Valid(n) \/ Valid(n)', disk'[n].log # "none"
  PROVE  Present \subseteq Present' /\ Attested \subseteq Attested'
BY DEF Present, Attested, Valid

LEMMA DirectoryKept ==
  ASSUME Directory, NEW n \in Names, \A m \in Names \ {n} : disk'[m] = disk[m], renames' = renames,
         disk'[n].log # "none", renames => disk'[n].log # "torn"
  PROVE  Directory'
BY DEF Directory

LEMMA ValidateKeeps == ASSUME SInv, NEW p \in Posts, Validate(p) PROVE SInv'
<1> DEFINE to == IF post[p].mode \in Modes THEN "run" ELSE "rejected"
<1>1. Step(p, "new", to) /\ to \in Stages /\ UNCHANGED <<facts, renames, disk, read, document, crashes, edits>>
  BY DEF Validate, Stages
<1>2. to = "run" => post[p].mode \in Modes
  OBVIOUS
<1>3. to \in {"run", "rejected"}
  OBVIOUS
<1> HIDE DEF to
<1>4. /\ post[p].at = "new" /\ post'[p].at = to /\ post'[p].mode = post[p].mode
      /\ \A q \in Posts \ {p} : post'[q] = post[q]
      /\ post' \in [Posts -> [at : Stages, mode : PostModes, name : Nat]]
  BY <1>1, StepIs DEF SInv
<1>5. ServiceTypeOK' /\ Directory'
  BY <1>1, <1>4 DEF SInv, ServiceTypeOK, Directory
<1>6. InHand'
  <2>1. HasItsName(p)' /\ ~ Carries(p)'
    BY <1>2, <1>3, <1>4 DEF HasItsName, Carries, Writing
  <2> QED BY <1>1, <1>4, <2>1, OneClientMoves DEF SInv
<1>7. Reading'
  <2>1. Present \subseteq Present' /\ Attested \subseteq Attested'
    BY <1>1 DEF Present, Attested, Valid
  <2> QED BY <1>1, <1>4, <2>1, ReadersReadOn DEF SInv
<1> QED BY <1>5, <1>6, <1>7 DEF SInv

\* A log comes under a free name: nobody reads it, and nobody else writes it.
LEMMA MoveLogKeeps == ASSUME SInv, NEW p \in Posts, MoveLog(p) PROVE SInv'
<1>1. PICK n \in Free : MoveTo(p, n)
  BY DEF MoveLog
<1>2. PICK part \in IF renames THEN {post[p].mode} ELSE {"torn", "changed"} :
        disk' = [disk EXCEPT ![n].log = part]
  BY <1>1 DEF MoveTo
<1> DEFINE to == IF renames THEN "sign" ELSE "copying"
<1>3. /\ post[p].at = "run" /\ post' = [post EXCEPT ![p].name = n, ![p].at = to]
      /\ UNCHANGED <<facts, renames, read, document, crashes, edits>>
  BY <1>1 DEF MoveTo
<1>4. /\ to \in Stages /\ renames => to = "sign" /\ part = post[p].mode
      /\ ~ renames => to = "copying" /\ part \in {"torn", "changed"}
  BY <1>2 DEF Stages
<1> HIDE DEF to
<1>5. /\ n \in Names /\ n \in Nat /\ disk[n].log = "none" /\ disk[n].sig = "none"
      /\ \A q \in Posts : Carries(q) => post[q].name # n
  BY ServiceAssumption DEF Free, Present, SInv, Directory, Carries, Writing
<1>6. post[p].mode \in Modes /\ renames \in BOOLEAN
  BY <1>3 DEF SInv, InHand, HasItsName, Writing, ServiceTypeOK
<1>7. part \in LogFile /\ part # "none" /\ (renames => part # "torn")
  BY <1>4, <1>6, ModesAreLogs
<1>8. /\ disk'[n].log = part /\ disk'[n].sig = "none"
      /\ \A m \in Names \ {n} : disk'[m] = disk[m]
      /\ disk' \in [Names -> [log : LogFile, sig : SigFile]]
  BY <1>2, <1>5, <1>7, ModesAreLogs, SetsIs DEF SInv
<1>9. /\ post'[p].at = to /\ post'[p].mode = post[p].mode /\ post'[p].name = n
      /\ \A q \in Posts \ {p} : post'[q] = post[q]
      /\ post' \in [Posts -> [at : Stages, mode : PostModes, name : Nat]]
  <2>1. post \in [Posts -> [at : Stages, mode : PostModes, name : Nat]]
    BY DEF SInv, ServiceTypeOK
  <2> QED BY <1>3, <1>4, <1>5, <2>1
<1>10. ServiceTypeOK'
  BY <1>3, <1>8, <1>9 DEF SInv, ServiceTypeOK
<1>11. Directory'
  BY <1>3, <1>5, <1>7, <1>8, DirectoryKept DEF SInv
<1>12. InHand'
  <2>1. HasItsName(p)'
    BY <1>3, <1>4, <1>5, <1>6, <1>8, <1>9 DEF HasItsName, Carries, Writing
  <2>2. \A q \in Posts \ {p} : Carries(q) => disk'[post[q].name] = disk[post[q].name]
    BY <1>5, <1>8 DEF SInv, InHand, HasItsName
  <2> QED BY <1>3, <1>5, <1>9, <2>1, <2>2, OneClientMoves DEF SInv
<1>13. Reading'
  <2>1. ~ Valid(n)
    BY <1>5, ModesAreLogs DEF Valid
  <2>2. Present \subseteq Present' /\ Attested \subseteq Attested'
    BY <1>5, <1>7, <1>8, <2>1, DiskGrows
  <2> QED BY <1>3, <1>9, <2>2, ReadersReadOn DEF SInv
<1> QED BY <1>10, <1>11, <1>12, <1>13 DEF SInv

\* The client that writes a file of its run writes it alone.
LEMMA FileSetKeeps ==
  ASSUME SInv, NEW p \in Posts, NEW n, n = post[p].name, Carries(p), ~ Valid(n),
         NEW to \in {"sign", "sealed"}, NEW l \in Modes, NEW s \in SigFile, l = post[p].mode,
         to = "sign" => s = "none", to = "sealed" => s = l,
         Step(p, post[p].at, to),
         \/ disk' = [disk EXCEPT ![n].log = l] /\ s = disk[n].sig
         \/ disk' = [disk EXCEPT ![n].sig = s] /\ l = disk[n].log,
         UNCHANGED <<facts, renames, read, document, crashes, edits>>
  PROVE  SInv'
<1>1. n \in Names /\ to \in Stages /\ l \in LogFile /\ l \notin {"none", "torn"}
  BY ModesAreLogs DEF SInv, InHand, HasItsName, Stages
<1>2. /\ disk'[n].log = l /\ disk'[n].sig = s
      /\ \A m \in Names \ {n} : disk'[m] = disk[m]
      /\ disk' \in [Names -> [log : LogFile, sig : SigFile]]
  BY <1>1, SetsIs DEF SInv
<1>3. /\ post'[p].at = to /\ post'[p].mode = post[p].mode /\ post'[p].name = n
      /\ \A q \in Posts \ {p} : post'[q] = post[q]
      /\ post' \in [Posts -> [at : Stages, mode : PostModes, name : Nat]]
  BY <1>1, StepIs DEF SInv
<1>4. ServiceTypeOK'
  BY <1>2, <1>3 DEF SInv, ServiceTypeOK
<1>5. Directory'
  BY <1>1, <1>2, DirectoryKept DEF SInv
<1>6. InHand'
  <2>1. HasItsName(p)'
    BY <1>1, <1>2, <1>3 DEF HasItsName, Carries, Writing, Valid
  <2>2. \A q \in Posts \ {p} : Carries(q) => /\ disk'[post[q].name] = disk[post[q].name]
                                             /\ post[q].name # n
    BY <1>2 DEF SInv, InHand, HasItsName
  <2> QED BY <1>3, <2>1, <2>2, OneClientMoves DEF SInv
<1>7. Reading'
  <2>1. Present \subseteq Present' /\ Attested \subseteq Attested'
    BY <1>1, <1>2, DiskGrows
  <2>2. post[p].at # "answer"
    BY DEF Carries
  <2> QED BY <1>3, <2>1, <2>2, ReadersReadOn DEF SInv
<1> QED BY <1>4, <1>5, <1>6, <1>7 DEF SInv

LEMMA FinishCopyKeeps == ASSUME SInv, NEW p \in Posts, FinishCopy(p) PROVE SInv'
<1>1. /\ Step(p, "copying", "sign") /\ post[p].at = "copying"
      /\ disk' = [disk EXCEPT ![post[p].name].log = post[p].mode]
      /\ UNCHANGED <<facts, renames, read, document, crashes, edits>>
  BY DEF FinishCopy, Step, Sets
<1>2. Carries(p) /\ Writing(p)
  BY <1>1 DEF Carries, Writing
<1>3. post[p].mode \in Modes /\ disk[post[p].name].sig = "none" /\ disk[post[p].name].log \in {"torn", "changed"}
  BY <1>1, <1>2 DEF SInv, InHand, HasItsName
<1>4. ~ Valid(post[p].name) /\ "none" \in SigFile
  BY <1>3, ModesAreLogs DEF Valid
<1> QED BY <1>1, <1>2, <1>3, <1>4, FileSetKeeps

LEMMA WriteSidecarKeeps == ASSUME SInv, NEW p \in Posts, WriteSidecar(p) PROVE SInv'
<1>1. /\ Step(p, "sign", "sealed") /\ post[p].at = "sign"
      /\ disk' = [disk EXCEPT ![post[p].name].sig = post[p].mode]
      /\ UNCHANGED <<facts, renames, read, document, crashes, edits>>
  BY DEF WriteSidecar, Step, Sets
<1>2. Carries(p) /\ Writing(p)
  BY <1>1 DEF Carries, Writing
<1>3. post[p].mode \in Modes /\ disk[post[p].name].sig = "none" /\ disk[post[p].name].log = post[p].mode
  BY <1>1, <1>2 DEF SInv, InHand, HasItsName
<1>4. ~ Valid(post[p].name) /\ post[p].mode \in SigFile
  BY <1>3, ModesAreLogs DEF Valid
<1> QED BY <1>1, <1>2, <1>3, <1>4, FileSetKeeps

-----------------------------------------------------------------------------
(***************************************************************************)
(* Readers that begin and end.                                             *)
(***************************************************************************)
Reader == [at : {"idle", "reading", "done", "raised"}, todo : SUBSET Names,
           seen : Folds, since : SUBSET Names]

LEMMA StartsToRead ==
  ASSUME ServiceTypeOK, NEW t \in Threads, StartRead(t)
  PROVE  /\ read' \in [Threads -> Reader]
         /\ read'[t] = [at |-> "reading", todo |-> Present, seen |-> <<>>, since |-> Attested]
         /\ \A u \in Threads \ {t} : read'[u] = read[u]
         /\ UNCHANGED disk => ReadsOn(t)'
<1>1. read' = [read EXCEPT ![t] = [at |-> "reading", todo |-> Present, seen |-> <<>>, since |-> Attested]]
  BY DEF StartRead
<1>2. Present \in SUBSET Names /\ Attested \in SUBSET Names /\ <<>> \in Folds /\ DOMAIN <<>> = {}
  BY NothingFolded DEF Present, Attested, NoDocument
<1>3. read \in [Threads -> Reader]
  BY DEF ServiceTypeOK, Reader
<1>4. [at |-> "reading", todo |-> Present, seen |-> <<>>, since |-> Attested] \in Reader
  BY <1>2 DEF Reader
<1>5. read' \in [Threads -> Reader]
  BY <1>1, <1>3, <1>4
<1>6. /\ read'[t] = [at |-> "reading", todo |-> Present, seen |-> <<>>, since |-> Attested]
      /\ \A u \in Threads \ {t} : read'[u] = read[u]
  BY <1>1, <1>3
<1>7. ASSUME UNCHANGED disk PROVE ReadsOn(t)'
  <2>1. Present' = Present /\ Attested' = Attested
    BY <1>7 DEF Present, Attested, Valid
  <2> QED BY <1>2, <1>6, <2>1, AttestedIsPresent DEF ReadsOn
<1> QED BY <1>5, <1>6, <1>7

LEMMA ReadersAreTyped ==
  ASSUME ServiceTypeOK, NEW t \in Threads, NEW how \in {"idle", "done", "raised"},
         read' = [read EXCEPT ![t] = Over(how)]
  PROVE  /\ read' \in [Threads -> Reader]
         /\ read'[t].at = how
         /\ \A u \in Threads \ {t} : read'[u] = read[u]
<1>1. Over(how) \in Reader /\ Over(how).at = how
  BY NothingFolded DEF Over, NoDocument, Reader
<1>2. read \in [Threads -> Reader]
  BY DEF ServiceTypeOK, Reader
<1> QED BY <1>1, <1>2

\* A reader that stops reading leaves the others to read on.
LEMMA ReaderEnds ==
  ASSUME SInv, NEW t \in Threads, NEW how \in {"idle", "done"},
         read' = [read EXCEPT ![t] = Over(how)], document' \in Folds,
         UNCHANGED <<renames, disk, post, crashes, edits>>
  PROVE  SInv'
<1>1. /\ read' \in [Threads -> Reader] /\ read'[t].at = how
      /\ \A u \in Threads \ {t} : read'[u] = read[u]
  BY ReadersAreTyped DEF SInv
<1>2. ServiceTypeOK' /\ Directory' /\ InHand'
  BY <1>1, ClientsLeftAlone DEF SInv, ServiceTypeOK, Directory, Reader
<1>3. Reading'
  <2>1. ASSUME NEW u \in Threads, read'[u].at = "reading" PROVE ReadsOn(u)' /\ u # t /\ read'[u] = read[u]
    <3>1. u # t /\ read'[u] = read[u]
      BY <1>1, <2>1
    <3>2. Present' = Present /\ Attested' = Attested
      BY DEF Present, Attested, Valid
    <3> QED BY <2>1, <3>1, <3>2, ReadsOnWhenTheDiskGrows DEF SInv, Reading
  <2>2. ASSUME NEW u \in Threads PROVE read'[u].at = "raised" => read[u].at = "raised"
    BY <1>1
  <2>3. RenameNeverFailsReads'
    BY <2>2 DEF SInv, Reading, RenameNeverFailsReads
  <2> QED BY <2>1, <2>3 DEF SInv, Reading, Threads
<1> QED BY <1>2, <1>3 DEF SInv

LEMMA FinishReadKeeps == ASSUME SInv, NEW t \in Threads, FinishRead(t) PROVE SInv'
<1> DEFINE how == IF t \in Posts THEN "done" ELSE "idle"
<1>1. /\ read' = [read EXCEPT ![t] = Over(how)]
      /\ document' = IF t = Attestor /\ document = NoDocument THEN read[t].seen ELSE document
      /\ UNCHANGED <<facts, renames, disk, post, crashes, edits>> /\ how \in {"idle", "done"}
  BY DEF FinishRead, Idle
<1> HIDE DEF how
<1>2. document' \in Folds
  BY <1>1, ReadFacts DEF SInv, ServiceTypeOK
<1> QED BY <1>1, <1>2, ReaderEnds

LEMMA RetryKeeps == ASSUME SInv, Retry PROVE SInv'
<1>1. /\ read' = [read EXCEPT ![Attestor] = Over("idle")] /\ Attestor \in Threads
      /\ UNCHANGED <<facts, renames, disk, post, document, crashes, edits>>
  BY DEF Retry, Idle, Threads
<1>2. document' \in Folds
  BY <1>1 DEF SInv, ServiceTypeOK
<1> QED BY <1>1, <1>2, ReaderEnds

LEMMA AskKeeps == ASSUME SInv, Ask PROVE SInv'
<1>1. /\ StartRead(Attestor) /\ Attestor \in Threads /\ Attestor \notin Posts
      /\ UNCHANGED <<facts, renames, disk, post, document, crashes, edits>>
  BY ServiceAssumption DEF Ask, Threads
<1>2. /\ read' \in [Threads -> Reader] /\ read'[Attestor].at = "reading"
      /\ \A u \in Threads \ {Attestor} : read'[u] = read[u]
      /\ ReadsOn(Attestor)'
  BY <1>1, StartsToRead DEF SInv
<1>3. ServiceTypeOK' /\ Directory' /\ InHand'
  BY <1>1, <1>2, ClientsLeftAlone DEF SInv, ServiceTypeOK, Directory, Reader
<1>4. Reading'
  <2>1. Present' = Present /\ Attested' = Attested
    BY <1>1 DEF Present, Attested, Valid
  <2>2. ASSUME NEW u \in Threads, read'[u].at = "reading" PROVE ReadsOn(u)'
    <3>1. CASE u = Attestor
      BY <1>2, <3>1
    <3>2. CASE u # Attestor
      BY <1>2, <2>1, <2>2, <3>2, ReadsOnWhenTheDiskGrows DEF SInv, Reading
    <3> QED BY <3>1, <3>2
  <2>3. \A p \in Posts : read'[p] = read[p]
    BY <1>1, <1>2 DEF Threads
  <2>4. RenameNeverFailsReads'
    BY <1>1, <1>2 DEF SInv, Reading, RenameNeverFailsReads
  <2> QED BY <1>1, <2>2, <2>3, <2>4 DEF SInv, Reading
<1> QED BY <1>3, <1>4 DEF SInv

\* The queue is read for the answer when the run of the post is sealed.
LEMMA ReadQueueKeeps == ASSUME SInv, NEW p \in Posts, ReadQueue(p) PROVE SInv'
<1>1. /\ Step(p, "sealed", "answer") /\ StartRead(p) /\ p \in Threads
      /\ UNCHANGED <<facts, renames, disk, document, crashes, edits>>
  BY DEF ReadQueue, Threads
<1>2. /\ post[p].at = "sealed" /\ post'[p].at = "answer"
      /\ post'[p].mode = post[p].mode /\ post'[p].name = post[p].name
      /\ \A q \in Posts \ {p} : post'[q] = post[q]
      /\ post' \in [Posts -> [at : Stages, mode : PostModes, name : Nat]]
  BY <1>1, StepIs DEF SInv, Stages
<1>3. /\ read' \in [Threads -> Reader]
      /\ read'[p].at = "reading" /\ read'[p].since = Attested
      /\ \A u \in Threads \ {p} : read'[u] = read[u]
      /\ ReadsOn(p)'
  BY <1>1, StartsToRead DEF SInv
<1>4. post[p].name \in Attested
  BY <1>2 DEF SInv, InHand, HasItsName, Carries, Attested
<1>5. ServiceTypeOK' /\ Directory'
  BY <1>1, <1>2, <1>3 DEF SInv, ServiceTypeOK, Directory, Reader
<1>6. InHand'
  <2>1. HasItsName(p)' /\ ~ Carries(p)'
    BY <1>2 DEF HasItsName, Carries, Writing
  <2> QED BY <1>1, <1>2, <2>1, OneClientMoves DEF SInv
<1>7. Reading'
  <2>1. Present' = Present /\ Attested' = Attested
    BY <1>1 DEF Present, Attested, Valid
  <2>2. ASSUME NEW u \in Threads, read'[u].at = "reading" PROVE ReadsOn(u)'
    <3>1. CASE u = p
      BY <1>3, <3>1
    <3>2. CASE u # p
      BY <1>3, <2>1, <2>2, <3>2, ReadsOnWhenTheDiskGrows DEF SInv, Reading
    <3> QED BY <3>1, <3>2
  <2>3. ASSUME NEW q \in Posts, read'[q].at = "reading"
        PROVE  post'[q].at = "answer" /\ post'[q].name \in read'[q].since
    <3>1. CASE q = p
      BY <1>2, <1>3, <1>4, <3>1
    <3>2. CASE q # p
      BY <1>2, <1>3, <2>3, <3>2 DEF SInv, Reading, Threads
    <3> QED BY <3>1, <3>2
  <2>4. RenameNeverFailsReads'
    BY <1>1, <1>3 DEF SInv, Reading, RenameNeverFailsReads
  <2> QED BY <2>2, <2>3, <2>4 DEF Reading
<1> QED BY <1>5, <1>6, <1>7 DEF SInv

-----------------------------------------------------------------------------
(***************************************************************************)
(* What happens to the process and to the files.                           *)
(***************************************************************************)
\* A signature that was cut is that of a log that no reader counted yet.
LEMMA CrashKeeps == ASSUME SInv, Crash PROVE SInv'
<1>1. /\ crashes' = crashes + 1
      /\ post' = [p \in Posts |-> IF Writing(p) \/ read[p].at = "reading"
                                    THEN [post[p] EXCEPT !.at = "lost"] ELSE post[p]]
      /\ read' = [t \in Threads |->
                    IF t \in Posts /\ read[t].at = "reading" THEN Idle ELSE read[t]]
      /\ UNCHANGED <<facts, renames, document, edits>>
  BY DEF Crash
<1>2. post' \in [Posts -> [at : Stages, mode : PostModes, name : Nat]]
  BY <1>1 DEF SInv, ServiceTypeOK, Stages
<1>3. read' \in [Threads -> Reader]
  BY <1>1, NothingFolded DEF SInv, ServiceTypeOK, Reader, Idle, Over, NoDocument
<1>4. \A p \in Posts : ~ Writing(p)'
  BY <1>1 DEF Writing, SInv, ServiceTypeOK
<1>5. /\ disk' \in [Names -> [log : LogFile, sig : SigFile]]
      /\ \A n \in Names : /\ disk'[n].log = disk[n].log
                          /\ disk'[n].log = "none" => disk'[n].sig = "none"
                          /\ Valid(n) => Valid(n)'
  <2>1. CASE disk' = disk
    BY <2>1 DEF SInv, ServiceTypeOK, Directory, Valid
  <2>2. CASE \E p \in Posts : post[p].at = "sign" /\ Sets(p, "sig", "cut")
    <3>1. PICK p \in Posts : post[p].at = "sign" /\ disk' = [disk EXCEPT ![post[p].name].sig = "cut"]
      BY <2>2 DEF Sets
    <3> DEFINE n == post[p].name
    <3>2. Carries(p) /\ Writing(p)
      BY <3>1 DEF Carries, Writing
    <3>3. n \in Names /\ disk[n].log \in Modes /\ disk[n].sig = "none"
      BY <3>1, <3>2 DEF SInv, InHand, HasItsName
    <3>4. disk[n].log # "none" /\ ~ Valid(n) /\ disk[n].log \in LogFile /\ "cut" \in SigFile
      BY <3>3, ModesAreLogs DEF Valid
    <3> HIDE DEF n
    <3>5. disk' = [disk EXCEPT ![n].sig = "cut"]
      BY <3>1 DEF n
    <3>6. /\ disk'[n].log = disk[n].log
          /\ \A m \in Names \ {n} : disk'[m] = disk[m]
          /\ disk' \in [Names -> [log : LogFile, sig : SigFile]]
      BY <3>3, <3>4, <3>5, SetsIs DEF SInv
    <3> QED BY <3>3, <3>4, <3>6 DEF SInv, Directory, Valid
  <2> QED BY <2>1, <2>2 DEF Crash
<1>6. ServiceTypeOK' /\ Directory'
  <2>1. crashes' \in Nat
    BY <1>1 DEF SInv, ServiceTypeOK
  <2> QED BY <1>1, <1>2, <1>3, <1>5, <2>1 DEF SInv, ServiceTypeOK, Directory, Reader
<1>7. InHand'
  <2>1. \A p \in Posts : ~ Carries(p)' /\ HasItsName(p)'
    BY <1>4 DEF Writing, Carries, HasItsName
  <2> QED BY <2>1 DEF InHand
<1>8. Reading'
  <2>1. Present \subseteq Present' /\ Attested \subseteq Attested'
    BY <1>5 DEF Present, Attested
  <2>2. \A t \in Threads : read'[t].at # "idle" => read'[t] = read[t]
    BY <1>1 DEF Idle, Over
  <2>3. \A p \in Posts : read'[p].at # "reading"
    BY <1>1 DEF Idle, Over, Threads
  <2>4. ASSUME NEW t \in Threads, read'[t].at = "reading" PROVE ReadsOn(t)'
    BY <2>1, <2>2, <2>3, <2>4, ReadsOnWhenTheDiskGrows DEF SInv, Reading
  <2>5. RenameNeverFailsReads'
    BY <1>1, <2>2 DEF SInv, Reading, RenameNeverFailsReads
  <2> QED BY <2>3, <2>4, <2>5 DEF Reading
<1> QED BY <1>6, <1>7, <1>8 DEF SInv

\* Files are changed when nobody writes and nobody reads.
LEMMA EditKeeps == ASSUME SInv, Edit PROVE SInv'
<1>1. /\ Quiet /\ edits' = edits + 1
      /\ UNCHANGED <<facts, renames, post, read, document, crashes>>
  BY DEF Edit
<1>2. PICK n \in Attested :
        \/ disk' = [disk EXCEPT ![n] = Absent]
        \/ \E m \in Names \ {n} : disk' = [disk EXCEPT ![n] = disk[m], ![m] = disk[n]]
        \/ disk' = [disk EXCEPT ![n].log = "changed"]
  BY DEF Edit
<1>3. n \in Names /\ disk[n].log # "none" /\ disk \in [Names -> [log : LogFile, sig : SigFile]]
  BY AttestedIsPresent DEF Attested, Present, SInv, ServiceTypeOK
<1>4. /\ disk' \in [Names -> [log : LogFile, sig : SigFile]]
      /\ Directory'
  <2>1. CASE disk' = [disk EXCEPT ![n] = Absent]
    <3>1. disk'[n] = Absent /\ \A m \in Names \ {n} : disk'[m] = disk[m]
      BY <1>3, <2>1
    <3>2. Absent \in [log : LogFile, sig : SigFile] /\ Absent.log = "none" /\ Absent.sig = "none"
      BY ModesAreLogs DEF Absent
    <3>3. disk' \in [Names -> [log : LogFile, sig : SigFile]]
      BY <1>3, <2>1, <3>2
    <3> QED BY <1>1, <3>1, <3>2, <3>3 DEF SInv, Directory
  <2>2. ASSUME NEW m \in Names \ {n}, disk' = [disk EXCEPT ![n] = disk[m], ![m] = disk[n]]
        PROVE  disk' \in [Names -> [log : LogFile, sig : SigFile]] /\ Directory'
    <3>1. disk' \in [Names -> [log : LogFile, sig : SigFile]]
      BY <1>3, <2>2
    <3>2. \A k \in Names : \E j \in Names : disk'[k] = disk[j]
      BY <1>3, <2>2
    <3> QED BY <1>1, <3>1, <3>2 DEF SInv, Directory
  <2>3. CASE disk' = [disk EXCEPT ![n].log = "changed"]
    <3>1. /\ disk'[n].log = "changed" /\ \A m \in Names \ {n} : disk'[m] = disk[m]
          /\ disk' \in [Names -> [log : LogFile, sig : SigFile]]
      BY <1>3, <2>3, ModesAreLogs
    <3> QED BY <1>1, <1>3, <3>1, DirectoryKept DEF SInv
  <2> QED BY <1>2, <2>1, <2>2, <2>3
<1>5. ServiceTypeOK'
  <2>1. edits' \in Nat
    BY <1>1 DEF SInv, ServiceTypeOK
  <2> QED BY <1>1, <1>4, <2>1 DEF SInv, ServiceTypeOK
<1>6. InHand'
  <2>1. \A p \in Posts : ~ Carries(p)' /\ HasItsName(p)'
    BY <1>1 DEF Quiet, Writing, Carries, HasItsName
  <2> QED BY <2>1 DEF InHand
<1>7. Reading'
  <2>1. \A t \in Threads : read'[t].at # "reading"
    BY <1>1 DEF Quiet
  <2> QED BY <1>1, <2>1 DEF SInv, Reading, RenameNeverFailsReads, Threads
<1> QED BY <1>4, <1>5, <1>6, <1>7 DEF SInv

-----------------------------------------------------------------------------
LEMMA NextKeeps == ASSUME SInv, [Next]_vars PROVE SInv'
<1>1. CASE Next
  <2>1. ASSUME NEW p \in Posts, Post(p) PROVE SInv'
    BY <2>1, ValidateKeeps, MoveLogKeeps, FinishCopyKeeps, WriteSidecarKeeps, ReadQueueKeeps DEF Post
  <2>2. ASSUME NEW t \in Threads, Read(t) PROVE SInv'
    BY <2>2, ReadRunKeeps, FinishReadKeeps DEF Read
  <2> QED BY <1>1, <2>1, <2>2, AskKeeps, RetryKeeps, CrashKeeps, EditKeeps DEF Next
<1>2. CASE UNCHANGED vars
  BY <1>2 DEF vars, SInv, ServiceTypeOK, Directory, InHand, HasItsName, Carries, Writing, Valid,
              Reading, ReadsOn, Present, Attested, RenameNeverFailsReads
<1> QED BY <1>1, <1>2

\* The state of the service at any time, for any number of clients, runs, stops
\* and changes: a client has its name to itself from its log to its seal, and a
\* read holds what was sealed when it was asked for and nothing unsealed.
THEOREM ServiceInvariant == Spec => []SInv
<1>1. SInv /\ [Next]_vars => SInv'
  BY NextKeeps
<1> QED BY <1>1, InitEstablishes, PTL DEF Spec

-----------------------------------------------------------------------------
(***************************************************************************)
(* What a reader gets.                                                     *)
(***************************************************************************)
AnswerNow ==
  \A t \in Threads : Answers(t) =>
     /\ read[t].since \subseteq DOMAIN read[t].seen
     /\ DOMAIN read[t].seen \subseteq Attested
     /\ t \in Posts => post[t].name \in DOMAIN read[t].seen

LEMMA AnswersLieBetween == ASSUME SInv PROVE AnswerNow
<1>1. ASSUME NEW t \in Threads, read[t].at = "reading", read[t].todo = {}
      PROVE  /\ read[t].since \subseteq DOMAIN read[t].seen
             /\ DOMAIN read[t].seen \subseteq Attested
             /\ t \in Posts => post[t].name \in DOMAIN read[t].seen
  BY <1>1 DEF SInv, Reading, ReadsOn
<1> QED BY <1>1 DEF AnswerNow, Answers

\* Reads are sound: where logs are renamed into the directory none fails, and an
\* answer shows every run sealed when it was asked for, none unsealed when it is
\* given, and the client's own (corpus.py, app.post_incident).
THEOREM ReadsAreAlwaysSound == Spec => ReadsAreSound
<1>1. SInv => RenameNeverFailsReads
  BY DEF SInv, Reading
<1>2. SInv /\ [Next]_vars => [AnswerNow]_read
  BY AnswersLieBetween
<1>3. Spec => []RenameNeverFailsReads
  BY <1>1, ServiceInvariant, PTL
<1>4. Spec => [][AnswerNow]_read
  BY <1>2, ServiceInvariant, PTL DEF Spec
<1> QED BY <1>3, <1>4 DEF ReadsAreSound, AnswerIsBetween, AnswerNow

-----------------------------------------------------------------------------
(***************************************************************************)
(* The attestation.  The head of a log is its place in one sequence of the *)
(* modes: logs of two modes have two heads.                                *)
(***************************************************************************)
HeadsDiffer == \A a, b \in Modes : facts[a].head = facts[b].head => a = b

LEMMA SequenceOfModes ==
  /\ SetToSeq(Modes) \in [1..Cardinality(Modes) -> Modes]
  /\ \A m \in Modes : \E k \in 1..Cardinality(Modes) : SetToSeq(Modes)[k] = m
<1> DEFINE n == Cardinality(Modes)
           q == SetToSeq(Modes)
<1>1. n \in Nat /\ \E f \in [1..n -> Modes] : IsInjective(f)
  <2>1. n \in Nat /\ ExistsBijection(1..n, Modes)
    BY ServiceAssumption, FS_CardinalityType
  <2>2. PICK f \in Bijection(1..n, Modes) : TRUE
    BY <2>1 DEF ExistsBijection
  <2>3. f \in [1..n -> Modes] /\ IsInjective(f)
    BY <2>2 DEF Bijection, Injection, IsInjective
  <2> QED BY <2>1, <2>3
<1>2. q \in [1..n -> Modes] /\ IsInjective(q)
  <2>1. q = CHOOSE f \in [1..n -> Modes] : IsInjective(f)
    BY DEF SetToSeq
  <2> HIDE DEF n, q
  <2> QED BY <1>1, <2>1
<1>3. q \in Surjection(1..n, Modes)
  <2>1. IsFiniteSet(1..n) /\ Cardinality(1..n) = n /\ Cardinality(Modes) = n
    BY <1>1, FS_Interval
  <2>2. q \in Injection(1..n, Modes)
    BY <1>2 DEF Injection
  <2> HIDE DEF n, q
  <2> QED BY <2>1, <2>2, ServiceAssumption, FS_Injection
<1>4. Surjection(1..n, Modes) = {f \in [1..n -> Modes] : \A m \in Modes : \E k \in 1..n : f[k] = m}
  BY DEF Surjection
<1> HIDE DEF n, q
<1>5. q \in [1..n -> Modes] /\ \A m \in Modes : \E k \in 1..n : q[k] = m
  BY <1>3, <1>4
<1> QED BY <1>5 DEF n, q

LEMMA InitHeads == Init => HeadsDiffer
<1> DEFINE D == 1..Cardinality(Modes)
           q == SetToSeq(Modes)
           Place(m) == CHOOSE k \in D : q[k] = m
<1> SUFFICES ASSUME Init, NEW a \in Modes, NEW b \in Modes, facts[a].head = facts[b].head
             PROVE  a = b
  BY DEF HeadsDiffer
<1>1. facts = [m \in Modes |-> RunFacts(Recorded(m), Place(m))]
  BY DEF Init
<1>2. \A m \in Modes : facts[m].head = Place(m)
  BY <1>1 DEF RunFacts
<1>3. \A m \in Modes : \E k \in D : q[k] = m
  BY SequenceOfModes
<1> HIDE DEF D, q
<1>4. \A m \in Modes : q[Place(m)] = m
  BY <1>3
<1> HIDE DEF Place
<1> QED BY <1>2, <1>4

LEMMA HeadsKept == HeadsDiffer /\ [Next]_vars => HeadsDiffer'
<1>1. [Next]_vars => facts' = facts
  BY DEF Next, vars, Post, Read, Validate, MoveLog, MoveTo, FinishCopy, WriteSidecar, ReadQueue,
         ReadRun, FinishRead, Ask, Retry, Crash, Edit
<1> QED BY <1>1 DEF HeadsDiffer

\* What verifies is what was attested, and what was attested verifies.
LEMMA VerifiesWhatItHolds ==
  ASSUME HeadsDiffer, NEW old \in Folds, NEW new \in Folds
  PROVE  Verifies(Document(Fleet(old)), Fleet(new)) <=> old = new
<1>1. ASSUME old = new PROVE Verifies(Document(Fleet(old)), Fleet(new))
  <2>1. Document(Fleet(old)).manifest = Manifest(Fleet(new))
        /\ Document(Fleet(old)).signature = PortfolioPayload(Manifest(Fleet(new)))
    BY <1>1 DEF Document
  <2> QED BY <2>1 DEF Verifies
<1>2. ASSUME Verifies(Document(Fleet(old)), Fleet(new)) PROVE old = new
  <2>1. Document(Fleet(old)).manifest = Manifest(Fleet(old))
    BY DEF Document
  <2>2. /\ DOMAIN Manifest(Fleet(old)).runs = DOMAIN Manifest(Fleet(new)).runs
        /\ \A n \in DOMAIN Manifest(Fleet(old)).runs :
             Manifest(Fleet(old)).runs[n] = Manifest(Fleet(new)).runs[n]
    BY <1>2, <2>1 DEF Verifies
  <2>3. ASSUME NEW fold \in Folds
        PROVE  /\ DOMAIN Manifest(Fleet(fold)).runs = DOMAIN fold
               /\ \A n \in DOMAIN fold : Manifest(Fleet(fold)).runs[n] = facts[fold[n]].head
               /\ fold = [n \in DOMAIN fold |-> fold[n]]
               /\ \A n \in DOMAIN fold : fold[n] \in Modes
    <3>1. PICK ns \in SUBSET Names : fold \in [ns -> Modes]
      BY DEF Folds
    <3>2. Manifest(Fleet(fold)).runs = [n \in DOMAIN Fleet(fold) |-> Fleet(fold)[n].head]
      BY DEF Manifest
    <3>3. Fleet(fold) = [n \in DOMAIN fold |-> facts[fold[n]]]
      BY DEF Fleet
    <3> QED BY <3>1, <3>2, <3>3
  <2>4. DOMAIN old = DOMAIN new
    BY <2>2, <2>3
  <2>5. \A n \in DOMAIN old : old[n] = new[n]
    <3>1. ASSUME NEW n \in DOMAIN old PROVE old[n] = new[n]
      <4>1. old[n] \in Modes /\ new[n] \in Modes
        BY <2>3, <2>4
      <4>2. facts[old[n]].head = facts[new[n]].head
        BY <2>2, <2>3, <2>4
      <4> QED BY <4>1, <4>2 DEF HeadsDiffer
    <3> QED BY <3>1
  <2>6. old = [n \in DOMAIN old |-> old[n]] /\ new = [n \in DOMAIN new |-> new[n]]
    BY <2>3
  <2> QED BY <2>4, <2>5, <2>6
<1> QED BY <1>1, <1>2

VerifiesNow ==
  Answers(Attestor) /\ document # NoDocument =>
    (Verifies(Document(Fleet(document)), Fleet(read[Attestor].seen))
       <=> document = read[Attestor].seen)

\* The attestation that the script wrote verifies against the directory exactly
\* if the runs it read then are the runs it reads now, each under its name,
\* whatever was posted, stopped or changed in between (attest_portfolio.verify).
THEOREM AttestationHoldsIffUnchanged == Spec => VerifiesIffUnchanged
<1>1. SInv /\ HeadsDiffer /\ [Next]_vars => [VerifiesNow]_read
  <2> SUFFICES ASSUME SInv, HeadsDiffer PROVE VerifiesNow
    OBVIOUS
  <2>1. Attestor \in Threads
    BY DEF Threads
  <2>2. document \in Folds /\ read[Attestor].seen \in Folds
    BY <2>1, ReadFacts DEF SInv, ServiceTypeOK
  <2> QED BY <2>2, VerifiesWhatItHolds DEF VerifiesNow
<1>2. Spec => []HeadsDiffer
  BY InitHeads, HeadsKept, PTL DEF Spec
<1>3. Spec => [][VerifiesNow]_read
  BY <1>1, <1>2, ServiceInvariant, PTL DEF Spec
<1> QED BY <1>3 DEF VerifiesIffUnchanged, VerifiesNow

-----------------------------------------------------------------------------
(***************************************************************************)
(* The attestations of the entities.                                       *)
(***************************************************************************)
Own(fleet, e) == {n \in DOMAIN fleet : ResolveEntity(n, EntityMap) = e}

LEMMA SubManifestIs ==
  ASSUME NEW fleet, NEW e
  PROVE  /\ SubManifest(fleet, EntityMap, e).entity = e
         /\ DOMAIN SubManifest(fleet, EntityMap, e).runs = Own(fleet, e)
<1>1. DOMAIN EntityRuns(fleet, EntityMap, e) = Own(fleet, e)
  BY DEF EntityRuns, Restrictions, Own
<1> QED BY <1>1 DEF SubManifest

\* An entity's attestation is computed from its own runs.
LEMMA OwnRunsSuffice ==
  ASSUME NEW fleet, NEW e
  PROVE  SubManifest(Restrictions(fleet, Own(fleet, e)), EntityMap, e) = SubManifest(fleet, EntityMap, e)
<1>1. DOMAIN Restrictions(fleet, Own(fleet, e)) = Own(fleet, e)
  BY DEF Restrictions
<1>2. {n \in DOMAIN Restrictions(fleet, Own(fleet, e)) : ResolveEntity(n, EntityMap) = e} = Own(fleet, e)
  BY <1>1 DEF Own
<1>3. Restrictions(Restrictions(fleet, Own(fleet, e)), Own(fleet, e)) = Restrictions(fleet, Own(fleet, e))
  BY DEF Restrictions
<1>4. EntityRuns(fleet, EntityMap, e) = Restrictions(fleet, Own(fleet, e))
  BY DEF EntityRuns, Own
<1>5. EntityRuns(Restrictions(fleet, Own(fleet, e)), EntityMap, e) = EntityRuns(fleet, EntityMap, e)
  BY <1>2, <1>3, <1>4 DEF EntityRuns
<1> QED BY <1>5 DEF SubManifest

ScopesNow ==
  Answers(Attestor) =>
    LET fleet == Fleet(read[Attestor].seen)
        subs == {SubManifest(fleet, EntityMap, e) : e \in Entities}
    IN /\ \A n \in DOMAIN fleet : \E s \in subs : {t \in subs : n \in DOMAIN t.runs} = {s}
       /\ \A s \in subs :
            s = SubManifest(Restrictions(fleet, DOMAIN s.runs), EntityMap, s.entity)

LEMMA ScopesPartition == ScopesNow
<1> DEFINE fleet == Fleet(read[Attestor].seen)
           Sub(e) == SubManifest(fleet, EntityMap, e)
           subs == {Sub(e) : e \in Entities}
<1>1. \A e \in Entities : Sub(e).entity = e /\ DOMAIN Sub(e).runs = Own(fleet, e)
  BY SubManifestIs
<1>2. ASSUME NEW n \in DOMAIN fleet
      PROVE  \E s \in subs : {t \in subs : n \in DOMAIN t.runs} = {s}
  <2> DEFINE owner == ResolveEntity(n, EntityMap)
  <2>1. owner \in Entities
    BY DEF ResolveEntity, Entities
  <2>2. \A e \in Entities : n \in Own(fleet, e) <=> e = owner
    BY DEF Own
  <2> HIDE DEF owner, fleet, Sub
  <2>3. \A t \in subs : n \in DOMAIN t.runs <=> t = Sub(owner)
    BY <1>1, <2>1, <2>2
  <2>4. Sub(owner) \in subs
    BY <2>1
  <2> HIDE DEF subs
  <2>5. {t \in subs : n \in DOMAIN t.runs} = {Sub(owner)}
    BY <2>3, <2>4
  <2> QED BY <2>4, <2>5
<1>3. ASSUME NEW s \in subs
      PROVE  s = SubManifest(Restrictions(fleet, DOMAIN s.runs), EntityMap, s.entity)
  <2>1. PICK e \in Entities : s = Sub(e)
    OBVIOUS
  <2>2. s.entity = e /\ DOMAIN s.runs = Own(fleet, e)
    BY <1>1, <2>1
  <2>3. SubManifest(Restrictions(fleet, Own(fleet, e)), EntityMap, e) = Sub(e)
    BY OwnRunsSuffice
  <2> QED BY <2>1, <2>2, <2>3
<1> QED BY <1>2, <1>3, Zenon DEF ScopesNow

\* Each attested run is in the attestation of exactly one entity, and that one
\* does not depend on the runs of the others, for any map of names to entities
\* (portfolio.segment_by_entity, scoped_attestation).
THEOREM ScopesStayApart == Spec => ScopesAreApart
<1>1. [Next]_vars =>
        [Answers(Attestor) =>
           LET fleet == Fleet(read[Attestor].seen)
               subs == {SubManifest(fleet, EntityMap, e) : e \in Entities}
           IN /\ \A n \in DOMAIN fleet : \E s \in subs : {t \in subs : n \in DOMAIN t.runs} = {s}
              /\ \A s \in subs :
                   s = SubManifest(Restrictions(fleet, DOMAIN s.runs), EntityMap, s.entity)]_read
  BY ScopesPartition DEF ScopesNow
<1> QED BY <1>1, PTL DEF Spec, ScopesAreApart
=============================================================================
