-------------------------- MODULE FilingFloorProofs --------------------------
(***************************************************************************)
(* For every set of command lines: where the driver of the floor stands    *)
(* says what every branch has been through, and what was filed agrees.     *)
(***************************************************************************)
EXTENDS FilingFloor, FiniteSetTheorems, SequenceTheorems, TLAPS
-----------------------------------------------------------------------------
(***************************************************************************)
(* The order of the phases.                                                *)
(***************************************************************************)
PhaseNames ==
  {"open", "materiality", "reportability", "drafting", "recruit_uk",
   "recruit_nydfs", "cross_border", "diff", "release", "amend", "propose",
   "concur", "amend_submit", "amend_diff", "amend_release", "affected_party",
   "deficiency", "cure", "lift_hold", "submission", "seal"}

LEMMA PhasesAre ==
  /\ DOMAIN Phases = 1..21
  /\ Phases[1] = "open" /\ Phases[2] = "materiality"
  /\ Phases[3] = "reportability" /\ Phases[4] = "drafting"
  /\ Phases[5] = "recruit_uk" /\ Phases[6] = "recruit_nydfs"
  /\ Phases[7] = "cross_border" /\ Phases[8] = "diff" /\ Phases[9] = "release"
  /\ Phases[10] = "amend" /\ Phases[11] = "propose" /\ Phases[12] = "concur"
  /\ Phases[13] = "amend_submit" /\ Phases[14] = "amend_diff"
  /\ Phases[15] = "amend_release" /\ Phases[16] = "affected_party"
  /\ Phases[17] = "deficiency" /\ Phases[18] = "cure"
  /\ Phases[19] = "lift_hold" /\ Phases[20] = "submission"
  /\ Phases[21] = "seal"
  BY DEF Phases

LEMMA Positions ==
  ASSUME NEW i \in 1..21
  PROVE  \/ i = 1 \/ i = 2 \/ i = 3 \/ i = 4 \/ i = 5 \/ i = 6 \/ i = 7
         \/ i = 8 \/ i = 9 \/ i = 10 \/ i = 11 \/ i = 12 \/ i = 13 \/ i = 14
         \/ i = 15 \/ i = 16 \/ i = 17 \/ i = 18 \/ i = 19 \/ i = 20 \/ i = 21
  OBVIOUS

LEMMA PhasesDiffer ==
  ASSUME NEW i \in 1..21, NEW j \in 1..21, Phases[i] = Phases[j]
  PROVE  i = j
  BY PhasesAre, Positions

LEMMA StepsAre ==
  Steps = PhaseNames \cup {"sealed", "raised", "interrupted",
                           "cross_border_signoff", "resolve"}
  <1>1. { Phases[i] : i \in DOMAIN Phases } = PhaseNames
    BY PhasesAre, Positions DEF PhaseNames
  <1>2. QED
    BY <1>1 DEF Steps, Finished

\* The next phase is the first wanted one.
LEMMA AfterIs ==
  ASSUME NEW i \in 1..21, NEW j \in 1..21, i < j, Wanted(Phases[j]),
         \A k \in 1..21 : i < k /\ k < j => ~Wanted(Phases[k])
  PROVE  After(Phases[i]) = Phases[j]
  <1> DEFINE at == CHOOSE n \in DOMAIN Phases : Phases[n] = Phases[i]
             later == { n \in DOMAIN Phases : n > at /\ Wanted(Phases[n]) }
  <1>1. at = i
    BY PhasesAre, PhasesDiffer
  <1>2. j \in later /\ \A n \in later : j <= n
    BY <1>1, PhasesAre
  <1>3. (CHOOSE n \in later : \A m \in later : n <= m) = j
    <2>1. \A n \in later : (\A m \in later : n <= m) => n = j
      BY <1>2, PhasesAre
    <2> HIDE DEF later
    <2>2. QED
      BY <1>2, <2>1
  <1>4. QED
    BY <1>3 DEF After

\* Where the scenario of a run leads it.
LEMMA AfterTable ==
  ASSUME scenario \in Scenarios
  PROVE
  /\ After("open") = IF scenario.materiality THEN "materiality"
                     ELSE IF scenario.mode = "reportability"
                            THEN "reportability" ELSE "drafting"
  /\ scenario.materiality => After("materiality") = "drafting"
  /\ After("reportability") = "drafting"
  /\ After("drafting") \in {"recruit_uk", "recruit_nydfs", "cross_border", "diff"}
  /\ After("recruit_uk") \in {"recruit_nydfs", "cross_border", "diff"}
  /\ After("recruit_nydfs") \in {"cross_border", "diff"}
  /\ After("cross_border") = "diff" /\ After("diff") = "release"
  /\ Wanted(After("drafting")) /\ Wanted(After("recruit_uk"))
  /\ Wanted(After("recruit_nydfs"))
  /\ After("release") = IF Amends THEN "amend"
                        ELSE CASE scenario.mode = "deficiency" -> "deficiency"
                               [] scenario.mode = "legal_hold" -> "lift_hold"
                               [] scenario.mode = "submit" -> "submission"
                               [] OTHER -> "seal"
  /\ Amends =>
       /\ After("amend") = "propose" /\ After("propose") = "concur"
       /\ After("concur") = "amend_submit" /\ After("amend_submit") = "amend_diff"
       /\ After("amend_diff") = "amend_release"
       /\ After("amend_release") = IF scenario.mode = "affected_party"
                                     THEN "affected_party" ELSE "seal"
  /\ scenario.mode = "affected_party" => After("affected_party") = "seal"
  /\ scenario.mode = "deficiency" =>
       After("deficiency") = "cure" /\ After("cure") = "seal"
  /\ After("lift_hold") = IF scenario.mode = "submit" THEN "submission" ELSE "seal"
  /\ After("submission") = "seal"
  <1> USE PhasesAre
  <1>0. scenario.materiality => scenario.mode # "reportability"
    BY ScenariosAssumption DEF ScenariosAssumption, CliAccepts
  <1>a. /\ Wanted("materiality") <=> scenario.materiality
        /\ Wanted("reportability") <=> scenario.mode = "reportability"
        /\ Wanted("cross_border") <=> scenario.mode = "cross_border"
        /\ Wanted("amend") <=> Amends
        /\ Wanted("propose") <=> Amends
        /\ Wanted("concur") <=> Amends
        /\ Wanted("amend_submit") <=> Amends
        /\ Wanted("amend_diff") <=> Amends
        /\ Wanted("amend_release") <=> Amends
        /\ Wanted("affected_party") <=> scenario.mode = "affected_party"
        /\ Wanted("deficiency") <=> scenario.mode = "deficiency"
        /\ Wanted("cure") <=> scenario.mode = "deficiency"
        /\ Wanted("lift_hold") <=> scenario.mode = "legal_hold"
        /\ Wanted("submission") <=> scenario.mode = "submit"
        /\ Wanted("drafting") /\ Wanted("diff") /\ Wanted("release")
        /\ Wanted("seal")
    BY DEF Wanted
  <1>b. Amends <=> scenario.mode \in {"amendment", "affected_party"}
    BY DEF Amends
  <1> DEFINE Skips(i, j) == \A k \in 1..21 : i < k /\ k < j => ~Wanted(Phases[k])
  <1>c. ASSUME NEW i \in 1..21, NEW j \in 1..21, i < j, Wanted(Phases[j]),
               Skips(i, j)
        PROVE  After(Phases[i]) = Phases[j]
    BY <1>c, AfterIs
  <1> DEFINE W(i) == Wanted(Phases[i])
             Jump(i, j) == After(Phases[i]) = Phases[j]
  <1>d. /\ Skips(1, 2) /\ Skips(2, 3) /\ Skips(3, 4) /\ Skips(4, 5) /\ Skips(5, 6)
        /\ Skips(6, 7) /\ Skips(7, 8) /\ Skips(8, 9) /\ Skips(9, 10)
        /\ Skips(10, 11) /\ Skips(11, 12) /\ Skips(12, 13) /\ Skips(13, 14)
        /\ Skips(14, 15) /\ Skips(15, 16) /\ Skips(17, 18) /\ Skips(19, 20)
        /\ Skips(20, 21)
    OBVIOUS
  <1>e. /\ ~W(2) => Skips(1, 3)
        /\ ~W(2) /\ ~W(3) => Skips(1, 4)
        /\ ~W(3) => Skips(2, 4)
        /\ ~W(5) => Skips(4, 6)
        /\ ~W(5) /\ ~W(6) => Skips(4, 7)
        /\ ~W(5) /\ ~W(6) /\ ~W(7) => Skips(4, 8)
        /\ ~W(6) => Skips(5, 7)
        /\ ~W(6) /\ ~W(7) => Skips(5, 8)
        /\ ~W(7) => Skips(6, 8)
        /\ ~W(20) => Skips(19, 21)
        /\ ~W(19) /\ ~W(20) => Skips(18, 21)
    OBVIOUS
  <1>f. /\ ~Amends /\ ~W(16) => Skips(9, 17)
        /\ ~Amends /\ ~W(16) /\ ~W(17) /\ ~W(18) => Skips(9, 19)
        /\ ~Amends /\ ~W(16) /\ ~W(17) /\ ~W(18) /\ ~W(19) => Skips(9, 20)
        /\ ~Amends /\ ~W(16) /\ ~W(17) /\ ~W(18) /\ ~W(19) /\ ~W(20)
             => Skips(9, 21)
        /\ ~W(17) /\ ~W(18) /\ ~W(19) /\ ~W(20) => Skips(16, 21)
        /\ ~W(16) /\ ~W(17) /\ ~W(18) /\ ~W(19) /\ ~W(20) => Skips(15, 21)
    BY <1>a, Positions
  <1>g. ASSUME NEW i \in 1..21, NEW j \in 1..21, i < j
        PROVE  W(j) /\ Skips(i, j) => Jump(i, j)
    BY <1>c, <1>g
  <1> HIDE DEF Skips, Jump
  <1>h. /\ Jump(7, 8) /\ Jump(8, 9) /\ Jump(3, 4) /\ Jump(20, 21)
        /\ W(2) => Jump(1, 2)
        /\ ~W(2) /\ W(3) => Jump(1, 3)
        /\ ~W(2) /\ ~W(3) => Jump(1, 4)
        /\ ~W(3) => Jump(2, 4)
    BY <1>a, <1>d, <1>e, <1>g
  <1>i. /\ W(5) => Jump(4, 5)
        /\ ~W(5) /\ W(6) => Jump(4, 6)
        /\ ~W(5) /\ ~W(6) /\ W(7) => Jump(4, 7)
        /\ ~W(5) /\ ~W(6) /\ ~W(7) => Jump(4, 8)
        /\ W(6) => Jump(5, 6)
        /\ ~W(6) /\ W(7) => Jump(5, 7)
        /\ ~W(6) /\ ~W(7) => Jump(5, 8)
        /\ W(7) => Jump(6, 7)
        /\ ~W(7) => Jump(6, 8)
    BY <1>a, <1>d, <1>e, <1>g
  <1>j. /\ Amends => /\ Jump(9, 10) /\ Jump(10, 11) /\ Jump(11, 12)
                     /\ Jump(12, 13) /\ Jump(13, 14) /\ Jump(14, 15)
        /\ W(17) => Jump(17, 18)
        /\ W(20) => Jump(19, 20)
        /\ ~W(20) => Jump(19, 21)
        /\ W(16) => Jump(15, 16)
        /\ ~W(19) /\ ~W(20) => Jump(18, 21)
    BY <1>a, <1>d, <1>e, <1>g
  <1>k. /\ ~Amends /\ W(17) => Jump(9, 17)
        /\ ~Amends /\ W(19) => Jump(9, 19)
        /\ ~Amends /\ W(20) => Jump(9, 20)
        /\ ~Amends /\ ~W(17) /\ ~W(19) /\ ~W(20) => Jump(9, 21)
        /\ W(16) => Jump(16, 21)
        /\ Amends /\ ~W(16) => Jump(15, 21)
    BY <1>a, <1>b, <1>f, <1>g
  <1> USE DEF Jump
  <1>l. /\ After("open") = IF scenario.materiality THEN "materiality"
                           ELSE IF scenario.mode = "reportability"
                                  THEN "reportability" ELSE "drafting"
        /\ scenario.materiality => After("materiality") = "drafting"
        /\ After("reportability") = "drafting"
        /\ After("cross_border") = "diff" /\ After("diff") = "release"
        /\ After("submission") = "seal"
    BY <1>0, <1>a, <1>h
  <1>m. /\ After("drafting") \in {"recruit_uk", "recruit_nydfs", "cross_border",
                                  "diff"}
        /\ After("recruit_uk") \in {"recruit_nydfs", "cross_border", "diff"}
        /\ After("recruit_nydfs") \in {"cross_border", "diff"}
        /\ Wanted(After("drafting")) /\ Wanted(After("recruit_uk"))
        /\ Wanted(After("recruit_nydfs"))
    BY <1>a, <1>i
  <1>n. /\ After("release") = IF Amends THEN "amend"
                        ELSE CASE scenario.mode = "deficiency" -> "deficiency"
                               [] scenario.mode = "legal_hold" -> "lift_hold"
                               [] scenario.mode = "submit" -> "submission"
                               [] OTHER -> "seal"
        /\ scenario.mode = "affected_party" => After("affected_party") = "seal"
        /\ scenario.mode = "deficiency" =>
             After("deficiency") = "cure" /\ After("cure") = "seal"
        /\ After("lift_hold") = IF scenario.mode = "submit" THEN "submission"
                                                           ELSE "seal"
    BY <1>a, <1>b, <1>j, <1>k
  <1>o. Amends =>
          /\ After("amend") = "propose" /\ After("propose") = "concur"
          /\ After("concur") = "amend_submit"
          /\ After("amend_submit") = "amend_diff"
          /\ After("amend_diff") = "amend_release"
          /\ After("amend_release") = IF scenario.mode = "affected_party"
                                        THEN "affected_party" ELSE "seal"
    BY <1>a, <1>b, <1>j, <1>k
  <1>q. QED
    BY <1>l, <1>m, <1>n, <1>o
-----------------------------------------------------------------------------
(***************************************************************************)
(* What the protocol, the loops and the facts do in the states of a run.   *)
(***************************************************************************)
\* apply() leaves a branch in a state of the protocol.
LEMMA NextStateTyped ==
  ASSUME NEW s \in State, NEW e, NEW role
  PROVE  NextState(s, e, role) \in State
  <1>1. CASE Admits(s, e, role)
    <2>1. \E t \in State : Moves(s, e, role, t)
      BY <1>1 DEF Admits
    <2>2. (CHOOSE t \in State : Moves(s, e, role, t)) \in State
      BY <2>1
    <2>3. QED
      BY <1>1, <2>2 DEF NextState
  <1>2. CASE ~Admits(s, e, role)
    BY <1>2 DEF NextState
  <1>3. QED
    BY <1>1, <1>2

\* The events the driver fires, in the states its branches have.
LEMMA RunMoves ==
  /\ Triage("initiated", "fact_record_posted") = "fact_record_ready"
  /\ Triage("released", "fact_amended") = "amending"
  /\ Triage("suppressed", "fact_amended") = "suppressed"
  /\ Drafter("fact_record_ready", "draft_started") = "drafting"
  /\ Drafter("drafting", "draft_posted") = "draft_submitted"
  /\ Drafter("amending", "draft_posted") = "draft_submitted"
  /\ Drafter("suppressed", "draft_posted") = "suppressed"
  /\ Warden("draft_submitted", "diff_passed") = "contradiction_checked"
  /\ Warden("draft_submitted", "diff_blocked") = "drafting"
  /\ Warden("contradiction_checked", "signoff_opened") = "awaiting_human_signoff"
  /\ OpenSignoff("draft_submitted") = "awaiting_human_signoff"
  /\ OpenSignoff("suppressed") = "suppressed"
  /\ Suppress("fact_record_ready") = "suppressed"
  /\ Suppress("suppressed") = "suppressed"
  /\ NextState("awaiting_human_signoff", "human_released", "human_owner")
       = "released"
  /\ \A s \in State : Admits(s, "human_released", "human_owner")
                        <=> s = "awaiting_human_signoff"
  <1> DEFINE OnlyMove(s, e, role, t) ==
               /\ t \in State /\ Moves(s, e, role, t)
               /\ \A u \in State : Moves(s, e, role, u) => u = t
             Stays(s, e, role) == \A u \in State : ~Moves(s, e, role, u)
  <1> USE DEF Moves, TRANSITIONS, ProtocolRows, BreachRows, State, Event,
              TERMINAL_STATES, REOPENABLE_STATES, Authorised, EVENT_AUTHORITY,
              NoRole
  <1>1. /\ OnlyMove("initiated", "fact_record_posted", "triage",
                    "fact_record_ready")
        /\ OnlyMove("released", "fact_amended", "triage", "amending")
        /\ OnlyMove("fact_record_ready", "draft_started", "drafter", "drafting")
        /\ OnlyMove("drafting", "draft_posted", "drafter", "draft_submitted")
        /\ OnlyMove("amending", "draft_posted", "drafter", "draft_submitted")
    OBVIOUS
  <1>2. /\ OnlyMove("draft_submitted", "diff_passed", "warden",
                    "contradiction_checked")
        /\ OnlyMove("draft_submitted", "diff_blocked", "warden", "drafting")
        /\ OnlyMove("contradiction_checked", "signoff_opened", "warden",
                    "awaiting_human_signoff")
        /\ OnlyMove("fact_record_ready", "suppress", "materiality", "suppressed")
        /\ OnlyMove("awaiting_human_signoff", "human_released", "human_owner",
                    "released")
    OBVIOUS
  <1>3. /\ Stays("suppressed", "fact_amended", "triage")
        /\ Stays("suppressed", "draft_posted", "drafter")
        /\ Stays("suppressed", "suppress", "materiality")
        /\ Stays("suppressed", "diff_passed", "warden")
        /\ Stays("suppressed", "signoff_opened", "warden")
    OBVIOUS
  <1>4. \A s \in State : Admits(s, "human_released", "human_owner")
                           <=> s = "awaiting_human_signoff"
    BY DEF Admits
  <1>5. ASSUME NEW s, NEW e, NEW role, NEW t, OnlyMove(s, e, role, t)
        PROVE  NextState(s, e, role) = t
    BY <1>5 DEF NextState, Admits
  <1>6. ASSUME NEW s, NEW e, NEW role, Stays(s, e, role)
        PROVE  NextState(s, e, role) = s
    BY <1>6 DEF NextState, Admits
  <1> HIDE DEF OnlyMove, Stays, Moves, State
  <1>7. QED
    BY <1>1, <1>2, <1>3, <1>4, <1>5, <1>6
       DEF Triage, Drafter, Warden, OpenSignoff, Suppress

\* A loop that goes on has left exactly the branch it was at.
LEMMA TailFacts ==
  ASSUME NEW s \in Seq(Branches), s # <<>>, OnceEach(s)
  PROVE  /\ Head(s) \in Branches /\ \E i \in DOMAIN s : s[i] = Head(s)
         /\ Tail(s) \in Seq(Branches) /\ OnceEach(Tail(s))
         /\ Len(s) > 1 => Tail(s) # <<>>
         /\ Len(s) <= 1 => \A b : (\E i \in DOMAIN s : s[i] = b) => b = Head(s)
         /\ \A b : (\E i \in DOMAIN Tail(s) : Tail(s)[i] = b)
                     <=> (\E i \in DOMAIN s : s[i] = b) /\ b # Head(s)
  <1>1. /\ Len(s) \in Nat /\ Len(s) >= 1 /\ DOMAIN s = 1..Len(s)
        /\ Head(s) = s[1] /\ s[1] \in Branches
    BY EmptySeq, LenProperties, HeadTailProperties
  <1>2. /\ Tail(s) \in Seq(Branches) /\ Len(Tail(s)) = Len(s) - 1
        /\ DOMAIN Tail(s) = 1..(Len(s) - 1)
        /\ \A i \in 1..(Len(s) - 1) : Tail(s)[i] = s[i + 1]
    BY <1>1, HeadTailProperties, LenProperties
  <1>3. OnceEach(Tail(s))
    <2>1. SUFFICES ASSUME NEW i \in 1..(Len(s) - 1), NEW j \in 1..(Len(s) - 1),
                          s[i + 1] = s[j + 1]
                   PROVE  i = j
      BY <1>2 DEF OnceEach
    <2>2. i + 1 \in DOMAIN s /\ j + 1 \in DOMAIN s
      BY <1>1
    <2>3. QED
      BY <1>1, <2>1, <2>2 DEF OnceEach
  <1>4. Len(s) > 1 => Tail(s) # <<>>
    <2>1. Len(<<>>) = 0
      OBVIOUS
    <2>2. Len(s) > 1 => Len(Tail(s)) # 0
      BY <1>1, <1>2
    <2>3. QED
      BY <2>1, <2>2
  <1>5. ASSUME NEW b
        PROVE  (\E i \in DOMAIN Tail(s) : Tail(s)[i] = b)
                 <=> (\E i \in DOMAIN s : s[i] = b) /\ b # Head(s)
    <2>1. ASSUME NEW i \in DOMAIN Tail(s), Tail(s)[i] = b
          PROVE  (\E k \in DOMAIN s : s[k] = b) /\ b # Head(s)
      <3>1. i + 1 \in DOMAIN s /\ s[i + 1] = b /\ i + 1 # 1 /\ 1 \in DOMAIN s
        BY <1>1, <1>2, <2>1
      <3>2. QED
        BY <1>1, <3>1 DEF OnceEach
    <2>2. ASSUME NEW i \in DOMAIN s, s[i] = b, b # Head(s)
          PROVE  \E k \in DOMAIN Tail(s) : Tail(s)[k] = b
      <3>1. i # 1 /\ i - 1 \in DOMAIN Tail(s)
        BY <1>1, <1>2, <2>2
      <3>2. Tail(s)[i - 1] = b
        BY <1>1, <1>2, <2>2, <3>1
      <3>3. QED
        BY <3>1, <3>2
    <2>3. QED
      BY <2>1, <2>2
  <1>6. Len(s) <= 1 => \A b : (\E i \in DOMAIN s : s[i] = b) => b = Head(s)
    BY <1>1
  <1>7. QED
    BY <1>1, <1>2, <1>3, <1>4, <1>5, <1>6

\* A branch that joins is the last one of the run.
LEMMA JoinFacts ==
  ASSUME NEW s \in Seq(Branches), NEW b \in Branches, OnceEach(s),
         ~\E i \in DOMAIN s : s[i] = b
  PROVE  /\ Append(s, b) \in Seq(Branches) /\ OnceEach(Append(s, b))
         /\ \A a : (\E i \in DOMAIN Append(s, b) : Append(s, b)[i] = a)
                     <=> (\E i \in DOMAIN s : s[i] = a) \/ a = b
  <1> DEFINE t == Append(s, b)
  <1>1. /\ t \in Seq(Branches) /\ Len(s) \in Nat /\ DOMAIN s = 1..Len(s)
        /\ Len(t) = Len(s) + 1 /\ DOMAIN t = 1..(Len(s) + 1)
        /\ \A i \in 1..Len(s) : t[i] = s[i]
        /\ t[Len(s) + 1] = b
    BY AppendProperties, LenProperties
  <1> HIDE DEF t
  <1>2. OnceEach(t)
    BY <1>1 DEF OnceEach
  <1>3. \A a : (\E i \in DOMAIN t : t[i] = a)
                 <=> (\E i \in DOMAIN s : s[i] = a) \/ a = b
    BY <1>1
  <1>4. QED
    BY <1>1, <1>2, <1>3 DEF t

\* The lists a loop may start with.
LEMMA WorkLists ==
  /\ \A l \in {DRAFTER_ROLES, AMENDMENT_BRANCHES, <<AffectedParty>>, <<"sec">>,
               <<"uk">>, <<"nydfs">>} :
       l \in Seq(Branches) /\ OnceEach(l) /\ l # <<>>
  /\ \A b : (\E i \in DOMAIN DRAFTER_ROLES : DRAFTER_ROLES[i] = b)
              <=> b \in Drafters
  /\ \A b : Amended(b) <=> b \in {"sec", "nis2"}
  /\ \A b, c : (\E i \in DOMAIN <<c>> : <<c>>[i] = b) <=> b = c
  /\ <<>> \in Seq(Branches) /\ OnceEach(<<>>)
  /\ \A b : ~\E i \in DOMAIN <<>> : <<>>[i] = b
  BY DEF DRAFTER_ROLES, AMENDMENT_BRANCHES, OnceEach, Branches, Regulators,
         AffectedParty, Drafters, Amended

\* The facts a filing may assert differ where it matters.
LEMMA FactsDiffer ==
  /\ CanonicalFacts \in Claims /\ AmendedFacts \in Claims
  /\ \A b : ClaimFactsFor(b) \in Claims
  /\ NoClaims \notin Claims
  /\ [CanonicalFacts EXCEPT !.records = AmendedFacts.records] \in Claims
  /\ \A b : scenario.mode = "inject_contradiction" /\ b = "sec" =>
              /\ ClaimFactsFor(b) # CanonicalFacts
              /\ ClaimFactsFor(b).start # CanonicalFacts.start
  /\ \A b : ~(scenario.mode = "inject_contradiction" /\ b = "sec") =>
              ClaimFactsFor(b) = CanonicalFacts
  BY DEF CanonicalFacts, AmendedFacts, Claims, ClaimFactsFor, NoClaims
-----------------------------------------------------------------------------
(***************************************************************************)
(* What the position of the driver implies for what was filed.             *)
(***************************************************************************)
Running == /\ LoopOK /\ RunOK /\ LiveOK /\ ClocksOK /\ CustomersOK /\ KeysOK
           /\ DutyOK

\* What a released branch holds is what its last draft said.
LEMMA FiledStands ==
  ASSUME FloorTypeOK, RoundsOK, Running, ~CutShort
  PROVE  FiledIsWhatWasDrafted
  <1> USE DEF FloorTypeOK, Running
  <1> SUFFICES ASSUME NEW b \in Branches, state[b] = "released"
               PROVE  filed[b] # <<>> /\ claims[b] = filed[b][Len(filed[b])]
    BY DEF FiledIsWhatWasDrafted
  <1>1. CASE b = AffectedParty
    <2>1. filed[b] = <<claims[b]>>
      BY <1>1 DEF CustomersOK
    <2>2. Len(<<claims[b]>>) = 1 /\ <<claims[b]>>[1] = claims[b]
          /\ <<claims[b]>> # <<>>
      OBVIOUS
    <2>3. QED
      BY <2>1, <2>2
  <1>2. CASE b \in Regulators
    <2>1. Live(b)
      BY <1>2 DEF RunOK, Live
    <2>2. /\ Stage(b) = "released" /\ claims[b] = Asserts(b)
          /\ Len(filed[b]) = Versions(b)
      BY <1>2, <2>1 DEF LiveOK
    <2>3. step \notin Early
      <3>1. step # "open"
        BY <1>2, <2>1 DEF RunOK, LoopOK, Live, Regulators, Drafters
      <3>2. QED
        BY <2>2, <3>1 DEF Stage, Early, Joining
    <2>4. Versions(b) \in {1, 2} /\ Asserts(b) = RoundFacts(Versions(b))
      <3>1. CASE step = "release"
        BY <2>2, <3>1 DEF Stage, Versions, Asserts, RoundFacts, Early, Joining,
                          Ending
      <3>2. CASE step \in {"amend_submit", "amend_diff", "amend_release"}
        BY <2>2, <3>2 DEF Stage, Versions, Asserts, RoundFacts, Early, Joining,
                          Ending, Amends, LoopOK, Wanted
      <3>3. CASE step \in Ending \cup {"affected_party"}
        BY <3>3 DEF Versions, Asserts, RoundFacts, Early, Joining, Ending, Amends
      <3>4. CASE step \notin Ending \cup {"affected_party", "release",
                               "amend_submit", "amend_diff", "amend_release"}
        BY <2>3, <3>4 DEF Versions, Asserts, RoundFacts, Early, Joining, Ending
      <3>5. QED
        BY <3>1, <3>2, <3>3, <3>4
    <2>5. filed[b] \in Seq(Claims)
      BY <1>2
    <2>6. filed[b] # <<>> /\ Len(filed[b]) \in DOMAIN filed[b]
      BY <2>2, <2>4, <2>5, LenProperties, EmptySeq
    <2>7. filed[b][Len(filed[b])] = RoundFacts(Len(filed[b]))
      BY <1>2, <2>6 DEF RoundsOK
    <2>8. QED
      BY <2>2, <2>4, <2>6, <2>7
  <1>3. QED
    BY <1>1, <1>2 DEF Branches

\* Where the customers have been told, or the hold is off, every live branch is
\* released.
LEMMA LastThingsFollow ==
  ASSUME FloorTypeOK, Running, ~CutShort
  PROVE  LastThingsLast
  <1> USE DEF Running
  <1>1. SUFFICES ASSUME Joined(AffectedParty) \/ hold = "released",
                        NEW b \in Regulators, Joined(b)
                 PROVE  state[b] \in {"released", "suppressed"}
    BY DEF LastThingsLast, Joined
  <1>2. step \in Ending \cup {"affected_party"}
    BY <1>1 DEF CustomersOK, DutyOK
  <1>3. Stage(b) = "released"
    BY <1>2 DEF Stage, Ending, Joining
  <1>4. QED
    BY <1>1, <1>3 DEF LiveOK, Live

\* A run that seals has left nothing half done.
LEMMA SealedIsComplete ==
  ASSUME FloorTypeOK, Running, step = "sealed"
  PROVE  SealedRunIsComplete
  <1> USE DEF Running
  <1>1. ASSUME NEW b \in Branches, clock[b] # "none"
        PROVE  /\ state[b] \in {"released", "suppressed"}
               /\ clock[b] = "stopped"
               /\ state[b] = "released" => InRun(b)
    <2>1. CASE b = AffectedParty
      <3>1. state[b] = "released" /\ filed[b] = <<claims[b]>> /\ InRun(b)
        BY <1>1, <2>1 DEF CustomersOK, Joined
      <3>2. <<claims[b]>> # <<>>
        OBVIOUS
      <3>3. QED
        BY <1>1, <3>1, <3>2 DEF ClocksOK, Joined
    <2>2. CASE b \in Regulators
      <3>1. InRun(b) /\ (state[b] = "suppressed" => clock[b] = "stopped")
        BY <1>1, <2>2 DEF RunOK, Joined
      <3>2. CASE state[b] # "suppressed"
        <4>1. Stage(b) = "released" /\ Versions(b) \in {1, 2}
          BY DEF Stage, Versions, Ending, Joining, Early
        <4>2. state[b] = "released" /\ Len(filed[b]) \in {1, 2}
          BY <1>1, <2>2, <3>2, <4>1 DEF LiveOK, Live, Joined
        <4>3. Len(<<>>) = 0
          OBVIOUS
        <4>4. clock[b] = "stopped"
          BY <1>1, <4>2, <4>3 DEF ClocksOK, Joined
        <4>5. QED
          BY <3>1, <4>2, <4>4
      <3>3. QED
        BY <3>1, <3>2
    <2>3. QED
      BY <2>1, <2>2 DEF Branches
  <1>2. lock = "idle" /\ conflict # "blocked" /\ hold # "active"
    BY DEF LoopOK, DutyOK, Releases, Ending
  <1>3. scenario.mode = "submit" =>
          receipts = { b \in SubmitBranches : state[b] = "released" }
    BY DEF DutyOK, Ending
  <1>4. QED
    BY <1>1, <1>2, <1>3 DEF SealedRunIsComplete
-----------------------------------------------------------------------------
(***************************************************************************)
(* The diff.                                                               *)
(***************************************************************************)
\* What the diff looks at are the drafts of the live branches.
LEMMA DraftedAre ==
  ASSUME FloorTypeOK, Running, step \in {"diff", "resolve"}
  PROVE  /\ Drafted = { b \in Regulators : Live(b) }
         /\ scenario.mode = "inject_contradiction" =>
              {"nis2", "dora"} \subseteq Drafted
         /\ \A b \in Drafted : claims[b] = ClaimFactsFor(b)
  <1> USE DEF Running
  <1>1. ~Joined(AffectedParty) /\ claims[AffectedParty] = NoClaims
    BY DEF CustomersOK, Ending
  <1>2. ASSUME NEW b \in Regulators
        PROVE  /\ Live(b) => claims[b] = ClaimFactsFor(b) /\ claims[b] # NoClaims
               /\ ~Live(b) => claims[b] = NoClaims
    <2>1. Live(b) => claims[b] = ClaimFactsFor(b)
      <3>1. Asserts(b) = ClaimFactsFor(b)
        BY DEF Asserts, Joining, Ending
      <3>2. QED
        BY <1>2, <3>1 DEF LiveOK
    <2>2. Live(b) => claims[b] # NoClaims
      BY <2>1, FactsDiffer
    <2>3. ~Live(b) => claims[b] = NoClaims
      BY <1>2 DEF RunOK, Live, Early, Joining
    <2>4. QED
      BY <2>1, <2>2, <2>3
  <1>3. Drafted = { b \in Regulators : Live(b) }
    BY <1>1, <1>2 DEF Drafted, Branches
  <1>4. scenario.mode = "inject_contradiction" => Live("nis2") /\ Live("dora")
    BY DEF RunOK, Live, Regulators, Drafters
  <1>5. QED
    BY <1>2, <1>3, <1>4 DEF Regulators

\* Drafts of the canonical facts agree.
LEMMA CanonicalAgree ==
  ASSUME NEW cl, NEW bs, \A b \in bs : cl[b] = CanonicalFacts
  PROVE  ~Contradict(cl, bs)
  BY DEF Contradict

\* The diff is red only in the contradiction beat, for the SEC branch.
LEMMA RedDiff ==
  ASSUME FloorTypeOK, Running, step \in {"diff", "resolve"}
  PROVE  /\ Contradict(claims, Drafted) =>
              scenario.mode = "inject_contradiction" /\ "sec" \in Drafted
         /\ ~Contradict(claims, Drafted) =>
              \A b \in Drafted : claims[b] = CanonicalFacts
  <1>1. \A b \in Drafted : claims[b] = ClaimFactsFor(b)
    BY DraftedAre
  <1>2. CASE scenario.mode = "inject_contradiction" /\ "sec" \in Drafted
    <2>1. "nis2" \in Drafted
      BY <1>2, DraftedAre
    <2>2. claims["nis2"] = CanonicalFacts /\ claims["sec"] # CanonicalFacts
      BY <1>1, <1>2, <2>1, FactsDiffer
    <2>3. Contradict(claims, Drafted)
      BY <1>2, <2>1, <2>2 DEF Contradict
    <2>4. QED
      BY <1>2, <2>3
  <1>3. CASE ~(scenario.mode = "inject_contradiction" /\ "sec" \in Drafted)
    <2>1. \A b \in Drafted : claims[b] = CanonicalFacts
      BY <1>1, <1>3, FactsDiffer
    <2>2. QED
      BY <2>1, CanonicalAgree
  <1>4. QED
    BY <1>2, <1>3

\* The majority vote over the starts finds it.
LEMMA ContradictedIsSec ==
  ASSUME FloorTypeOK, Running, step = "resolve"
  PROVE  ContradictedBranch = "sec"
  <1> DEFINE Same(b) == { a \in Drafted : claims[a].start = claims[b].start }
             Before(a, b) ==
               \/ Cardinality(Same(a)) < Cardinality(Same(b))
               \/ Cardinality(Same(a)) = Cardinality(Same(b)) /\ Rank(a) <= Rank(b)
  <1>1. scenario.mode = "inject_contradiction"
    BY DEF Running, LoopOK
  <1>2. CASE "sec" \notin Drafted
    <2>1. \A b \in Drafted : claims[b] = CanonicalFacts
      BY <1>2, DraftedAre, FactsDiffer
    <2>2. \A b \in Drafted : Same(b) = Drafted
      BY <2>1
    <2>3. QED
      BY <2>2 DEF ContradictedBranch
  <1>3. CASE "sec" \in Drafted
    <2>1. /\ claims["sec"].start # CanonicalFacts.start
          /\ \A b \in Drafted : b # "sec" => claims[b] = CanonicalFacts
          /\ "nis2" \in Drafted /\ "dora" \in Drafted
      BY <1>1, <1>3, DraftedAre, FactsDiffer
    <2>2. Same("sec") = {"sec"}
      BY <1>3, <2>1
    <2>3. Cardinality(Same("sec")) = 1
      BY <2>2, FS_Singleton
    <2>4. IsFiniteSet(Drafted)
      <3>1. IsFiniteSet({"nis2", "sec", "dora", "uk", "nydfs"})
        <4>1. IsFiniteSet({"nis2"})
          BY FS_Singleton
        <4>2. IsFiniteSet({"nis2"} \cup {"sec"})
          BY <4>1, FS_AddElement
        <4>3. IsFiniteSet({"nis2"} \cup {"sec"} \cup {"dora"})
          BY <4>2, FS_AddElement
        <4>4. IsFiniteSet({"nis2"} \cup {"sec"} \cup {"dora"} \cup {"uk"})
          BY <4>3, FS_AddElement
        <4>5. IsFiniteSet({"nis2"} \cup {"sec"} \cup {"dora"} \cup {"uk"}
                            \cup {"nydfs"})
          BY <4>4, FS_AddElement
        <4>6. {"nis2", "sec", "dora", "uk", "nydfs"} =
                {"nis2"} \cup {"sec"} \cup {"dora"} \cup {"uk"} \cup {"nydfs"}
          OBVIOUS
        <4>7. QED
          BY <4>5, <4>6
      <3>2. Drafted \subseteq {"nis2", "sec", "dora", "uk", "nydfs"}
        BY DraftedAre DEF Regulators
      <3>3. QED
        BY <3>1, <3>2, FS_Subset
    <2>5. ASSUME NEW b \in Drafted, b # "sec"
          PROVE  Cardinality(Same(b)) \in Nat /\ Cardinality(Same(b)) >= 2
      <3>1. {"nis2", "dora"} \subseteq Same(b) /\ Same(b) \subseteq Drafted
        BY <2>1, <2>5
      <3>2. Cardinality({"nis2", "dora"}) = 2 /\ IsFiniteSet({"nis2", "dora"})
        <4>1. IsFiniteSet({"nis2"}) /\ Cardinality({"nis2"}) = 1
          BY FS_Singleton
        <4>2. /\ IsFiniteSet({"nis2"} \cup {"dora"})
              /\ Cardinality({"nis2"} \cup {"dora"}) = Cardinality({"nis2"}) + 1
          BY <4>1, FS_AddElement
        <4>3. {"nis2", "dora"} = {"nis2"} \cup {"dora"}
          OBVIOUS
        <4>4. QED
          BY <4>1, <4>2, <4>3
      <3>3. IsFiniteSet(Same(b))
        BY <2>4, <3>1, FS_Subset
      <3>4. QED
        BY <3>1, <3>2, <3>3, FS_Subset, FS_CardinalityType
    <2> HIDE DEF Same
    <2>6. \A a \in Drafted : Before("sec", a)
      BY <2>3, <2>5 DEF Rank
    <2>7. ASSUME NEW b \in Drafted, \A a \in Drafted : Before(b, a)
          PROVE  b = "sec"
      BY <1>3, <2>3, <2>5, <2>7
    <2>8. (CHOOSE b \in Drafted : \A a \in Drafted : Before(b, a)) = "sec"
      BY <1>3, <2>6, <2>7
    <2>9. ContradictedBranch = IF \A b \in Drafted : Same(b) = Drafted THEN "sec"
                 ELSE CHOOSE b \in Drafted : \A a \in Drafted : Before(b, a)
      BY DEF ContradictedBranch, Same
    <2>10. QED
      BY <2>8, <2>9
  <1>4. QED
    BY <1>2, <1>3
-----------------------------------------------------------------------------
(***************************************************************************)
(* The steps of the driver.                                                *)
(***************************************************************************)
LEMMA RunningGivesIInv ==
  FloorTypeOK /\ RoundsOK /\ Running /\ ~CutShort => IInv
  BY FiledStands, LastThingsFollow DEF IInv, Running

\* It is enough to show where the driver stands.
LEMMA AssembleIInv ==
  FloorTypeOK' /\ RoundsOK' /\ Running' /\ ~CutShort' => IInv'
  BY RunningGivesIInv, PTL

LEMMA StopsIInv ==
  ASSUME IInv, FloorTypeOK', step' \in {"raised", "interrupted"},
         UNCHANGED <<scenario, state, claims, filed, clock, hold>>
  PROVE  IInv'
  BY DEF IInv, CutShort, RoundsOK, RoundFacts, FiledIsWhatWasDrafted, LastThingsLast

\* Which branches the loop of a phase visits.
LEMMA VisitsAre ==
  /\ Visits("reportability") = Drafters /\ Visits("drafting") = Drafters
  /\ Visits("release") = { b \in { ran[i] : i \in DOMAIN ran } : InRun(b) }
  /\ Visits("amend_submit") = {"sec", "nis2"}
  /\ Visits("amend_release") = {"sec", "nis2"}
  /\ Visits("affected_party") = {AffectedParty}
  /\ Visits("deficiency") = {"sec"} /\ Visits("cure") = {"sec"}
  /\ Visits("recruit_uk") = {"uk"} /\ Visits("recruit_nydfs") = {"nydfs"}
  /\ \A p \in Steps \ Loops : Visits(p) = {} /\ Work(p) = <<>>
  BY DEF Visits, Work, Loops, DRAFTER_ROLES, Drafters, AMENDMENT_BRANCHES, AffectedParty,
         InRun

\* A phase starts with every branch its loop visits.
LEMMA WorkFacts ==
  ASSUME NEW p \in Steps, ran \in Seq(Branches), OnceEach(ran),
         p = "release" => ran # <<>>
  PROVE  /\ Work(p) \in Seq(Branches) /\ OnceEach(Work(p))
         /\ \A b : (\E i \in DOMAIN Work(p) : Work(p)[i] = b) <=> b \in Visits(p)
         /\ p \in Loops => Work(p) # <<>>
  <1>1. \A b : (\E i \in DOMAIN Work(p) : Work(p)[i] = b) <=> b \in Visits(p)
    BY DEF Visits
  <1>2. Work(p) \in {<<>>, ran, DRAFTER_ROLES, AMENDMENT_BRANCHES,
                    <<AffectedParty>>, <<"sec">>, <<"uk">>, <<"nydfs">>}
    BY DEF Work
  <1>3. Work(p) \in Seq(Branches) /\ OnceEach(Work(p))
    BY <1>2, WorkLists
  <1>4. p \in Loops => Work(p) # <<>>
    BY WorkLists DEF Work, Loops
  <1>5. QED
    BY <1>1, <1>3, <1>4

LEMMA RanIsNotEmpty ==
  ASSUME FloorTypeOK, RunOK, step # "open"
  PROVE  ran # <<>>
  <1>1. InRun("nis2")
    BY DEF RunOK, Regulators, Drafters
  <1>2. QED
    BY <1>1, WorkLists DEF InRun

\* The head of a loop is one of its branches.
LEMMA HeadFacts ==
  ASSUME FloorTypeOK, TodoOK, todo # <<>>
  PROVE  /\ Head(todo) \in Branches /\ InTodo(Head(todo))
         /\ Head(todo) \in Visits(step)
  BY TailFacts DEF FloorTypeOK, TodoOK, InTodo

LEMMA ProceedFacts ==
  ASSUME FloorTypeOK, OnceEach(ran), NEW p, Proceed(p), After(p) \in Steps,
         After(p) = "release" => ran # <<>> /\ ran' = ran
  PROVE  /\ step' = After(p) /\ step' \in Steps /\ todo' \in Seq(Branches)
         /\ TodoOK'
         /\ \A b : InTodo(b)' <=> b \in Visits(After(p))
  <1>1. /\ step' = After(p) /\ todo' = Work(After(p))
        /\ todo' \in Seq(Branches) /\ OnceEach(todo')
        /\ \A b : (\E i \in DOMAIN todo' : todo'[i] = b) <=> b \in Visits(After(p))
        /\ After(p) \in Loops => todo' # <<>>
    BY WorkFacts DEF Proceed, FloorTypeOK
  <1>2. \A b \in Visits(After(p)) : b \in Visits(step)'
    <2>1. CASE ran' = ran
      BY <1>1, <2>1 DEF Visits, Work
    <2>2. CASE After(p) # "release"
      BY <1>1, <2>2 DEF Visits, Work
    <2>3. QED
      BY <2>1, <2>2
  <1>3. TodoOK'
    BY <1>1, <1>2 DEF TodoOK, InTodo
  <1>4. QED
    BY <1>1, <1>3 DEF InTodo

\* A loop goes on with the branches it has not visited, or ends.
LEMMA NextBranchFacts ==
  ASSUME FloorTypeOK, TodoOK, OnceEach(ran), step \in Loops, NextBranch,
         After(step) \in Steps \ {"release"}, step = "release" => ran' = ran
  PROVE  /\ step' \in Steps /\ todo' \in Seq(Branches) /\ TodoOK'
         /\ \/ /\ step' = step
               /\ \A b : InTodo(b)' <=> InTodo(b) /\ b # Head(todo)
            \/ /\ step' = After(step)
               /\ \A b : InTodo(b) => b = Head(todo)
               /\ \A b : InTodo(b)' <=> b \in Visits(After(step))
  <1> USE DEF FloorTypeOK
  <1>1. todo # <<>> /\ OnceEach(todo)
    BY DEF TodoOK
  <1>2. CASE Len(todo) > 1
    <2>1. /\ step' = step /\ todo' = Tail(todo)
      BY <1>2 DEF NextBranch
    <2>2. /\ todo' \in Seq(Branches) /\ OnceEach(todo') /\ todo' # <<>>
          /\ \A b : (\E i \in DOMAIN todo' : todo'[i] = b)
                      <=> (\E i \in DOMAIN todo : todo[i] = b) /\ b # Head(todo)
      BY <1>1, <1>2, <2>1, TailFacts
    <2>3. \A b \in Visits(step) : b \in Visits(step)'
      <3>1. CASE ran' = ran
        BY <2>1, <3>1 DEF Visits, Work
      <3>2. CASE step # "release"
        BY <2>1, <3>2 DEF Visits, Work
      <3>3. QED
        BY <3>1, <3>2
    <2>4. TodoOK'
      BY <2>2, <2>3 DEF TodoOK, InTodo
    <2>5. QED
      BY <2>1, <2>2, <2>4 DEF InTodo
  <1>3. CASE ~(Len(todo) > 1)
    <2>1. Proceed(step)
      BY <1>3 DEF NextBranch
    <2>2. \A b : InTodo(b) => b = Head(todo)
      BY <1>1, <1>3, TailFacts, LenProperties DEF InTodo
    <2>3. QED
      BY <2>1, <2>2, ProceedFacts
  <1>4. QED
    BY <1>2, <1>3

LEMMA InitIInv == Init => IInv
  <1> SUFFICES ASSUME Init PROVE IInv
    OBVIOUS
  <1> USE DEF Init
  <1>1. FloorTypeOK
    <2>1. step \in Steps
      BY StepsAre DEF PhaseNames
    <2>2. todo \in Seq(Branches) /\ ran \in Seq(Branches) /\ signers = <<>>
      BY WorkLists
    <2>3. /\ state \in [Branches -> State]
          /\ claims \in [Branches -> Claims \cup {NoClaims}]
          /\ keys \in [Branches -> SUBSET (REQUIRED_ROLES \X Nat)]
          /\ filed \in [Branches -> Seq(Claims)]
      BY DEF State
    <2>4. clock \in [Branches \cup StartupClocks -> {"none", "running", "stopped"}]
      OBVIOUS
    <2>5. signers \in Seq(REQUIRED_ROLES)
      BY <2>2
    <2>6. QED
      BY <2>1, <2>2, <2>3, <2>4, <2>5 DEF FloorTypeOK
  <1>2. ~CutShort /\ RoundsOK
    BY DEF CutShort, RoundsOK, Branches
  <1>3. \A b \in Branches : ~Joined(b) /\ filed[b] = <<>> /\ state[b] = "initiated"
                             /\ claims[b] = NoClaims /\ keys[b] = {}
    BY DEF Joined
  <1>4. LoopOK
    <2>1. TodoOK /\ OnceEach(ran)
      BY WorkLists DEF TodoOK, InTodo, Loops
    <2>2. "uk" \in Branches /\ "nydfs" \in Branches
      BY DEF Branches, Regulators
    <2>3. QED
      BY <1>3, <2>1, <2>2 DEF LoopOK, Wanted
  <1>5. RunOK
    BY <1>3, WorkLists DEF RunOK, Live, InRun, Branches
  <1>6. LiveOK /\ ClocksOK
    BY <1>3 DEF LiveOK, ClocksOK, Live, Branches
  <1>7. CustomersOK
    <2>1. ~InRun(AffectedParty)
      BY WorkLists DEF InRun, Drafters, AffectedParty
    <2>2. QED
      BY <1>3, <2>1 DEF CustomersOK, Branches
  <1>8. KeysOK /\ DutyOK
    BY <1>3 DEF KeysOK, DutyOK, Early, Ending
  <1>9. QED
    BY <1>1, <1>2, <1>4, <1>5, <1>6, <1>7, <1>8, RunningGivesIInv DEF Running

\* The catalog starts the clocks of the drafters, and of no other branch.
LEMMA OpenIInv == ASSUME IInv, Open PROVE IInv'
  <1> USE DEF IInv, Open
  <1>0. ~CutShort /\ Running
    BY DEF CutShort, Running
  <1>1. After(step) \in {"materiality", "reportability", "drafting"}
        /\ Wanted(After(step)) /\ After(step) \in Steps
    BY AfterTable, StepsAre DEF FloorTypeOK, PhaseNames, Wanted
  <1>2. step' = After(step) /\ todo' \in Seq(Branches) /\ TodoOK'
        /\ \A b : InTodo(b)' <=> b \in Visits(After(step))
    BY <1>0, <1>1, ProceedFacts DEF Running, LoopOK
  <1>3. ~CutShort' /\ ~(step' \in Ending \cup {"open", "affected_party"})
    BY <1>1, <1>2 DEF CutShort, Ending
  <1>4. \A b \in Branches : state'[b] = IF b \in Drafters THEN "fact_record_ready"
                                                           ELSE state[b]
    <2>1. \A b \in Drafters : state[b] = "initiated"
      BY <1>0 DEF Running, RunOK, Regulators, Drafters
    <2>2. QED
      BY <2>1, RunMoves DEF Drafters
  <1>5. \A b \in Branches : Joined(b)' <=> b \in Drafters
    <2>1. \A b \in Branches : clock'[b] = IF b \in StartupClocks THEN "running"
                                                                ELSE clock[b]
      BY DEF FloorTypeOK
    <2>2. \A b \in Branches : b \in StartupClocks <=> b \in Drafters
      BY DEF StartupClocks, Drafters, Branches, Regulators, AffectedParty
    <2>3. \A b \in Branches \ Drafters : clock[b] = "none"
      BY <1>0 DEF Running, LoopOK, CustomersOK, Joined, Branches, Regulators,
                  Drafters, Ending
    <2>4. QED
      BY <2>1, <2>2, <2>3 DEF Joined
  <1>6. FloorTypeOK'
    <2>1. state' \in [Branches -> State]
      BY NextStateTyped DEF FloorTypeOK, Triage
    <2>2. clock' \in [Branches \cup StartupClocks -> {"none", "running", "stopped"}]
      BY DEF FloorTypeOK
    <2>3. QED
      BY <1>1, <1>2, <2>1, <2>2 DEF FloorTypeOK, lockVars
  <1> HIDE DEF IInv, Open
  <1>7. /\ UNCHANGED <<scenario, claims, ran, lockVars, guard, conflict, receipts>>
        /\ step = "open" /\ FloorTypeOK /\ RoundsOK
        /\ hold' = IF scenario.mode = "legal_hold" THEN "active" ELSE hold
    BY DEF Open, IInv
  <1>8. RoundsOK'
    BY <1>7 DEF RoundsOK, RoundFacts, lockVars
  <1>a. \A b \in Branches :
          /\ ~Joined(b) /\ filed[b] = <<>> /\ claims[b] = NoClaims
          /\ state[b] = "initiated" /\ (b \in Drafters <=> InRun(b))
    <2>1. \A b \in Regulators : ~Joined(b)
      BY <1>0, <1>7 DEF Running, RunOK, LoopOK, Regulators, Drafters
    <2>2. \A b \in Regulators : filed[b] = <<>> /\ claims[b] = NoClaims
                                /\ state[b] = "initiated"
      BY <1>0, <2>1 DEF Running, RunOK, Live
    <2>3. \A b \in Regulators : InRun(b) => b \in Drafters
      BY <1>0, <1>7, <2>1 DEF Running, RunOK
    <2>4. \A b \in Drafters : InRun(b)
      BY <1>0, <1>7 DEF Running, RunOK, Regulators, Drafters
    <2>5. ~Joined(AffectedParty)
      BY <1>0, <1>7 DEF Running, CustomersOK, Ending
    <2>6. /\ filed[AffectedParty] = <<>> /\ claims[AffectedParty] = NoClaims
          /\ state[AffectedParty] = "initiated" /\ ~InRun(AffectedParty)
      BY <1>0, <2>5 DEF Running, CustomersOK
    <2>7. AffectedParty \notin Drafters
      BY DEF Drafters, AffectedParty
    <2>8. QED
      BY <2>1, <2>2, <2>3, <2>4, <2>5, <2>6, <2>7 DEF Branches
  <1>b. \A b \in Branches :
          /\ filed'[b] = <<>> /\ claims'[b] = NoClaims /\ (InRun(b)' <=> InRun(b))
          /\ state'[b] = IF b \in Drafters THEN "fact_record_ready" ELSE "initiated"
    BY <1>4, <1>7, <1>a DEF lockVars, InRun
  <1>9. LoopOK'
    BY <1>0, <1>1, <1>2, <1>5, <1>7
       DEF Running, LoopOK, Wanted, lockVars, Branches, Regulators, Drafters,
           Releases, Amends
  <1>10. RunOK'
    BY <1>3, <1>5, <1>a, <1>b DEF RunOK, Live, Branches
  <1>11. LiveOK'
    <2>1. SUFFICES ASSUME NEW b \in Regulators, Live(b)'
                   PROVE  /\ state'[b] = Stage(b)' /\ claims'[b] = Asserts(b)'
                          /\ Len(filed'[b]) = Versions(b)'
      BY DEF LiveOK
    <2>2. b \in Drafters /\ state'[b] = "fact_record_ready"
          /\ claims'[b] = NoClaims /\ filed'[b] = <<>>
      BY <1>5, <1>b, <2>1 DEF Live, Branches
    <2>3. step' \in {"reportability", "drafting"} => InTodo(b)'
      BY <1>2, <2>2, VisitsAre
    <2>4. Stage(b)' = "fact_record_ready" /\ Asserts(b)' = NoClaims
          /\ Versions(b)' = 0
      <3>1. CASE step' = "drafting"
        BY <2>3, <3>1 DEF Stage, Asserts, Versions, Early, Joining, Ending
      <3>2. CASE step' \in {"materiality", "reportability"}
        BY <3>2 DEF Stage, Asserts, Versions, Early, Joining, Ending
      <3>3. QED
        BY <1>1, <1>2, <3>1, <3>2
    <2>5. Len(<<>>) = 0
      OBVIOUS
    <2>6. QED
      BY <2>2, <2>4, <2>5
  <1>12. ClocksOK'
    BY <1>b DEF ClocksOK
  <1>13. CustomersOK'
    BY <1>0, <1>3, <1>4, <1>5, <1>7
       DEF Running, CustomersOK, Branches, lockVars, AffectedParty, Drafters, InRun,
           Ending
  <1>14. KeysOK' /\ DutyOK'
    BY <1>0, <1>1, <1>2, <1>7
       DEF Running, LoopOK, KeysOK, DutyOK, Early, Ending, lockVars, Signing,
           Releases
  <1>15. QED
    BY <1>3, <1>6, <1>8, <1>9, <1>10, <1>11, <1>12, <1>13, <1>14, AssembleIInv
       DEF Running

\* Before the drafts every branch of the run is a drafter's, and nothing is filed.
LEMMA BeforeDrafts ==
  ASSUME FloorTypeOK, Running,
         step \in {"materiality", "reportability", "drafting"}
  PROVE  /\ \A b \in Regulators : Joined(b) <=> b \in Drafters
         /\ \A b \in Branches : filed[b] = <<>>
         /\ ~Joined(AffectedParty) /\ hold # "released"
         /\ lock = "idle" /\ guard = "empty" /\ conflict # "blocked"
  <1> USE DEF Running
  <1>1. \A b \in Regulators : Joined(b) <=> b \in Drafters
    BY DEF RunOK, LoopOK, Regulators, Drafters
  <1>2. \A b \in Regulators : filed[b] = <<>>
    <2>1. SUFFICES ASSUME NEW b \in Regulators, Live(b)
                   PROVE  filed[b] = <<>>
      BY DEF RunOK
    <2>2. Versions(b) = 0
      BY DEF Versions, Early, Ending
    <2>3. filed[b] \in Seq(Claims) /\ Len(filed[b]) = 0
      BY <2>1, <2>2 DEF LiveOK, FloorTypeOK, Branches
    <2>4. QED
      BY <2>3, EmptySeq
  <1>3. ~Joined(AffectedParty) /\ filed[AffectedParty] = <<>>
    BY DEF CustomersOK, Ending
  <1>4. lock = "idle" /\ hold # "released" /\ conflict # "blocked"
        /\ guard = "empty"
    BY DEF LoopOK, DutyOK, Ending, Releases, Early
  <1>5. QED
    BY <1>1, <1>2, <1>3, <1>4 DEF Branches

\* A verdict may suppress the branch it is about, and touches no other.
LEMMA JudgeIInv ==
  ASSUME IInv, step \in {"materiality", "reportability"},
         NEW b \in Drafters, NEW reportable \in BOOLEAN, Judge(b, reportable),
         step = "materiality" => b = "sec",
         step' \in {"reportability", "drafting"}, Wanted(step'),
         todo' \in Seq(Branches), TodoOK',
         step' = "drafting" => \A c \in Drafters : InTodo(c)'
  PROVE  IInv'
  <1>1. FloorTypeOK /\ RoundsOK /\ Running /\ ~CutShort
    BY DEF IInv, Running, CutShort
  <1>2. /\ UNCHANGED <<scenario, claims, ran, lockVars, dutyVars>>
        /\ state' = IF reportable THEN state
                                  ELSE [state EXCEPT ![b] = Suppress(@)]
        /\ clock' = IF reportable THEN clock ELSE [clock EXCEPT ![b] = "stopped"]
    BY DEF Judge
  <1>3. /\ \A c \in Regulators : Joined(c) <=> c \in Drafters
        /\ \A c \in Branches : filed[c] = <<>>
        /\ ~Joined(AffectedParty) /\ hold # "released"
        /\ lock = "idle" /\ guard = "empty" /\ conflict # "blocked"
    BY <1>1, BeforeDrafts
  <1>4. b \in Branches /\ b \in Regulators /\ b # AffectedParty
    BY DEF Drafters, Branches, Regulators, AffectedParty
  <1>5. Suppress(state[b]) = "suppressed"
    <2>1. Live(b) => state[b] = "fact_record_ready"
      <3>1. Stage(b) = "fact_record_ready"
        BY DEF Stage, Joining
      <3>2. QED
        BY <1>1, <1>4, <3>1 DEF Running, LiveOK
    <2>2. Live(b) \/ state[b] = "suppressed"
      BY <1>3, <1>4 DEF Live
    <2>3. QED
      BY <2>1, <2>2, RunMoves
  <1>6. /\ \A c \in Branches : c # b => state'[c] = state[c] /\ clock'[c] = clock[c]
        /\ \/ state'[b] = state[b] /\ clock'[b] = clock[b]
           \/ state'[b] = "suppressed" /\ clock'[b] = "stopped"
    BY <1>1, <1>2, <1>4, <1>5 DEF FloorTypeOK
  <1>7. \A c \in Branches : Joined(c)' <=> Joined(c)
    BY <1>3, <1>4, <1>6 DEF Joined
  <1>8. FloorTypeOK'
    <2>1. state' \in [Branches -> State]
      BY <1>1, <1>2, <1>5 DEF FloorTypeOK, State
    <2>2. clock' \in [Branches \cup StartupClocks -> {"none", "running", "stopped"}]
      BY <1>1, <1>2 DEF FloorTypeOK
    <2>3. step' \in Steps
      BY StepsAre DEF PhaseNames
    <2>4. QED
      BY <1>1, <1>2, <2>1, <2>2, <2>3 DEF FloorTypeOK, lockVars, dutyVars
  <1>9. RoundsOK'
    BY <1>1, <1>2 DEF RoundsOK, RoundFacts, lockVars
  <1>10. LoopOK'
    BY <1>1, <1>2, <1>3, <1>7
       DEF Running, LoopOK, lockVars, Wanted, Amends, Branches, Regulators
  <1>11. RunOK'
    <2>1. SUFFICES ASSUME NEW c \in Regulators PROVE
             /\ InRun(c)' <=> Joined(c)'
             /\ c \in Drafters => Joined(c)'
             /\ ~Joined(c)' => state'[c] = "initiated" /\ claims'[c] = NoClaims
             /\ state'[c] = "suppressed" =>
                  /\ scenario'.mode = "reportability"
                       \/ (scenario'.materiality /\ c = "sec")
                  /\ clock'[c] = "stopped" /\ c \in Drafters
                  /\ claims'[c] = NoClaims
             /\ filed'[c] = <<>>
      BY DEF RunOK
    <2>2. c \in Branches /\ InRun(c)' = InRun(c) /\ claims'[c] = claims[c]
          /\ filed'[c] = <<>> /\ scenario' = scenario
      BY <1>2, <1>3 DEF InRun, Branches, lockVars
    <2>3. claims[c] = NoClaims
      <3>1. Asserts(c) = NoClaims
        BY DEF Asserts, Joining, Ending
      <3>2. QED
        BY <1>1, <3>1 DEF Running, RunOK, LiveOK, Live, Early
    <2>4. step = "reportability" => scenario.mode = "reportability"
      BY <1>1 DEF Running, LoopOK, Wanted
    <2>5. step = "materiality" => scenario.materiality
      BY <1>1 DEF Running, LoopOK, Wanted
    <2>6. InRun(c) <=> Joined(c)
      BY <1>1 DEF Running, RunOK
    <2>7. state[c] = "suppressed" =>
                  /\ scenario.mode = "reportability"
                       \/ (scenario.materiality /\ c = "sec")
                  /\ clock[c] = "stopped"
      BY <1>1 DEF Running, RunOK
    <2>8. ~Joined(c) => state[c] = "initiated"
      BY <1>1 DEF Running, RunOK
    <2>9. state'[c] = "suppressed" =>
                  /\ scenario.mode = "reportability"
                       \/ (scenario.materiality /\ c = "sec")
                  /\ clock'[c] = "stopped" /\ c \in Drafters
      BY <1>3, <1>6, <2>2, <2>4, <2>5, <2>7, <2>8
    <2>10. ~Joined(c) => state'[c] = "initiated"
      BY <1>3, <1>6, <2>2, <2>8
    <2>11. QED
      BY <1>3, <1>7, <2>2, <2>3, <2>6, <2>9, <2>10
  <1>12. LiveOK'
    <2>1. SUFFICES ASSUME NEW c \in Regulators, Live(c)'
                   PROVE  /\ state'[c] = Stage(c)' /\ claims'[c] = Asserts(c)'
                          /\ Len(filed'[c]) = Versions(c)'
      BY DEF LiveOK
    <2>2. c \in Branches /\ Live(c) /\ state'[c] = state[c]
          /\ claims'[c] = claims[c] /\ filed'[c] = <<>> /\ c \in Drafters
      BY <1>2, <1>3, <1>6, <1>7, <2>1 DEF Live, Branches, lockVars
    <2>3. Stage(c) = "fact_record_ready" /\ Asserts(c) = NoClaims
      BY DEF Stage, Asserts, Joining, Ending
    <2>4. Stage(c)' = "fact_record_ready" /\ Asserts(c)' = NoClaims
          /\ Versions(c)' = 0
      <3>1. CASE step' = "drafting"
        <4>1. InTodo(c)'
          BY <2>2, <3>1
        <4>2. QED
          BY <3>1, <4>1 DEF Stage, Asserts, Versions, Early, Joining, Ending
      <3>2. CASE step' = "reportability"
        BY <3>2 DEF Stage, Asserts, Versions, Early, Joining, Ending
      <3>3. QED
        BY <3>1, <3>2
    <2>5. Len(<<>>) = 0
      OBVIOUS
    <2>6. QED
      BY <1>1, <2>2, <2>3, <2>4, <2>5 DEF Running, LiveOK
  <1>13. ClocksOK'
    BY <1>2, <1>3 DEF ClocksOK, lockVars
  <1>14. CustomersOK'
    BY <1>1, <1>2, <1>3, <1>4, <1>6, <1>7
       DEF Running, CustomersOK, lockVars, InRun, Ending, Branches
  <1>15. KeysOK' /\ DutyOK'
    BY <1>1, <1>2, <1>3
       DEF Running, KeysOK, DutyOK, Early, Ending, lockVars, dutyVars, Signing
  <1>16. QED
    BY <1>8, <1>9, <1>10, <1>11, <1>12, <1>13, <1>14, <1>15, AssembleIInv
       DEF Running, CutShort
-----------------------------------------------------------------------------
(***************************************************************************)
(* Steps that neither open a release nor file: it is enough to look at the *)
(* live branches of the regulators.                                        *)
(***************************************************************************)
LEMMA StageLives ==
  ASSUME NEW b PROVE Stage(b) # "suppressed"
  BY DEF Stage

LEMMA StageLivesNext ==
  ASSUME NEW b PROVE Stage(b)' # "suppressed"
  BY DEF Stage

\* Who is in the run, and who is out of it, does not change.
LEMMA RunFrame ==
  ASSUME FloorTypeOK, RunOK, step # "open", step' # "open",
         scenario' = scenario, \A b \in Regulators : InRun(b)' <=> InRun(b),
         \A b \in Regulators : clock[b] = "stopped" => clock'[b] = "stopped",
         \A b \in Regulators : Joined(b)' <=> Joined(b),
         \A b \in Regulators : ~Live(b) => filed'[b] = filed[b]
                                           /\ state'[b] = state[b],
         \A b \in Regulators : ~Joined(b) => claims'[b] = claims[b],
         \A b \in Regulators : Live(b) => state'[b] # "suppressed",
         step' \in Early => /\ step \in Early
                           /\ \A b \in Regulators :
                                ~Live(b) => claims'[b] = claims[b]
  PROVE  RunOK' /\ \A b \in Regulators : Live(b)' <=> Live(b)
  <1>1. ASSUME NEW b \in Regulators
        PROVE  Live(b)' <=> Live(b)
    BY <1>1 DEF Live
  <1>2. ASSUME NEW b \in Regulators
        PROVE  /\ InRun(b)' <=> Joined(b)'
               /\ b \in Drafters => Joined(b)'
               /\ ~Joined(b)' => state'[b] = "initiated" /\ claims'[b] = NoClaims
               /\ ~Live(b)' => filed'[b] = <<>>
    BY <1>1, <1>2 DEF RunOK, Live
  <1>3. ASSUME NEW b \in Regulators, state'[b] = "suppressed"
        PROVE  /\ scenario'.mode = "reportability"
                    \/ (scenario'.materiality /\ b = "sec")
               /\ clock'[b] = "stopped" /\ b \in Drafters
               /\ step' \in Early => claims'[b] = NoClaims
    <2>1. ~Live(b) /\ state[b] = "suppressed"
      BY <1>3
    <2>2. QED
      BY <1>3, <2>1 DEF RunOK
  <1>4. QED
    BY <1>1, <1>2, <1>3 DEF RunOK

LEMMA QuietIInv ==
  ASSUME IInv, ~CutShort, step # "open", lock = "idle",
         UNCHANGED <<scenario, ran, clock, filed, keys, lock, signers>>,
         step' \in Steps \ {"open", "raised", "interrupted"},
         todo' \in Seq(Branches), TodoOK', Wanted(step'),
         state' \in [Branches -> State],
         claims' \in [Branches -> Claims \cup {NoClaims}],
         guard' \in {"empty", "proposed", "concurred"},
         conflict' \in {"none", "blocked", "resolved"},
         hold' \in {"none", "active", "released"}, receipts' \subseteq Branches,
         DutyOK',
         step' = "resolve" => scenario.mode = "inject_contradiction",
         step' = "cross_border_signoff" => scenario.mode = "cross_border",
         step' \in {"materiality", "reportability", "drafting", "recruit_uk",
                    "recruit_nydfs"} => step = "drafting",
         step' \in Early => step \in Early,
         state'[AffectedParty] = state[AffectedParty],
         claims'[AffectedParty] = claims[AffectedParty],
         Joined(AffectedParty) => step' \in Ending,
         \A b \in Regulators :
           Live(b) => /\ state'[b] = Stage(b)' /\ claims'[b] = Asserts(b)'
                      /\ Versions(b)' = Versions(b),
         \A b \in Regulators :
           ~Live(b) => /\ state'[b] = state[b]
                       /\ ~Joined(b) \/ step' \in Early => claims'[b] = claims[b]
  PROVE  IInv'
  <1>1. FloorTypeOK /\ RoundsOK /\ Running
    BY DEF IInv, Running
  <1>2. FloorTypeOK'
    BY <1>1 DEF FloorTypeOK
  <1>3. RoundsOK'
    BY <1>1 DEF RoundsOK, RoundFacts
  <1>4. \A b : Joined(b)' <=> Joined(b)
    BY DEF Joined
  <1>5. \A b : InRun(b)' <=> InRun(b)
    BY DEF InRun
  <1>6. LoopOK'
    BY <1>1, <1>4 DEF Running, LoopOK, Wanted, Amends
  <1>7. RunOK' /\ \A b \in Regulators : Live(b)' <=> Live(b)
    <2>1. \A b \in Regulators : Live(b) => state'[b] # "suppressed"
      BY StageLivesNext
    <2>2. \A b \in Regulators : ~Live(b) => filed'[b] = filed[b]
                                           /\ state'[b] = state[b]
      OBVIOUS
    <2>3. \A b \in Regulators : ~Joined(b) => claims'[b] = claims[b]
      BY DEF Live
    <2>4. step' \in Early => /\ step \in Early
                            /\ \A b \in Regulators :
                                 ~Live(b) => claims'[b] = claims[b]
      OBVIOUS
    <2>5. QED
      BY <1>1, <1>4, <1>5, <2>1, <2>2, <2>3, <2>4, RunFrame DEF Running
  <1>8. LiveOK'
    BY <1>1, <1>7 DEF Running, LiveOK
  <1>9. ClocksOK'
    BY <1>1, <1>4 DEF Running, ClocksOK
  <1>10. CustomersOK'
    <2>1. ~Joined(AffectedParty) =>
            /\ state'[AffectedParty] = "initiated"
            /\ claims'[AffectedParty] = NoClaims
            /\ filed'[AffectedParty] = <<>> /\ ~InRun(AffectedParty)'
      BY <1>1, <1>5 DEF Running, CustomersOK
    <2>2. Joined(AffectedParty) =>
            /\ scenario'.mode = "affected_party"
            /\ state'[AffectedParty] = "released" /\ InRun(AffectedParty)'
            /\ filed'[AffectedParty] = <<claims'[AffectedParty]>>
      BY <1>1, <1>5 DEF Running, CustomersOK
    <2>3. QED
      BY <1>4, <2>1, <2>2 DEF CustomersOK
  <1>11. KeysOK'
    BY <1>1 DEF Running, KeysOK, Signing
  <1>12. QED
    BY <1>2, <1>3, <1>6, <1>7, <1>8, <1>9, <1>10, <1>11, AssembleIInv
       DEF Running, CutShort
LEMMA IInvParts ==
  ASSUME IInv, ~CutShort
  PROVE  FloorTypeOK /\ RoundsOK /\ Running /\ TodoOK /\ OnceEach(ran)
  BY DEF IInv, Running, LoopOK

LEMMA MaterialityIInv == ASSUME IInv, Materiality PROVE IInv'
  <1>1. step = "materiality" /\ Proceed(step) /\ ran' = ran
    BY DEF Materiality, Judge
  <1>2. ~CutShort /\ FloorTypeOK /\ Running /\ OnceEach(ran)
    BY <1>1, IInvParts DEF CutShort
  <1>3. After(step) = "drafting"
    BY <1>1, <1>2, AfterTable DEF Running, LoopOK, Wanted, FloorTypeOK
  <1>4. /\ step' = "drafting" /\ todo' \in Seq(Branches) /\ TodoOK'
        /\ \A b : InTodo(b)' <=> b \in Visits("drafting")
    BY <1>1, <1>2, <1>3, ProceedFacts, StepsAre DEF PhaseNames
  <1>5. Wanted(step')
    BY <1>4 DEF Wanted
  <1>6. PICK primary \in BOOLEAN, second \in BOOLEAN :
          Judge("sec", Reconcile(primary, second))
    BY DEF Materiality
  <1>7. Reconcile(primary, second) \in BOOLEAN
    BY DEF Reconcile
  <1>8. "sec" \in Drafters
    BY DEF Drafters
  <1>9. QED
    BY <1>1, <1>4, <1>5, <1>6, <1>7, <1>8, VisitsAre, JudgeIInv

LEMMA ReportabilityIInv == ASSUME IInv, Reportability PROVE IInv'
  <1>1. step = "reportability" /\ NextBranch /\ ran' = ran
    BY DEF Reportability, Judge
  <1>2. ~CutShort /\ FloorTypeOK /\ Running /\ TodoOK /\ OnceEach(ran)
    BY <1>1, IInvParts DEF CutShort
  <1>3. After(step) = "drafting" /\ step \in Loops /\ "drafting" \in Steps
    BY <1>1, <1>2, AfterTable, StepsAre
       DEF Running, LoopOK, FloorTypeOK, Loops, PhaseNames
  <1>4. /\ todo' \in Seq(Branches) /\ TodoOK'
        /\ \/ step' = "reportability"
           \/ step' = "drafting" /\ \A b : InTodo(b)' <=> b \in Visits("drafting")
    BY <1>1, <1>2, <1>3, NextBranchFacts
  <1>5. Wanted(step')
    BY <1>1, <1>2, <1>4 DEF Wanted, Running, LoopOK
  <1>6. PICK reportable \in BOOLEAN : Judge(Head(todo), reportable)
    BY DEF Reportability
  <1>7. Head(todo) \in Drafters
    BY <1>1, <1>2, <1>3, HeadFacts, VisitsAre DEF TodoOK
  <1>8. QED
    BY <1>1, <1>4, <1>5, <1>6, <1>7, VisitsAre, JudgeIInv

\* A step of the drafting loop leaves the branch it visits with a draft, if the
\* branch is not suppressed.
LEMMA VisitIInv ==
  ASSUME IInv, step = "drafting", NextBranch, NEW b, b = Head(todo),
         UNCHANGED <<scenario, ran, lockVars, clock, dutyVars>>,
         \/ state[b] = "suppressed" /\ UNCHANGED <<state, claims>>
         \/ /\ state[b] # "suppressed"
            /\ state' = [state EXCEPT
                           ![b] = Drafter(Drafter(@, "draft_started"), "draft_posted")]
            /\ claims' = [claims EXCEPT ![b] = ClaimFactsFor(b)]
  PROVE  IInv'
  <1>1. FloorTypeOK /\ RoundsOK /\ Running /\ TodoOK /\ OnceEach(ran) /\ ~CutShort
    BY IInvParts DEF CutShort
  <1>2. /\ \A c \in Regulators : Joined(c) <=> c \in Drafters
        /\ ~Joined(AffectedParty) /\ hold # "released"
        /\ lock = "idle" /\ guard = "empty" /\ conflict # "blocked"
    BY <1>1, BeforeDrafts
  <1>3. /\ After(step) \in {"recruit_uk", "recruit_nydfs", "cross_border", "diff"}
        /\ After(step) \in Steps /\ After(step) # "release" /\ step \in Loops
        /\ Wanted(After(step))
    BY <1>1, AfterTable, StepsAre DEF FloorTypeOK, Loops, PhaseNames
  <1>4. /\ step' \in Steps /\ todo' \in Seq(Branches) /\ TodoOK'
        /\ \/ /\ step' = "drafting"
              /\ \A c : InTodo(c)' <=> InTodo(c) /\ c # b
           \/ /\ step' = After(step)
              /\ \A c : InTodo(c) => c = b
    BY <1>1, <1>3, NextBranchFacts
  <1>5. b \in Drafters /\ b \in Branches /\ b \in Regulators /\ b # AffectedParty
        /\ InTodo(b)
    <2>1. b \in Visits(step) /\ InTodo(b)
      BY <1>1, <1>3, HeadFacts DEF TodoOK
    <2>2. QED
      BY <2>1, VisitsAre DEF Drafters, Branches, Regulators, AffectedParty
  <1>6. Wanted(step') /\ step' \in {"drafting", "recruit_uk", "recruit_nydfs",
                                    "cross_border", "diff"}
    BY <1>3, <1>4 DEF Wanted
  <1>7. state[b] # "suppressed" =>
          Drafter(Drafter(state[b], "draft_started"), "draft_posted")
            = "draft_submitted"
    <2>1. Stage(b) = "fact_record_ready"
      BY <1>5 DEF Stage, Joining
    <2>2. Live(b) => state[b] = "fact_record_ready"
      BY <1>1, <1>5, <2>1 DEF Running, LiveOK
    <2>3. QED
      BY <1>2, <1>5, <2>2, RunMoves DEF Live
  <1>8. /\ \A c \in Branches : c # b => state'[c] = state[c] /\ claims'[c] = claims[c]
        /\ state[b] = "suppressed" => state'[b] = state[b] /\ claims'[b] = claims[b]
        /\ state[b] # "suppressed" => /\ state'[b] = "draft_submitted"
                                      /\ claims'[b] = ClaimFactsFor(b)
        /\ state' \in [Branches -> State]
        /\ claims' \in [Branches -> Claims \cup {NoClaims}]
    <2>1. state \in [Branches -> State]
          /\ claims \in [Branches -> Claims \cup {NoClaims}]
      BY <1>1 DEF FloorTypeOK
    <2>2. CASE state[b] = "suppressed"
      BY <2>1, <2>2
    <2>3. CASE state[b] # "suppressed"
      <3>1. state' = [state EXCEPT ![b] = "draft_submitted"]
        BY <1>7, <2>3
      <3>2. "draft_submitted" \in State /\ ClaimFactsFor(b) \in Claims
        BY FactsDiffer DEF State
      <3>3. QED
        BY <1>5, <2>1, <2>3, <3>1, <3>2
    <2>4. QED
      BY <2>2, <2>3
  <1>9. ASSUME NEW c \in Regulators, Live(c)
        PROVE  /\ state'[c] = Stage(c)' /\ claims'[c] = Asserts(c)'
               /\ Versions(c)' = Versions(c)
    <2>1. state[c] = Stage(c) /\ claims[c] = Asserts(c) /\ c \in Branches
      BY <1>1, <1>9 DEF Running, LiveOK, Branches
    <2>2. Versions(c) = 0 /\ Versions(c)' = 0
      BY <1>6 DEF Versions, Early, Joining, Ending
    <2>3. ClaimFactsFor(c)' = ClaimFactsFor(c)
      BY DEF ClaimFactsFor
    <2>4. /\ InTodo(c) => Stage(c) = "fact_record_ready" /\ Asserts(c) = NoClaims
          /\ ~InTodo(c) => Stage(c) = "draft_submitted"
                           /\ Asserts(c) = ClaimFactsFor(c)
      BY DEF Stage, Asserts, Joining, Ending
    <2>5. /\ c = b => state'[c] = "draft_submitted" /\ claims'[c] = ClaimFactsFor(c)
          /\ c # b => state'[c] = state[c] /\ claims'[c] = claims[c]
      BY <1>8, <1>9, <2>1 DEF Live
    <2>6. CASE step' = "drafting"
      <3>1. /\ InTodo(c)' => /\ Stage(c)' = "fact_record_ready"
                             /\ Asserts(c)' = NoClaims
            /\ ~InTodo(c)' => /\ Stage(c)' = "draft_submitted"
                              /\ Asserts(c)' = ClaimFactsFor(c)
        BY <2>3, <2>6 DEF Stage, Asserts, Joining, Ending
      <3>2. InTodo(c)' <=> InTodo(c) /\ c # b
        BY <1>3, <1>4, <2>6
      <3>3. QED
        BY <2>1, <2>2, <2>4, <2>5, <3>1, <3>2
    <2>7. CASE step' \in {"recruit_uk", "recruit_nydfs", "cross_border", "diff"}
      <3>1. Stage(c)' = "draft_submitted"
        BY <2>7 DEF Stage, Joining
      <3>2. Asserts(c)' = ClaimFactsFor(c)
        BY <2>3, <2>7 DEF Asserts, Joining, Ending
      <3>3. c # b => ~InTodo(c)
        BY <1>3, <1>4, <2>7
      <3>4. QED
        BY <2>1, <2>2, <2>4, <2>5, <3>1, <3>2, <3>3
    <2>8. QED
      BY <1>6, <2>6, <2>7
  <1>10. \A c \in Regulators :
           ~Live(c) => state'[c] = state[c] /\ claims'[c] = claims[c]
    BY <1>2, <1>5, <1>8 DEF Live, Branches
  <1>11. DutyOK'
    BY <1>1, <1>2, <1>6 DEF DutyOK, Early, Joining, Ending, dutyVars, Running
  <1>12. step' \in Early => step \in Early
    BY DEF Early
  <1>13. AffectedParty \in Branches
    BY DEF Branches
  <1>14. QED
    BY <1>1, <1>2, <1>4, <1>5, <1>6, <1>8, <1>9, <1>10, <1>11, <1>12, <1>13,
       QuietIInv DEF FloorTypeOK, lockVars, dutyVars

LEMMA DraftingIInv == ASSUME IInv, SkipSuppressed \/ Draft PROVE IInv'
  <1>1. CASE SkipSuppressed
    BY <1>1, VisitIInv DEF SkipSuppressed, branchVars
  <1>2. CASE Draft
    BY <1>2, VisitIInv DEF Draft
  <1>3. QED
    BY <1>1, <1>2

\* A jurisdiction joins with a draft of the canonical facts.
LEMMA RecruitIInv == ASSUME IInv, Recruit PROVE IInv'
  <1> DEFINE b == Head(todo)
  <1>0. /\ step \in {"recruit_uk", "recruit_nydfs"} /\ Proceed(step)
        /\ UNCHANGED <<scenario, lockVars, dutyVars>> /\ ran' = Append(ran, b)
        /\ clock' = [clock EXCEPT ![b] = "running"]
        /\ state' = [state EXCEPT ![b] = Drafter(Drafter(
                 Triage(@, "fact_record_posted"), "draft_started"), "draft_posted")]
        /\ claims' = [claims EXCEPT ![b] = CanonicalFacts]
    BY DEF Recruit, Joins
  <1>1. FloorTypeOK /\ RoundsOK /\ Running /\ TodoOK /\ OnceEach(ran) /\ ~CutShort
    BY <1>0, IInvParts DEF CutShort
  <1>2. /\ step = "recruit_uk" => b = "uk"
        /\ step = "recruit_nydfs" => b = "nydfs"
        /\ b \in Regulators /\ b \in Branches /\ b # AffectedParty /\ b \notin Drafters
    <2>1. todo # <<>> /\ step \in Loops
      BY <1>0, <1>1 DEF TodoOK, Loops
    <2>2. b \in Visits(step)
      BY <1>1, <2>1, HeadFacts
    <2>3. QED
      BY <1>0, <2>2, VisitsAre DEF Regulators, Branches, AffectedParty, Drafters
  <1>3. ~Joined(b) /\ (step = "recruit_uk" => ~Joined("nydfs"))
    BY <1>0, <1>1, <1>2 DEF Running, LoopOK
  <1>4. /\ step' \in {"recruit_nydfs", "cross_border", "diff"} /\ step' \in Steps
        /\ todo' \in Seq(Branches) /\ TodoOK' /\ Wanted(step')
        /\ step' = "recruit_nydfs" => step = "recruit_uk"
    <2>1. /\ After(step) \in {"recruit_nydfs", "cross_border", "diff"}
          /\ After(step) \in Steps /\ Wanted(After(step))
          /\ After(step) = "recruit_nydfs" => step = "recruit_uk"
      BY <1>0, <1>1, AfterTable, StepsAre DEF FloorTypeOK, PhaseNames
    <2>2. QED
      BY <1>0, <1>1, <2>1, ProceedFacts
  <1>5. /\ state[b] = "initiated" /\ filed[b] = <<>> /\ ~InRun(b)
    BY <1>0, <1>1, <1>2, <1>3 DEF Running, RunOK, Live
  <1>6. Drafter(Drafter(Triage(state[b], "fact_record_posted"), "draft_started"),
                "draft_posted") = "draft_submitted"
    BY <1>5, RunMoves
  <1>7. ~Joined(AffectedParty)
    BY <1>0, <1>1 DEF Running, CustomersOK, Ending
  <1>8. /\ state' \in [Branches -> State]
        /\ claims' \in [Branches -> Claims \cup {NoClaims}]
        /\ clock' \in [Branches \cup StartupClocks -> {"none", "running", "stopped"}]
        /\ state'[b] = "draft_submitted" /\ claims'[b] = CanonicalFacts
        /\ clock'[b] = "running"
        /\ \A c \in Branches : c # b => /\ state'[c] = state[c]
                                        /\ claims'[c] = claims[c]
                                        /\ clock'[c] = clock[c]
    <2>1. /\ state \in [Branches -> State]
          /\ claims \in [Branches -> Claims \cup {NoClaims}]
          /\ clock \in [Branches \cup StartupClocks -> {"none", "running", "stopped"}]
      BY <1>1 DEF FloorTypeOK
    <2>2. state' = [state EXCEPT ![b] = "draft_submitted"]
      BY <1>0, <1>6
    <2>3. "draft_submitted" \in State /\ CanonicalFacts \in Claims
      BY FactsDiffer DEF State
    <2> HIDE DEF b
    <2>4. QED
      BY <1>0, <1>2, <2>1, <2>2, <2>3
  <1>9. /\ ran' \in Seq(Branches) /\ OnceEach(ran')
        /\ \A c : InRun(c)' <=> InRun(c) \/ c = b
    <2> HIDE DEF b
    <2>1. ran \in Seq(Branches) /\ ~\E i \in DOMAIN ran : ran[i] = b
      BY <1>1, <1>5 DEF FloorTypeOK, InRun
    <2>2. /\ Append(ran, b) \in Seq(Branches) /\ OnceEach(Append(ran, b))
          /\ \A c : (\E i \in DOMAIN Append(ran, b) : Append(ran, b)[i] = c)
                      <=> (\E i \in DOMAIN ran : ran[i] = c) \/ c = b
      BY <1>1, <1>2, <2>1, JoinFacts
    <2>3. QED
      BY <1>0, <2>2 DEF InRun
  <1> HIDE DEF b
  <1>10. \A c \in Branches : Joined(c)' <=> Joined(c) \/ c = b
    BY <1>8 DEF Joined
  <1>11. FloorTypeOK'
    BY <1>0, <1>1, <1>4, <1>8, <1>9 DEF FloorTypeOK, lockVars, dutyVars
  <1>12. RoundsOK'
    BY <1>0, <1>1 DEF RoundsOK, RoundFacts, lockVars
  <1>13. LoopOK'
    <2>1. step' = "recruit_nydfs" => ~Joined("nydfs")'
      BY <1>2, <1>3, <1>4, <1>10 DEF Branches, Regulators
    <2>2. lock = "idle"
      BY <1>0, <1>1 DEF Running, LoopOK, Releases
    <2>3. Wanted(step)'
      BY <1>0, <1>4 DEF Wanted, Amends
    <2>4. QED
      BY <1>0, <1>4, <1>9, <2>1, <2>2, <2>3 DEF LoopOK, lockVars
  <1>14. RunOK'
    <2>1. SUFFICES ASSUME NEW c \in Regulators PROVE
             /\ InRun(c)' <=> Joined(c)'
             /\ c \in Drafters => Joined(c)'
             /\ ~Joined(c)' => state'[c] = "initiated" /\ claims'[c] = NoClaims
             /\ state'[c] = "suppressed" =>
                  /\ scenario'.mode = "reportability"
                       \/ (scenario'.materiality /\ c = "sec")
                  /\ clock'[c] = "stopped" /\ c \in Drafters
                  /\ claims'[c] = NoClaims
             /\ ~Live(c)' => filed'[c] = <<>>
      BY <1>4 DEF RunOK
    <2>2. CASE c = b
      BY <1>0, <1>2, <1>5, <1>8, <1>9, <1>10, <2>2 DEF lockVars
    <2>3. CASE c # b
      <3>1. c \in Branches
        BY DEF Branches
      <3>2. /\ state'[c] = state[c] /\ claims'[c] = claims[c]
            /\ clock'[c] = clock[c] /\ filed'[c] = filed[c]
            /\ InRun(c)' <=> InRun(c)
            /\ Joined(c)' <=> Joined(c)
            /\ Live(c)' <=> Live(c)
        BY <1>0, <1>8, <1>9, <1>10, <2>3, <3>1 DEF lockVars, Live
      <3>3. step \in Early
        BY <1>0 DEF Early, Joining
      <3>4. QED
        BY <1>0, <1>1, <3>2, <3>3 DEF Running, RunOK
    <2>4. QED
      BY <2>2, <2>3
  <1>15. LiveOK'
    <2>1. SUFFICES ASSUME NEW c \in Regulators, Live(c)'
                   PROVE  /\ state'[c] = Stage(c)' /\ claims'[c] = Asserts(c)'
                          /\ Len(filed'[c]) = Versions(c)'
      BY DEF LiveOK
    <2>2. Stage(c)' = "draft_submitted" /\ Asserts(c)' = ClaimFactsFor(c)'
          /\ Versions(c)' = 0
      BY <1>4 DEF Stage, Asserts, Versions, Early, Joining, Ending
    <2>3. ClaimFactsFor(c)' = ClaimFactsFor(c)
      BY <1>0 DEF ClaimFactsFor
    <2>4. CASE c = b
      <3>1. c # "sec"
        BY <1>2, <2>4 DEF Drafters
      <3>2. ClaimFactsFor(c) = CanonicalFacts
        BY <3>1, FactsDiffer
      <3>3. Len(<<>>) = 0
        OBVIOUS
      <3>4. QED
        BY <1>0, <1>5, <1>8, <2>2, <2>3, <2>4, <3>2, <3>3 DEF lockVars
    <2>5. CASE c # b
      <3>1. c \in Branches
        BY DEF Branches
      <3>2. /\ state'[c] = state[c] /\ claims'[c] = claims[c]
            /\ filed'[c] = filed[c] /\ Live(c)
        BY <1>0, <1>8, <1>10, <2>1, <2>5, <3>1 DEF lockVars, Live
      <3>3. Stage(c) = "draft_submitted" /\ Asserts(c) = ClaimFactsFor(c)
            /\ Versions(c) = 0
        BY <1>0 DEF Stage, Asserts, Versions, Early, Joining, Ending
      <3>4. QED
        BY <1>1, <2>2, <2>3, <3>2, <3>3 DEF Running, LiveOK
    <2>6. QED
      BY <2>4, <2>5
  <1>16. ClocksOK'
    <2>1. ASSUME NEW c \in Branches, Joined(c)', filed'[c] # <<>>
          PROVE  clock'[c] = "stopped"
      <3>1. c # b
        BY <1>0, <1>5, <2>1 DEF lockVars
      <3>2. QED
        BY <1>0, <1>1, <1>8, <1>10, <2>1, <3>1 DEF Running, ClocksOK, lockVars
    <2>2. QED
      BY <2>1 DEF ClocksOK
  <1>17. CustomersOK'
    <2>1. AffectedParty \in Branches
      BY DEF Branches
    <2>2. QED
      BY <1>0, <1>1, <1>2, <1>4, <1>7, <1>8, <1>9, <1>10, <2>1
         DEF Running, CustomersOK, lockVars
  <1>18. KeysOK' /\ DutyOK'
    <2>1. lock = "idle"
      BY <1>0, <1>1 DEF Running, LoopOK, Releases
    <2>2. KeysOK'
      BY <1>0, <1>1, <2>1 DEF Running, KeysOK, Signing, lockVars
    <2>3. DutyOK'
      BY <1>0, <1>1, <1>4 DEF Running, DutyOK, dutyVars, Early, Joining, Ending
    <2>4. QED
      BY <2>2, <2>3
  <1>19. QED
    BY <1>4, <1>11, <1>12, <1>13, <1>14, <1>15, <1>16, <1>17, <1>18, AssembleIInv
       DEF Running, CutShort

LEMMA JoiningFacts ==
  ASSUME FloorTypeOK, Running, step \in Joining
  PROVE  /\ ~Joined(AffectedParty) /\ lock = "idle" /\ guard = "empty"
         /\ hold # "released"
         /\ conflict = "blocked" => step = "cross_border_signoff"
         /\ scenario \in Scenarios
  <1>1. ~Joined(AffectedParty)
    BY DEF Running, CustomersOK, Joining, Ending
  <1>2. lock = "idle"
    BY DEF Running, LoopOK, Releases, Joining
  <1>3. QED
    BY <1>1, <1>2 DEF Running, DutyOK, Early, Joining, Ending, FloorTypeOK

\* A live branch keeps its draft while the obligations are compared.
LEMMA CrossBorderIInv ==
  ASSUME IInv, CrossBorderScan \/ CrossBorderSignoff PROVE IInv'
  <1>1. /\ step \in {"cross_border", "cross_border_signoff"}
        /\ UNCHANGED <<scenario, branchVars, lockVars, clock, guard, hold, receipts>>
    BY DEF CrossBorderScan, CrossBorderSignoff
  <1>2. /\ FloorTypeOK /\ RoundsOK /\ Running /\ TodoOK /\ OnceEach(ran) /\ ~CutShort
        /\ step \in Joining
    BY <1>1, IInvParts DEF CutShort, Joining
  <1>3. /\ ~Joined(AffectedParty) /\ lock = "idle" /\ guard = "empty"
        /\ hold # "released" /\ scenario \in Scenarios
    BY <1>2, JoiningFacts
  <1>4. scenario.mode = "cross_border"
    BY <1>1, <1>2 DEF Running, LoopOK, Wanted
  <1>5. /\ After("cross_border") = "diff" /\ "diff" \in Steps
        /\ "cross_border_signoff" \in Steps
    BY <1>3, AfterTable, StepsAre DEF PhaseNames
  <1>6. REQUIRED_ROLES \subseteq { RELEASE_SIGNERS[i] : i \in DOMAIN RELEASE_SIGNERS }
    <2>1. /\ RELEASE_SIGNERS[1] = "general_counsel" /\ RELEASE_SIGNERS[2] = "head_of_ir"
          /\ {1, 2} \subseteq DOMAIN RELEASE_SIGNERS
      BY DEF RELEASE_SIGNERS
    <2>2. QED
      BY <2>1 DEF REQUIRED_ROLES
  <1>7. /\ conflict' \in {"none", "blocked", "resolved"}
        /\ \/ step' = "cross_border_signoff" /\ todo' = todo
           \/ Proceed("cross_border") /\ conflict' # "blocked"
    BY <1>2, <1>6 DEF CrossBorderScan, CrossBorderSignoff, FloorTypeOK, Running, DutyOK
  <1>8. /\ step' \in {"cross_border_signoff", "diff"} /\ todo' \in Seq(Branches)
        /\ TodoOK'
        /\ conflict' = "blocked" => step' = "cross_border_signoff"
    <2>1. CASE step' = "cross_border_signoff" /\ todo' = todo
      <3>1. \A b \in Branches : ~InTodo(b)
        BY <1>1, <1>2, VisitsAre DEF TodoOK, FloorTypeOK, Loops
      <3>2. todo' \in Seq(Branches) /\ OnceEach(todo')
            /\ \A b \in Branches : ~InTodo(b)'
        BY <1>2, <2>1, <3>1 DEF FloorTypeOK, TodoOK, InTodo
      <3>3. QED
        BY <2>1, <3>2 DEF TodoOK, Loops
    <2>2. CASE Proceed("cross_border") /\ conflict' # "blocked"
      BY <1>2, <1>5, <2>2, ProceedFacts
    <2>3. QED
      BY <1>7, <2>1, <2>2
  <1>9. ASSUME NEW b \in Regulators, Live(b)
        PROVE  /\ state'[b] = Stage(b)' /\ claims'[b] = Asserts(b)'
               /\ Versions(b)' = Versions(b)
    <2>1. Stage(b) = "draft_submitted" /\ Asserts(b) = ClaimFactsFor(b)
          /\ Versions(b) = 0
      BY <1>1 DEF Stage, Asserts, Versions, Early, Joining, Ending
    <2>2. Stage(b)' = "draft_submitted" /\ Asserts(b)' = ClaimFactsFor(b)'
          /\ Versions(b)' = 0
      BY <1>8 DEF Stage, Asserts, Versions, Early, Joining, Ending
    <2>3. ClaimFactsFor(b)' = ClaimFactsFor(b)
      BY <1>1 DEF ClaimFactsFor
    <2>4. QED
      BY <1>1, <1>2, <1>9, <2>1, <2>2, <2>3 DEF Running, LiveOK, branchVars
  <1>10. DutyOK'
    BY <1>1, <1>2, <1>3, <1>8 DEF Running, DutyOK, Early, Joining, Ending
  <1>11. Wanted(step')
    BY <1>8 DEF Wanted
  <1>12. step \in Early
    BY <1>2 DEF Early
  <1>13. QED
    BY <1>1, <1>2, <1>3, <1>4, <1>5, <1>7, <1>8, <1>9, <1>10, <1>11, <1>12,
       QuietIInv DEF FloorTypeOK, lockVars, branchVars

\* A green diff admits every draft to its release.
LEMMA GreenIInv ==
  ASSUME IInv, step \in {"diff", "resolve"}, Proceed("diff"),
         UNCHANGED <<scenario, ran, lockVars, clock, dutyVars>>,
         state' = AllDrafted([b \in Branches |-> "contradiction_checked"]),
         claims' \in [Branches -> Claims \cup {NoClaims}],
         \A b \in Branches : b # "sec" => claims'[b] = claims[b],
         \A b \in Drafted : claims'[b] = CanonicalFacts
  PROVE  IInv'
  <1>1. /\ FloorTypeOK /\ RoundsOK /\ Running /\ TodoOK /\ OnceEach(ran) /\ ~CutShort
        /\ step \in Joining /\ step # "open"
    BY IInvParts DEF CutShort, Joining
  <1>2. /\ ~Joined(AffectedParty) /\ lock = "idle" /\ guard = "empty"
        /\ hold # "released" /\ conflict # "blocked" /\ scenario \in Scenarios
    BY <1>1, JoiningFacts
  <1>3. /\ step' = "release" /\ todo' \in Seq(Branches) /\ TodoOK'
        /\ \A b : InTodo(b)' <=> b \in Visits("release")
    <2>1. After("diff") = "release" /\ "release" \in Steps
      BY <1>2, AfterTable, StepsAre DEF PhaseNames
    <2>2. ran # <<>>
      BY <1>1, RanIsNotEmpty DEF Running
    <2>3. QED
      BY <1>1, <2>1, <2>2, ProceedFacts
  <1>4. Drafted = { b \in Regulators : Live(b) }
    BY <1>1, DraftedAre
  <1>5. /\ state' \in [Branches -> State]
        /\ \A b \in Branches : state'[b] = IF b \in Drafted THEN "contradiction_checked"
                                                            ELSE state[b]
    BY <1>1 DEF AllDrafted, FloorTypeOK, State
  <1>6. AffectedParty \in Branches /\ AffectedParty \notin Regulators
        /\ "sec" \in Regulators /\ Regulators \subseteq Branches
    BY DEF Branches, Regulators, AffectedParty
  <1>7. ASSUME NEW b \in Regulators, Live(b)
        PROVE  /\ state'[b] = Stage(b)' /\ claims'[b] = Asserts(b)'
               /\ Versions(b)' = Versions(b)
    <2>1. state'[b] = "contradiction_checked" /\ claims'[b] = CanonicalFacts
      BY <1>4, <1>5, <1>6, <1>7
    <2>2. Versions(b) = 0
      BY DEF Versions, Early, Joining, Ending
    <2>3. InTodo(b)'
      <3>1. InRun(b)
        BY <1>1, <1>7 DEF Running, RunOK, Live
      <3>2. b \in Visits("release")
        BY <3>1, VisitsAre DEF InRun
      <3>3. QED
        BY <1>3, <3>2
    <2>4. ~Signing(b)'
      BY <1>2 DEF Signing, lockVars
    <2>5. Stage(b)' = "contradiction_checked" /\ Asserts(b)' = CanonicalFacts
          /\ Versions(b)' = 0
      BY <1>3, <2>3, <2>4 DEF Stage, Asserts, Versions, Early, Joining, Ending
    <2>6. QED
      BY <2>1, <2>2, <2>5
  <1>8. ASSUME NEW b \in Regulators, ~Live(b)
        PROVE  /\ state'[b] = state[b]
               /\ ~Joined(b) \/ step' \in Early => claims'[b] = claims[b]
    <2>1. state'[b] = state[b]
      BY <1>4, <1>5, <1>6, <1>8
    <2>2. step' \notin Early
      BY <1>3 DEF Early, Joining
    <2>3. ~Joined(b) => b # "sec"
      BY <1>1 DEF Running, RunOK, Drafters, Regulators
    <2>4. QED
      BY <1>6, <2>1, <2>2, <2>3
  <1>9. DutyOK'
    BY <1>1, <1>2, <1>3 DEF Running, DutyOK, Early, Joining, Ending, dutyVars
  <1>10. Wanted(step') /\ step \in Early /\ step' \notin Early
    BY <1>1, <1>3 DEF Wanted, Early, Joining
  <1>11. state'[AffectedParty] = state[AffectedParty]
         /\ claims'[AffectedParty] = claims[AffectedParty]
    BY <1>4, <1>5, <1>6
  <1>12. "release" \in Steps
    BY StepsAre DEF PhaseNames
  <1>13. QED
    BY <1>1, <1>2, <1>3, <1>5, <1>7, <1>8, <1>9, <1>10, <1>11, <1>12,
       QuietIInv DEF FloorTypeOK, lockVars, dutyVars

LEMMA DiffIInv == ASSUME IInv, Diff PROVE IInv'
  <1>1. step = "diff" /\ UNCHANGED <<scenario, claims, ran, lockVars, clock, dutyVars>>
    BY DEF Diff
  <1>2. /\ FloorTypeOK /\ RoundsOK /\ Running /\ TodoOK /\ OnceEach(ran) /\ ~CutShort
        /\ step \in Joining /\ step # "open"
    BY <1>1, IInvParts DEF CutShort, Joining
  <1>3. /\ ~Joined(AffectedParty) /\ lock = "idle" /\ guard = "empty"
        /\ hold # "released" /\ conflict # "blocked"
    BY <1>1, <1>2, JoiningFacts
  <1>4. \A b \in Drafted : b \in Regulators /\ Live(b) /\ state[b] = "draft_submitted"
    <2>1. \A b : Stage(b) = "draft_submitted"
      BY <1>1 DEF Stage, Joining
    <2>2. QED
      BY <1>1, <1>2, <2>1, DraftedAre DEF Running, LiveOK
  <1>5. CASE ~Contradict(claims, Drafted)
    <2>1. \A b \in Drafted : claims[b] = CanonicalFacts
      BY <1>1, <1>2, <1>5, RedDiff
    <2>2. /\ Proceed("diff")
          /\ state' = AllDrafted([b \in Branches |-> Warden(state[b], "diff_passed")])
      BY <1>1, <1>5 DEF Diff
    <2>3. state' = AllDrafted([b \in Branches |-> "contradiction_checked"])
      BY <1>4, <2>2, RunMoves DEF AllDrafted
    <2>4. QED
      BY <1>1, <1>2, <2>1, <2>2, <2>3, GreenIInv DEF FloorTypeOK
  <1>6. CASE Contradict(claims, Drafted)
    <2>1. scenario.mode = "inject_contradiction"
      BY <1>1, <1>2, <1>6, RedDiff
    <2>2. /\ step' = "resolve" /\ todo' = todo
          /\ state' = AllDrafted([b \in Branches |-> Warden(state[b], "diff_blocked")])
      BY <1>6 DEF Diff
    <2>3. /\ state' \in [Branches -> State]
          /\ \A b \in Branches : state'[b] = IF b \in Drafted THEN "drafting"
                                                              ELSE state[b]
      BY <1>2, <1>4, <2>2, RunMoves DEF AllDrafted, FloorTypeOK, State
    <2>4. TodoOK' /\ todo' \in Seq(Branches)
      <3>1. \A b \in Branches : ~InTodo(b)
        BY <1>1, <1>2, VisitsAre DEF TodoOK, FloorTypeOK, Loops
      <3>2. todo' \in Seq(Branches) /\ OnceEach(todo')
            /\ \A b \in Branches : ~InTodo(b)'
        BY <1>2, <2>2, <3>1 DEF FloorTypeOK, TodoOK, InTodo
      <3>3. QED
        BY <2>2, <3>2 DEF TodoOK, Loops
    <2>5. AffectedParty \in Branches /\ AffectedParty \notin Regulators
          /\ Regulators \subseteq Branches
      BY DEF Branches, Regulators, AffectedParty
    <2>6. ASSUME NEW b \in Regulators, Live(b)
          PROVE  /\ state'[b] = Stage(b)' /\ claims'[b] = Asserts(b)'
                 /\ Versions(b)' = Versions(b)
      <3>1. state'[b] = "drafting"
        BY <1>1, <1>2, <2>3, <2>5, <2>6, DraftedAre
      <3>2. claims[b] = ClaimFactsFor(b) /\ ClaimFactsFor(b)' = ClaimFactsFor(b)
        BY <1>1, <1>2, <2>6, DraftedAre DEF ClaimFactsFor
      <3>3. Stage(b)' = "drafting" /\ Asserts(b)' = ClaimFactsFor(b)'
            /\ Versions(b)' = 0 /\ Versions(b) = 0
        BY <1>1, <2>2 DEF Stage, Asserts, Versions, Early, Joining, Ending
      <3>4. QED
        BY <1>1, <3>1, <3>2, <3>3
    <2>7. \A b \in Regulators : ~Live(b) => state'[b] = state[b]
      BY <1>1, <1>2, <2>3, <2>5, DraftedAre
    <2>8. state'[AffectedParty] = state[AffectedParty]
      BY <1>4, <2>3, <2>5
    <2>9. DutyOK'
      BY <1>1, <1>2, <1>3, <2>2 DEF Running, DutyOK, Early, Joining, Ending, dutyVars
    <2>10. Wanted(step') /\ step \in Early /\ step' \in Steps
      BY <1>2, <2>2, StepsAre DEF Wanted, Early
    <2>11. QED
      BY <1>1, <1>2, <1>3, <2>1, <2>2, <2>3, <2>4, <2>6, <2>7, <2>8, <2>9, <2>10,
         QuietIInv DEF FloorTypeOK, lockVars, dutyVars
  <1>7. QED
    BY <1>5, <1>6

\* The second diff is green: what was sent back is the branch that was wrong.
LEMMA ResolveIInv == ASSUME IInv, Resolve PROVE IInv'
  <1>1. /\ step = "resolve" /\ UNCHANGED <<scenario, ran, lockVars, clock, dutyVars>>
        /\ claims' = [claims EXCEPT ![ContradictedBranch] = CanonicalFacts]
    BY DEF Resolve
  <1>2. /\ FloorTypeOK /\ RoundsOK /\ Running /\ TodoOK /\ OnceEach(ran) /\ ~CutShort
    BY <1>1, IInvParts DEF CutShort
  <1>3. claims' = [claims EXCEPT !["sec"] = CanonicalFacts]
    BY <1>1, <1>2, ContradictedIsSec
  <1>4. /\ claims' \in [Branches -> Claims \cup {NoClaims}]
        /\ claims'["sec"] = CanonicalFacts
        /\ \A b \in Branches : b # "sec" => claims'[b] = claims[b]
    BY <1>2, <1>3, FactsDiffer DEF FloorTypeOK, Branches, Regulators
  <1>5. \A b \in Drafted : claims'[b] = CanonicalFacts
    <2>1. ASSUME NEW b \in Drafted, b # "sec"
          PROVE  claims'[b] = CanonicalFacts
      <3>1. claims[b] = CanonicalFacts
        BY <1>1, <1>2, <2>1, DraftedAre, FactsDiffer
      <3>2. QED
        BY <1>4, <2>1, <3>1 DEF Drafted
    <2>2. QED
      BY <1>4, <2>1
  <1>6. ~Contradict(claims', Drafted)
    BY <1>5, CanonicalAgree
  <1>7. /\ Proceed("diff")
        /\ state' = AllDrafted([b \in Branches |->
                                  Warden(Drafter(state[b], "draft_posted"),
                                         "diff_passed")])
    BY <1>6 DEF Resolve
  <1>8. \A b \in Drafted : state[b] = "drafting"
    <2>1. \A b : Stage(b) = "drafting"
      BY <1>1 DEF Stage, Joining
    <2>2. QED
      BY <1>1, <1>2, <2>1, DraftedAre DEF Running, LiveOK
  <1>9. state' = AllDrafted([b \in Branches |-> "contradiction_checked"])
    BY <1>7, <1>8, RunMoves DEF AllDrafted
  <1>10. QED
    BY <1>1, <1>4, <1>5, <1>7, <1>9, GreenIInv

\* The release loop: the branch it leaves has filed, or was suppressed; the
\* others stand where they stood.
LEMMA ReleaseMoves ==
  ASSUME FloorTypeOK, Running, step = "release", NextBranch,
         NEW b, b = Head(todo),
         ran' = ran, scenario' = scenario, lock' = "idle"
  PROVE  /\ step' \in Steps /\ todo' \in Seq(Branches) /\ TodoOK' /\ Wanted(step')
         /\ step' \in {"release", "amend", "deficiency", "lift_hold",
                       "submission", "seal"}
         /\ step' = "seal" => scenario.mode \notin {"deficiency", "legal_hold",
                                                    "submit"}
         /\ b \in Regulators /\ InTodo(b) /\ Joined(b)
         /\ \A c \in Regulators \ {b} :
              /\ Stage(c)' = Stage(c) /\ Asserts(c)' = Asserts(c)
              /\ Versions(c)' = Versions(c)
         /\ /\ Stage(b)' = "released"
            /\ Asserts(b)' = CanonicalFacts
            /\ Versions(b)' = 1
  <1>1. TodoOK /\ OnceEach(ran) /\ step \in Loops
    BY DEF Running, LoopOK, Loops
  <1>2. /\ After(step) = IF Amends THEN "amend"
                         ELSE CASE scenario.mode = "deficiency" -> "deficiency"
                                [] scenario.mode = "legal_hold" -> "lift_hold"
                                [] scenario.mode = "submit" -> "submission"
                                [] OTHER -> "seal"
        /\ After(step) \in Steps \ {"release"}
    BY AfterTable, StepsAre DEF FloorTypeOK, PhaseNames
  <1>3. /\ step' \in Steps /\ todo' \in Seq(Branches) /\ TodoOK'
        /\ \/ /\ step' = step
              /\ \A c : InTodo(c)' <=> InTodo(c) /\ c # b
           \/ /\ step' = After(step)
              /\ \A c : InTodo(c) => c = b
    BY <1>1, <1>2, NextBranchFacts
  <1>4. Wanted(step')
    BY <1>2, <1>3 DEF Wanted
  <1>5. b \in Regulators /\ InTodo(b) /\ Joined(b)
    <2>1. InTodo(b) /\ InRun(b) /\ b \in Branches
      BY <1>1, HeadFacts, VisitsAre DEF TodoOK
    <2>2. ~InRun(AffectedParty)
      BY DEF Running, CustomersOK, Ending
    <2>3. b \in Regulators
      BY <2>1, <2>2 DEF Branches
    <2>4. QED
      BY <2>1, <2>3 DEF Running, RunOK
  <1>6. step' # "release" => /\ step' \in {"amend", "deficiency", "lift_hold",
                                           "submission", "seal"}
                             /\ step' = "seal" => /\ ~Amends
                                                  /\ scenario.mode # "deficiency"
                             /\ \A c : InTodo(c) => c = b
    BY <1>2, <1>3
  <1>7. step' = "release" => \A c : InTodo(c)' <=> InTodo(c) /\ c # b
    BY <1>2, <1>3
  <1>8. Amends' = Amends
    BY DEF Amends
  <1>9. ASSUME NEW c \in Regulators, c # b
        PROVE  /\ Stage(c) = IF InTodo(c) THEN "contradiction_checked" ELSE "released"
               /\ Asserts(c) = CanonicalFacts
               /\ Versions(c) = IF InTodo(c) THEN 0 ELSE 1
    <2>1. ~Signing(c)
      BY <1>9 DEF Signing
    <2>2. QED
      BY <2>1 DEF Stage, Asserts, Versions, Early, Joining, Ending
  <1>10. ASSUME NEW c
         PROVE  /\ Stage(c)' = IF step' = "release" /\ InTodo(c)'
                                THEN "contradiction_checked" ELSE "released"
                /\ Asserts(c)' = CanonicalFacts
                /\ Versions(c)' = IF step' = "release" /\ InTodo(c)' THEN 0 ELSE 1
    <2>1. ~Signing(c)'
      BY DEF Signing
    <2>2. CASE step' = "release"
      BY <2>1, <2>2 DEF Stage, Asserts, Versions, Early, Joining, Ending
    <2>3. CASE step' \in {"amend", "deficiency", "lift_hold", "submission"}
      BY <2>3 DEF Stage, Asserts, Versions, Early, Joining, Ending
    <2>4. CASE step' = "seal"
      BY <1>6, <1>8, <2>4 DEF Stage, Asserts, Versions, Early, Joining, Ending
    <2>5. QED
      BY <1>6, <2>2, <2>3, <2>4
  <1>11. QED
    BY <1>2, <1>3, <1>4, <1>5, <1>6, <1>7, <1>9, <1>10

LEMMA ReleaseFacts ==
  ASSUME FloorTypeOK, Running, step \in {"release", "amend", "propose"}
  PROVE  ~Joined(AffectedParty) /\ guard = "empty" /\ hold # "released"
         /\ conflict # "blocked"
  BY DEF Running, CustomersOK, DutyOK, Ending, Early, Joining

\* The release passes over the suppressed branches only.
LEMMA SkipUncheckedIInv == ASSUME IInv, SkipUnchecked PROVE IInv'
  <1>1. /\ step = "release" /\ lock = "idle" /\ NextBranch
        /\ state[Head(todo)] # "contradiction_checked"
        /\ UNCHANGED <<scenario, branchVars, lockVars, clock, dutyVars>>
    BY DEF SkipUnchecked
  <1>2. /\ FloorTypeOK /\ RoundsOK /\ Running /\ TodoOK /\ OnceEach(ran) /\ ~CutShort
    BY <1>1, IInvParts DEF CutShort
  <1>3. /\ step' \in Steps /\ todo' \in Seq(Branches) /\ TodoOK' /\ Wanted(step')
        /\ step' \in {"release", "amend", "deficiency", "lift_hold",
                      "submission", "seal"}
        /\ step' = "seal" => scenario.mode \notin {"deficiency", "legal_hold",
                                                   "submit"}
        /\ Head(todo) \in Regulators /\ InTodo(Head(todo)) /\ Joined(Head(todo))
        /\ \A c \in Regulators \ {Head(todo)} :
             /\ Stage(c)' = Stage(c) /\ Asserts(c)' = Asserts(c)
             /\ Versions(c)' = Versions(c)
    BY <1>1, <1>2, ReleaseMoves DEF branchVars, lockVars
  <1>4. ~Live(Head(todo))
    <2>1. ~Signing(Head(todo))
      BY <1>1 DEF Signing
    <2>2. Stage(Head(todo)) = "contradiction_checked"
      BY <1>1, <1>3, <2>1 DEF Stage, Joining
    <2>3. QED
      BY <1>1, <1>2, <1>3, <2>2 DEF Running, LiveOK
  <1>5. \A c \in Regulators :
          Live(c) => /\ state'[c] = Stage(c)' /\ claims'[c] = Asserts(c)'
                     /\ Versions(c)' = Versions(c)
    BY <1>1, <1>2, <1>3, <1>4 DEF Running, LiveOK, branchVars
  <1>6. /\ ~Joined(AffectedParty) /\ guard = "empty" /\ hold # "released"
        /\ conflict # "blocked"
    BY <1>1, <1>2, ReleaseFacts
  <1>7. DutyOK'
    BY <1>1, <1>2, <1>3, <1>6 DEF Running, DutyOK, Early, Joining, Ending, dutyVars
  <1>8. step' \notin Early
    BY <1>3 DEF Early, Joining
  <1>9. QED
    BY <1>1, <1>2, <1>3, <1>5, <1>6, <1>7, <1>8, QuietIInv
       DEF FloorTypeOK, lockVars, dutyVars, branchVars

\* The revised facts reopen the released branches of the two drafters.
LEMMA AmendIInv == ASSUME IInv, Amend PROVE IInv'
  <1>1. /\ step = "amend"
        /\ UNCHANGED <<scenario, claims, ran, lockVars, clock, dutyVars>>
        /\ state' = [b \in Branches |->
                 IF Amended(b) THEN Triage(state[b], "fact_amended") ELSE state[b]]
    BY DEF Amend
  <1>2. /\ FloorTypeOK /\ RoundsOK /\ Running /\ TodoOK /\ OnceEach(ran) /\ ~CutShort
    BY <1>1, IInvParts DEF CutShort
  <1>3. /\ ~Joined(AffectedParty) /\ guard = "empty" /\ hold # "released"
        /\ conflict # "blocked"
    BY <1>1, <1>2, ReleaseFacts
  <1>4. Amends /\ lock = "idle"
    BY <1>1, <1>2 DEF Running, LoopOK, Wanted, Releases
  <1>5. After("amend") = "propose" /\ "propose" \in Steps
    BY <1>2, <1>4, AfterTable, StepsAre DEF FloorTypeOK, PhaseNames
  <1>6. step' = "propose" /\ todo' \in Seq(Branches) /\ TodoOK'
    <2>1. Proceed("amend")
      BY <1>1, <1>3 DEF Amend, CanSubmit
    <2>2. QED
      BY <1>2, <1>5, <2>1, ProceedFacts
  <1>7. \A b : Amended(b) <=> b \in {"sec", "nis2"}
    BY WorkLists
  <1>8. \A b : Stage(b) = "released" /\ Asserts(b) = CanonicalFacts /\ Versions(b) = 1
    BY <1>1 DEF Stage, Asserts, Versions, Early, Joining, Ending
  <1>9. ASSUME NEW b \in Regulators, Live(b)
        PROVE  /\ state'[b] = Stage(b)' /\ claims'[b] = Asserts(b)'
               /\ Versions(b)' = Versions(b)
    <2>1. state[b] = "released" /\ claims[b] = CanonicalFacts
      BY <1>2, <1>8, <1>9 DEF Running, LiveOK
    <2>2. state'[b] = IF Amended(b) THEN "amending" ELSE "released"
      BY <1>1, <2>1, RunMoves DEF Branches
    <2>3. /\ Stage(b)' = IF Amended(b) THEN "amending" ELSE "released"
          /\ Asserts(b)' = CanonicalFacts /\ Versions(b)' = 1
      BY <1>6 DEF Stage, Asserts, Versions, Early, Joining, Ending, Amended
    <2>4. QED
      BY <1>1, <1>8, <2>1, <2>2, <2>3
  <1>10. ASSUME NEW b \in Regulators, ~Live(b)
         PROVE  state'[b] = state[b]
    <2>1. state[b] = "suppressed" \/ ~Joined(b)
      BY <1>10 DEF Live
    <2>2. ~Joined(b) => ~Amended(b)
      BY <1>1, <1>2, <1>7 DEF Running, RunOK, Regulators, Drafters
    <2>3. QED
      BY <1>1, <2>1, <2>2, RunMoves DEF Branches
  <1>11. /\ state' \in [Branches -> State]
         /\ state'[AffectedParty] = state[AffectedParty]
    <2>1. \A b \in Branches : Triage(state[b], "fact_amended") \in State
      BY <1>2, NextStateTyped DEF FloorTypeOK, Triage
    <2>2. ~Amended(AffectedParty) /\ AffectedParty \in Branches
      BY <1>7 DEF AffectedParty, Branches
    <2>3. QED
      BY <1>1, <1>2, <2>1, <2>2 DEF FloorTypeOK
  <1>12. DutyOK'
    BY <1>1, <1>2, <1>3, <1>6 DEF Running, DutyOK, Early, Joining, Ending, dutyVars
  <1>13. step' \notin Early /\ Wanted(step')
    BY <1>4, <1>6 DEF Early, Joining, Wanted
  <1>14. QED
    BY <1>1, <1>2, <1>3, <1>4, <1>5, <1>6, <1>9, <1>10, <1>11, <1>12, <1>13,
       QuietIInv DEF FloorTypeOK, lockVars, dutyVars

LEMMA AmendmentFacts ==
  ASSUME FloorTypeOK, Running,
         step \in {"propose", "concur", "amend_submit", "amend_diff", "amend_release"}
  PROVE  /\ Amends /\ ~Joined(AffectedParty) /\ hold = "none" /\ conflict # "blocked"
         /\ step # "amend_release" => lock = "idle"
         /\ scenario.mode \notin {"deficiency", "legal_hold", "submit"}
         /\ step \notin Early
  <1>1. Amends
    BY DEF Running, LoopOK, Wanted
  <1>2. ~Joined(AffectedParty)
    BY DEF Running, CustomersOK, Ending
  <1>3. conflict # "blocked" /\ hold # "released"
    BY DEF Running, DutyOK, Ending
  <1>4. hold # "active"
    BY <1>1 DEF Running, DutyOK, Amends
  <1>5. step # "amend_release" => lock = "idle"
    BY DEF Running, LoopOK, Releases
  <1>6. QED
    BY <1>1, <1>2, <1>3, <1>4, <1>5 DEF Amends, FloorTypeOK, Early, Joining

\* The proposal and the concurrence touch the guard only.
LEMMA ConcurrenceIInv == ASSUME IInv, Propose \/ Concur PROVE IInv'
  <1>1. /\ step \in {"propose", "concur"}
        /\ UNCHANGED <<scenario, branchVars, lockVars, clock, conflict, hold, receipts>>
    BY DEF Propose, Concur
  <1>2. /\ FloorTypeOK /\ RoundsOK /\ Running /\ TodoOK /\ OnceEach(ran) /\ ~CutShort
    BY <1>1, IInvParts DEF CutShort
  <1>3. /\ Amends /\ ~Joined(AffectedParty) /\ hold = "none" /\ conflict # "blocked"
        /\ lock = "idle" /\ step \notin Early
        /\ scenario.mode \notin {"deficiency", "legal_hold", "submit"}
    BY <1>1, <1>2, AmendmentFacts
  <1>4. /\ After("propose") = "concur" /\ After("concur") = "amend_submit"
        /\ "concur" \in Steps /\ "amend_submit" \in Steps
    BY <1>2, <1>3, AfterTable, StepsAre DEF FloorTypeOK, PhaseNames
  <1>5. /\ Proceed(step)
        /\ step = "propose" => guard' = "proposed"
        /\ step = "concur" => guard' = "concurred"
    BY <1>1, <1>2 DEF Propose, Concur, Running, DutyOK
  <1>6. /\ step' \in {"concur", "amend_submit"} /\ todo' \in Seq(Branches) /\ TodoOK'
        /\ step' = "concur" => guard' = "proposed"
        /\ step' = "amend_submit" => guard' = "concurred"
        /\ step' = "amend_submit" => \A b : InTodo(b)' <=> b \in Visits("amend_submit")
    BY <1>1, <1>2, <1>4, <1>5, ProceedFacts
  <1>7. \A b : Amended(b) <=> b \in {"sec", "nis2"}
    BY WorkLists
  <1>8. ASSUME NEW b \in Regulators, Live(b)
        PROVE  /\ state'[b] = Stage(b)' /\ claims'[b] = Asserts(b)'
               /\ Versions(b)' = Versions(b)
    <2>1. /\ Stage(b) = IF Amended(b) THEN "amending" ELSE "released"
          /\ Asserts(b) = CanonicalFacts /\ Versions(b) = 1
      BY <1>1 DEF Stage, Asserts, Versions, Early, Joining, Ending
    <2>2. Amended(b)' <=> Amended(b)
      BY DEF Amended
    <2>3. /\ Stage(b)' = IF Amended(b) THEN "amending" ELSE "released"
          /\ Asserts(b)' = CanonicalFacts /\ Versions(b)' = 1
      <3>1. CASE step' = "concur"
        BY <2>2, <3>1 DEF Stage, Asserts, Versions, Early, Joining, Ending
      <3>2. CASE step' = "amend_submit"
        <4>1. Amended(b) => InTodo(b)'
          BY <1>6, <1>7, <3>2, VisitsAre
        <4>2. QED
          BY <2>2, <3>2, <4>1 DEF Stage, Asserts, Versions, Early, Joining, Ending
      <3>3. QED
        BY <1>6, <3>1, <3>2
    <2>4. QED
      BY <1>1, <1>2, <1>8, <2>1, <2>3 DEF Running, LiveOK, branchVars
  <1>9. DutyOK'
    BY <1>1, <1>3, <1>6 DEF DutyOK, Early, Joining, Ending
  <1>10. /\ step' \notin Early /\ Wanted(step') /\ guard' \in {"proposed", "concurred"}
    BY <1>3, <1>6 DEF Early, Joining, Wanted
  <1>11. QED
    BY <1>1, <1>2, <1>3, <1>4, <1>6, <1>8, <1>9, <1>10, QuietIInv
       DEF FloorTypeOK, lockVars, branchVars

\* Each drafter posts its amended filing once.
LEMMA SubmitAmendmentIInv == ASSUME IInv, SubmitAmendment, NEW b, b = Head(todo)
                             PROVE IInv'
  <1>1. /\ step = "amend_submit"
        /\ UNCHANGED <<scenario, ran, lockVars, clock, dutyVars>>
    BY DEF SubmitAmendment
  <1>2. /\ FloorTypeOK /\ RoundsOK /\ Running /\ TodoOK /\ OnceEach(ran) /\ ~CutShort
    BY <1>1, IInvParts DEF CutShort
  <1>3. /\ Amends /\ ~Joined(AffectedParty) /\ hold = "none" /\ conflict # "blocked"
        /\ lock = "idle" /\ step \notin Early
        /\ scenario.mode \notin {"deficiency", "legal_hold", "submit"}
    BY <1>1, <1>2, AmendmentFacts
  <1>4. /\ After(step) = "amend_diff" /\ "amend_diff" \in Steps /\ step \in Loops
    BY <1>1, <1>2, <1>3, AfterTable, StepsAre DEF FloorTypeOK, PhaseNames, Loops
  <1>5. guard = "concurred"
    BY <1>1, <1>2 DEF Running, DutyOK
  <1>6. /\ NextBranch
        /\ state' = [state EXCEPT ![b] = Drafter(@, "draft_posted")]
        /\ claims' = [claims EXCEPT ![b] = AmendedFacts]
    BY <1>5 DEF SubmitAmendment, CanSubmit
  <1>7. /\ todo' \in Seq(Branches) /\ TodoOK'
        /\ \/ /\ step' = "amend_submit"
              /\ \A c : InTodo(c)' <=> InTodo(c) /\ c # b
           \/ /\ step' = "amend_diff"
              /\ \A c : InTodo(c) => c = b
    BY <1>1, <1>2, <1>4, <1>6, NextBranchFacts
  <1>8. \A c : Amended(c) <=> c \in {"sec", "nis2"}
    BY WorkLists
  <1>9. Amended(b) /\ InTodo(b) /\ b \in Regulators /\ b \in Branches
        /\ b # AffectedParty
    <2>1. InTodo(b) /\ b \in Visits(step)
      BY <1>2, <1>4, HeadFacts DEF TodoOK
    <2>2. QED
      BY <1>1, <1>8, <2>1, VisitsAre DEF Regulators, Branches, AffectedParty
  <1>10. \A c : /\ Stage(c) = IF Amended(c)
                                THEN IF InTodo(c) THEN "amending" ELSE "draft_submitted"
                                ELSE "released"
                /\ Asserts(c) = IF Amended(c) /\ ~InTodo(c) THEN AmendedFacts
                                                            ELSE CanonicalFacts
                /\ Versions(c) = 1
    BY <1>1 DEF Stage, Asserts, Versions, Early, Joining, Ending
  <1>11. \A c : Amended(c)' <=> Amended(c)
    BY DEF Amended
  <1>12. ASSUME NEW c
         PROVE  /\ Stage(c)' = IF Amended(c)
                                 THEN IF step' = "amend_submit" /\ InTodo(c)'
                                        THEN "amending" ELSE "draft_submitted"
                                 ELSE "released"
                /\ Asserts(c)' = IF /\ Amended(c)
                                    /\ ~(step' = "amend_submit" /\ InTodo(c)')
                                   THEN AmendedFacts ELSE CanonicalFacts
                /\ Versions(c)' = 1
    <2>1. CASE step' = "amend_submit"
      BY <1>11, <2>1 DEF Stage, Asserts, Versions, Early, Joining, Ending
    <2>2. CASE step' = "amend_diff"
      BY <1>11, <2>2 DEF Stage, Asserts, Versions, Early, Joining, Ending
    <2>3. QED
      BY <1>7, <2>1, <2>2
  <1>13. /\ Live(b) => state[b] = "amending"
         /\ ~Live(b) => state[b] = "suppressed" /\ Joined(b)
    <2>1. Joined(b)
      BY <1>1, <1>2, <1>8, <1>9 DEF Running, RunOK, Drafters
    <2>2. QED
      BY <1>2, <1>9, <1>10, <2>1 DEF Running, LiveOK, Live
  <1>14. /\ \A c \in Branches : c # b => state'[c] = state[c] /\ claims'[c] = claims[c]
         /\ state' \in [Branches -> State]
         /\ claims' \in [Branches -> Claims \cup {NoClaims}]
         /\ Live(b) => state'[b] = "draft_submitted"
         /\ ~Live(b) => state'[b] = state[b]
         /\ claims'[b] = AmendedFacts
    <2>1. Drafter(state[b], "draft_posted") =
            IF Live(b) THEN "draft_submitted" ELSE state[b]
      BY <1>13, RunMoves
    <2>2. Drafter(state[b], "draft_posted") \in State /\ AmendedFacts \in Claims
      BY <1>2, <1>9, NextStateTyped, FactsDiffer DEF FloorTypeOK, Drafter
    <2>3. QED
      BY <1>2, <1>6, <1>9, <2>1, <2>2 DEF FloorTypeOK
  <1>15. ASSUME NEW c \in Regulators, Live(c)
         PROVE  /\ state'[c] = Stage(c)' /\ claims'[c] = Asserts(c)'
                /\ Versions(c)' = Versions(c)
    <2>1. CASE c = b
      BY <1>7, <1>9, <1>10, <1>12, <1>14, <1>15, <2>1
    <2>2. CASE c # b
      <3>1. state[c] = Stage(c) /\ claims[c] = Asserts(c) /\ c \in Branches
        BY <1>2, <1>15 DEF Running, LiveOK, Branches
      <3>2. step' = "amend_submit" /\ InTodo(c)' <=> InTodo(c)
        BY <1>7, <2>2
      <3>3. QED
        BY <1>10, <1>12, <1>14, <2>2, <3>1, <3>2
    <2>3. QED
      BY <2>1, <2>2
  <1>16. ASSUME NEW c \in Regulators, ~Live(c)
         PROVE  /\ state'[c] = state[c]
                /\ ~Joined(c) => claims'[c] = claims[c]
    BY <1>13, <1>14, <1>16 DEF Branches
  <1>17. DutyOK'
    BY <1>1, <1>3, <1>5, <1>7 DEF DutyOK, Early, Joining, Ending, dutyVars
  <1>18. step' \notin Early /\ Wanted(step') /\ "amend_submit" \in Steps
         /\ AffectedParty \in Branches
    BY <1>3, <1>7, StepsAre DEF Early, Joining, Wanted, PhaseNames, Branches
  <1>19. QED
    BY <1>1, <1>2, <1>3, <1>4, <1>7, <1>9, <1>14, <1>15, <1>16, <1>17, <1>18, QuietIInv
       DEF FloorTypeOK, lockVars, dutyVars

\* The amended filings are compared as they were posted.
LEMMA AmendDiffIInv == ASSUME IInv, AmendDiff PROVE IInv'
  <1>1. /\ step = "amend_diff" /\ (Proceed(step) \/ Raise)
        /\ UNCHANGED <<scenario, branchVars, lockVars, clock, dutyVars>>
    BY DEF AmendDiff
  <1>2. /\ FloorTypeOK /\ RoundsOK /\ Running /\ TodoOK /\ OnceEach(ran) /\ ~CutShort
    BY <1>1, IInvParts DEF CutShort
  <1>3. /\ Amends /\ ~Joined(AffectedParty) /\ hold = "none" /\ conflict # "blocked"
        /\ lock = "idle" /\ step \notin Early
        /\ scenario.mode \notin {"deficiency", "legal_hold", "submit"}
    BY <1>1, <1>2, AmendmentFacts
  <1>4. guard = "concurred"
    BY <1>1, <1>2 DEF Running, DutyOK
  <1>5. CASE Raise
    <2>1. "raised" \in Steps
      BY StepsAre
    <2>2. QED
      BY <1>1, <1>2, <1>5, <2>1, StopsIInv
         DEF Raise, FloorTypeOK, branchVars, lockVars, dutyVars
  <1>6. CASE Proceed(step)
    <2>1. After(step) = "amend_release" /\ "amend_release" \in Steps
      BY <1>1, <1>2, <1>3, AfterTable, StepsAre DEF FloorTypeOK, PhaseNames
    <2>2. /\ step' = "amend_release" /\ todo' \in Seq(Branches) /\ TodoOK'
          /\ \A b : InTodo(b)' <=> b \in {"sec", "nis2"}
      BY <1>2, <1>6, <2>1, ProceedFacts, VisitsAre
    <2>3. \A b : (Amended(b)' <=> Amended(b)) /\ (Amended(b) <=> b \in {"sec", "nis2"})
      BY WorkLists DEF Amended
    <2>4. ASSUME NEW b \in Regulators, Live(b)
          PROVE  /\ state'[b] = Stage(b)' /\ claims'[b] = Asserts(b)'
                 /\ Versions(b)' = Versions(b)
      <3>1. /\ Stage(b) = IF Amended(b) THEN "draft_submitted" ELSE "released"
            /\ Asserts(b) = IF Amended(b) THEN AmendedFacts ELSE CanonicalFacts
            /\ Versions(b) = 1
        BY <1>1 DEF Stage, Asserts, Versions, Early, Joining, Ending
      <3>2. (InTodo(b)' <=> Amended(b)) /\ ~Signing(b)'
        BY <1>1, <1>3, <2>2, <2>3 DEF Signing, lockVars
      <3>3. /\ Stage(b)' = IF Amended(b) THEN "draft_submitted" ELSE "released"
            /\ Asserts(b)' = IF Amended(b) THEN AmendedFacts ELSE CanonicalFacts
            /\ Versions(b)' = 1
        BY <2>2, <2>3, <3>2 DEF Stage, Asserts, Versions, Early, Joining, Ending
      <3>4. QED
        BY <1>1, <1>2, <2>4, <3>1, <3>3 DEF Running, LiveOK, branchVars
    <2>5. DutyOK'
      BY <1>1, <1>3, <1>4, <2>2 DEF DutyOK, Early, Joining, Ending, dutyVars
    <2>6. step' \notin Early /\ Wanted(step')
      BY <1>3, <2>2 DEF Early, Joining, Wanted
    <2>7. QED
      BY <1>1, <1>2, <1>3, <2>1, <2>2, <2>4, <2>5, <2>6, QuietIInv
         DEF FloorTypeOK, branchVars, lockVars, dutyVars
  <1>7. QED
    BY <1>1, <1>5, <1>6

\* Nobody is at high risk: the run goes on as it stands.
LEMMA NoHighRiskIInv == ASSUME IInv, NoHighRisk PROVE IInv'
  <1>1. /\ step = "affected_party" /\ lock = "idle" /\ Proceed(step)
        /\ UNCHANGED <<scenario, branchVars, lockVars, clock, dutyVars>>
    BY DEF NoHighRisk
  <1>2. /\ FloorTypeOK /\ RoundsOK /\ Running /\ TodoOK /\ OnceEach(ran) /\ ~CutShort
    BY <1>1, IInvParts DEF CutShort
  <1>3. scenario.mode = "affected_party" /\ Amends /\ scenario \in Scenarios
    BY <1>1, <1>2 DEF Running, LoopOK, Wanted, Amends, FloorTypeOK
  <1>4. step' = "seal" /\ todo' \in Seq(Branches) /\ TodoOK' /\ "seal" \in Steps
    <2>1. After(step) = "seal" /\ "seal" \in Steps
      BY <1>1, <1>3, AfterTable, StepsAre DEF PhaseNames
    <2>2. QED
      BY <1>1, <1>2, <2>1, ProceedFacts
  <1>5. ~Joined(AffectedParty)
    BY <1>1, <1>2 DEF Running, CustomersOK, Ending
  <1>6. ASSUME NEW b \in Regulators, Live(b)
        PROVE  /\ state'[b] = Stage(b)' /\ claims'[b] = Asserts(b)'
               /\ Versions(b)' = Versions(b)
    <2>1. (Amended(b)' <=> Amended(b)) /\ (Amends' <=> Amends)
      BY <1>1 DEF Amended, Amends
    <2>2. /\ Stage(b) = "released"
          /\ Asserts(b) = IF Amended(b) THEN AmendedFacts ELSE CanonicalFacts
          /\ Versions(b) = IF Amended(b) THEN 2 ELSE 1
      BY <1>1, <1>3 DEF Stage, Asserts, Versions, Early, Joining, Ending
    <2>3. /\ Stage(b)' = "released"
          /\ Asserts(b)' = IF Amended(b) THEN AmendedFacts ELSE CanonicalFacts
          /\ Versions(b)' = IF Amended(b) THEN 2 ELSE 1
      BY <1>1, <1>3, <1>4, <2>1 DEF Stage, Asserts, Versions, Early, Joining, Ending
    <2>4. QED
      BY <1>1, <1>2, <1>6, <2>2, <2>3 DEF Running, LiveOK, branchVars
  <1>7. DutyOK'
    BY <1>1, <1>2, <1>3, <1>4 DEF Running, DutyOK, Early, Joining, Ending, dutyVars
  <1>8. step' \notin Early /\ Wanted(step')
    BY <1>4 DEF Early, Joining, Wanted
  <1>9. QED
    BY <1>1, <1>2, <1>4, <1>5, <1>6, <1>7, <1>8, QuietIInv
       DEF FloorTypeOK, branchVars, lockVars, dutyVars

\* The notice reopens the SEC branch, and no other.
LEMMA DeficiencyIInv == ASSUME IInv, DeficiencyNotice PROVE IInv'
  <1>1. /\ step = "deficiency" /\ Proceed(step)
        /\ state' = [state EXCEPT !["sec"] = Triage(@, "fact_amended")]
        /\ UNCHANGED <<scenario, claims, ran, lockVars, clock, dutyVars>>
    BY DEF DeficiencyNotice
  <1>2. /\ FloorTypeOK /\ RoundsOK /\ Running /\ TodoOK /\ OnceEach(ran) /\ ~CutShort
    BY <1>1, IInvParts DEF CutShort
  <1>3. scenario.mode = "deficiency" /\ scenario \in Scenarios
    BY <1>1, <1>2 DEF Running, LoopOK, Wanted, FloorTypeOK
  <1>4. step' = "cure" /\ todo' \in Seq(Branches) /\ TodoOK' /\ "cure" \in Steps
    <2>1. After(step) = "cure" /\ "cure" \in Steps
      BY <1>1, <1>3, AfterTable, StepsAre DEF PhaseNames
    <2>2. QED
      BY <1>1, <1>2, <2>1, ProceedFacts
  <1>5. ~Joined(AffectedParty) /\ lock = "idle"
    BY <1>1, <1>2 DEF Running, CustomersOK, LoopOK, Releases, Ending
  <1>6. "sec" \in Regulators /\ "sec" \in Branches /\ AffectedParty \in Branches
        /\ AffectedParty # "sec"
    BY DEF Regulators, Branches, AffectedParty
  <1>7. \A b : Stage(b) = "released" /\ Asserts(b) = CanonicalFacts /\ Versions(b) = 1
    BY <1>1 DEF Stage, Asserts, Versions, Early, Joining, Ending
  <1>8. state["sec"] = "released" \/ state["sec"] = "suppressed"
    <2>1. Joined("sec")
      BY <1>1, <1>2 DEF Running, RunOK, Regulators, Drafters
    <2>2. QED
      BY <1>2, <1>6, <1>7, <2>1 DEF Running, LiveOK, Live
  <1>9. /\ state' \in [Branches -> State]
        /\ \A b \in Branches : b # "sec" => state'[b] = state[b]
        /\ state["sec"] = "released" => state'["sec"] = "amending"
        /\ state["sec"] = "suppressed" => state'["sec"] = "suppressed"
    <2>1. Triage(state["sec"], "fact_amended") \in State
      BY <1>2, <1>6, NextStateTyped DEF FloorTypeOK, Triage
    <2>2. QED
      BY <1>1, <1>2, <1>6, <2>1, RunMoves DEF FloorTypeOK
  <1>10. ASSUME NEW b \in Regulators, Live(b)
         PROVE  /\ state'[b] = Stage(b)' /\ claims'[b] = Asserts(b)'
                /\ Versions(b)' = Versions(b)
    <2>1. state[b] = "released" /\ claims[b] = CanonicalFacts /\ b \in Branches
      BY <1>2, <1>7, <1>10 DEF Running, LiveOK, Branches
    <2>2. lock' = "idle"
      BY <1>1, <1>5 DEF lockVars
    <2>3. /\ Stage(b)' = IF b = "sec" THEN "amending" ELSE "released"
          /\ Asserts(b)' = CanonicalFacts /\ Versions(b)' = 1
      BY <1>4, <2>2 DEF Stage, Asserts, Versions, Early, Joining, Ending
    <2>4. QED
      BY <1>1, <1>7, <1>9, <2>1, <2>3
  <1>11. ASSUME NEW b \in Regulators, ~Live(b)
         PROVE  state'[b] = state[b]
    BY <1>1, <1>2, <1>8, <1>9, <1>11 DEF Live, Branches, Running, RunOK, Drafters
  <1>12. DutyOK'
    BY <1>1, <1>2, <1>3, <1>4 DEF Running, DutyOK, Early, Joining, Ending, dutyVars
  <1>13. step' \notin Early /\ Wanted(step')
    BY <1>3, <1>4 DEF Early, Joining, Wanted
  <1>14. QED
    BY <1>1, <1>2, <1>4, <1>5, <1>6, <1>9, <1>10, <1>11, <1>12, <1>13, QuietIInv
       DEF FloorTypeOK, lockVars, dutyVars

\* Nothing is released or drafted after the beats that end a run.
LEMMA EndStands ==
  ASSUME FloorTypeOK, Running, scenario' = scenario,
         \/ /\ step \in {"lift_hold", "submission"} /\ step' \in {"submission", "seal"}
            /\ ~Amends /\ scenario.mode # "deficiency"
         \/ step = "seal" /\ step' = "sealed",
         NEW b \in Regulators, Live(b)
  PROVE  /\ state[b] = Stage(b)' /\ claims[b] = Asserts(b)'
         /\ Versions(b)' = Versions(b)
  <1>1. (Amended(b)' <=> Amended(b)) /\ (Amends' <=> Amends)
    BY DEF Amended, Amends
  <1>2. Stage(b) = "released" /\ Stage(b)' = "released"
    BY DEF Stage, Joining
  <1>3. Asserts(b)' = Asserts(b) /\ Versions(b)' = Versions(b)
    <2>1. CASE step = "seal" /\ step' = "sealed"
      BY <1>1, <2>1 DEF Asserts, Versions, Early, Joining, Ending
    <2>2. CASE step # "seal"
      <3>1. Asserts(b) = CanonicalFacts /\ Versions(b) = 1
        BY <2>2 DEF Asserts, Versions, Early, Joining, Ending
      <3>2. Asserts(b)' = CanonicalFacts /\ Versions(b)' = 1
        BY <1>1, <2>2 DEF Asserts, Versions, Early, Joining, Ending
      <3>3. QED
        BY <3>1, <3>2
    <2>3. QED
      BY <2>1, <2>2
  <1>4. QED
    BY <1>2, <1>3 DEF Running, LiveOK

LEMMA LiftHoldIInv == ASSUME IInv, LiftHold PROVE IInv'
  <1>1. /\ step = "lift_hold" /\ Proceed(step) /\ hold' = "released"
        /\ UNCHANGED <<scenario, branchVars, lockVars, clock, guard, conflict, receipts>>
    BY DEF LiftHold
  <1>2. /\ FloorTypeOK /\ RoundsOK /\ Running /\ TodoOK /\ OnceEach(ran) /\ ~CutShort
    BY <1>1, IInvParts DEF CutShort
  <1>3. scenario.mode = "legal_hold" /\ scenario \in Scenarios /\ ~Amends
    BY <1>1, <1>2 DEF Running, LoopOK, Wanted, FloorTypeOK, Amends
  <1>4. step' = "seal" /\ todo' \in Seq(Branches) /\ TodoOK' /\ "seal" \in Steps
    <2>1. After(step) = "seal" /\ "seal" \in Steps
      BY <1>1, <1>3, AfterTable, StepsAre DEF PhaseNames
    <2>2. QED
      BY <1>1, <1>2, <2>1, ProceedFacts
  <1>5. ~Joined(AffectedParty) /\ lock = "idle"
    BY <1>1, <1>2 DEF Running, CustomersOK, LoopOK, Releases, Ending
  <1>6. \A b \in Regulators :
          Live(b) => /\ state'[b] = Stage(b)' /\ claims'[b] = Asserts(b)'
                     /\ Versions(b)' = Versions(b)
    BY <1>1, <1>2, <1>3, <1>4, EndStands DEF branchVars
  <1>7. DutyOK'
    BY <1>1, <1>2, <1>3, <1>4 DEF Running, DutyOK, Early, Joining, Ending
  <1>8. step' \notin Early /\ Wanted(step')
    BY <1>4 DEF Early, Joining, Wanted
  <1>9. QED
    BY <1>1, <1>2, <1>4, <1>5, <1>6, <1>7, <1>8, QuietIInv
       DEF FloorTypeOK, branchVars, lockVars

\* The receipts name exactly the released branches the pipeline submits.
LEMMA SubmissionIInv == ASSUME IInv, Submission PROVE IInv'
  <1>1. /\ step = "submission" /\ (Proceed(step) \/ Raise)
        /\ receipts' = { b \in Branches : Submittable(b) }
        /\ UNCHANGED <<scenario, branchVars, lockVars, clock, guard, conflict, hold>>
    BY DEF Submission
  <1>2. /\ FloorTypeOK /\ RoundsOK /\ Running /\ TodoOK /\ OnceEach(ran) /\ ~CutShort
    BY <1>1, IInvParts DEF CutShort
  <1>3. CASE Raise
    <2>1. "raised" \in Steps
      BY StepsAre
    <2>2. QED
      BY <1>1, <1>2, <1>3, <2>1, StopsIInv
         DEF Raise, FloorTypeOK, branchVars, lockVars
  <1>4. CASE Proceed(step)
    <2>1. scenario.mode = "submit" /\ scenario \in Scenarios /\ ~Amends
      BY <1>1, <1>2 DEF Running, LoopOK, Wanted, FloorTypeOK, Amends
    <2>2. step' = "seal" /\ todo' \in Seq(Branches) /\ TodoOK' /\ "seal" \in Steps
      <3>1. After(step) = "seal" /\ "seal" \in Steps
        BY <1>1, <2>1, AfterTable, StepsAre DEF PhaseNames
      <3>2. QED
        BY <1>2, <1>4, <3>1, ProceedFacts
    <2>3. ~Joined(AffectedParty) /\ lock = "idle" /\ hold # "released"
      BY <1>1, <1>2 DEF Running, CustomersOK, LoopOK, Releases, Ending, DutyOK
    <2>4. \A b \in Regulators :
            Live(b) => /\ state'[b] = Stage(b)' /\ claims'[b] = Asserts(b)'
                       /\ Versions(b)' = Versions(b)
      BY <1>1, <1>2, <2>1, <2>2, EndStands DEF branchVars
    <2>5. receipts' = { b \in SubmitBranches : state[b] = "released" }
      <3>1. SubmitBranches \subseteq Regulators /\ Regulators \subseteq Branches
        BY DEF SubmitBranches, Regulators, Branches
      <3>2. \A b \in SubmitBranches : state[b] = "released" => InRun(b)
        BY <1>1, <1>2, <3>1 DEF Running, RunOK
      <3>3. QED
        BY <1>1, <3>1, <3>2 DEF Submittable
    <2>6. DutyOK'
      BY <1>1, <1>2, <2>1, <2>2, <2>3, <2>5
         DEF Running, DutyOK, Early, Joining, Ending, branchVars
    <2>7. step' \notin Early /\ Wanted(step') /\ receipts' \subseteq Branches
      BY <1>1, <2>2 DEF Early, Joining, Wanted
    <2>8. QED
      BY <1>1, <1>2, <2>2, <2>3, <2>4, <2>6, <2>7, QuietIInv
         DEF FloorTypeOK, branchVars, lockVars
  <1>5. QED
    BY <1>1, <1>3, <1>4

LEMMA SealIInv == ASSUME IInv, Seal PROVE IInv'
  <1>1. /\ step = "seal" /\ step' = "sealed"
        /\ UNCHANGED <<scenario, todo, branchVars, lockVars, clock, dutyVars>>
    BY DEF Seal
  <1>2. /\ FloorTypeOK /\ RoundsOK /\ Running /\ TodoOK /\ OnceEach(ran) /\ ~CutShort
    BY <1>1, IInvParts DEF CutShort
  <1>3. lock = "idle"
    BY <1>1, <1>2 DEF Running, LoopOK, Releases
  <1>4. \A b \in Regulators :
          Live(b) => /\ state'[b] = Stage(b)' /\ claims'[b] = Asserts(b)'
                     /\ Versions(b)' = Versions(b)
    BY <1>1, <1>2, EndStands DEF branchVars
  <1>5. todo' \in Seq(Branches) /\ TodoOK'
    <2>1. \A b \in Branches : ~InTodo(b)
      BY <1>1, <1>2, VisitsAre DEF TodoOK, FloorTypeOK, Loops
    <2>2. todo' \in Seq(Branches) /\ OnceEach(todo')
          /\ \A b \in Branches : ~InTodo(b)'
      BY <1>1, <1>2, <2>1 DEF FloorTypeOK, TodoOK, InTodo
    <2>3. QED
      BY <1>1, <2>2 DEF TodoOK, Loops
  <1>6. DutyOK'
    BY <1>1, <1>2 DEF Running, DutyOK, Early, Joining, Ending, dutyVars, branchVars
  <1>7. step' \notin Early /\ Wanted(step') /\ step' \in Steps /\ step' \in Ending
    BY <1>1, StepsAre DEF Early, Joining, Wanted, Ending
  <1>8. QED
    BY <1>1, <1>2, <1>3, <1>4, <1>5, <1>6, <1>7, QuietIInv
       DEF FloorTypeOK, branchVars, lockVars, dutyVars

-----------------------------------------------------------------------------
(***************************************************************************)
(* The two keys.                                                           *)
(***************************************************************************)
LEMMA SignerFacts ==
  /\ RELEASE_SIGNERS \in Seq(REQUIRED_ROLES) /\ RELEASE_SIGNERS # <<>>
  /\ Head(RELEASE_SIGNERS) = "general_counsel"
  /\ Tail(RELEASE_SIGNERS) = <<"head_of_ir">>
  /\ <<"head_of_ir">> \in Seq(REQUIRED_ROLES) /\ Head(<<"head_of_ir">>) = "head_of_ir"
  /\ Tail(<<"head_of_ir">>) = <<>> /\ <<>> \in Seq(REQUIRED_ROLES)
  BY DEF RELEASE_SIGNERS, REQUIRED_ROLES

\* A release opens on a live branch with no key of this release in the lock.
LEMMA BeginIInv ==
  ASSUME IInv, step \in {"release", "amend_release", "cure"}, lock = "idle",
         AskSigners, UNCHANGED <<scenario, step, todo, ran, filed, clock, dutyVars>>,
         NEW b \in Regulators, b = Head(todo), InTodo(b), step = "cure" => b = "sec",
         keys' \in [Branches -> SUBSET (REQUIRED_ROLES \X Nat)],
         state' \in [Branches -> State],
         keys'[b] = {}, \A c \in Branches : c # b => keys'[c] = keys[c],
         \A c \in Branches : c # b => state'[c] = state[c],
         Live(b) => state'[b] = "awaiting_human_signoff",
         ~Live(b) => state'[b] = state[b],
         claims' \in [Branches -> Claims \cup {NoClaims}],
         \A c \in Branches : c # b => claims'[c] = claims[c],
         Live(b) => claims'[b] = claims[b],
         Joined(b)
  PROVE  IInv'
  <1>1. /\ FloorTypeOK /\ RoundsOK /\ Running /\ TodoOK /\ OnceEach(ran) /\ ~CutShort
    BY IInvParts DEF CutShort
  <1>2. lock' = "signing" /\ signers' = RELEASE_SIGNERS
    BY DEF AskSigners
  <1>3. FloorTypeOK'
    BY <1>1, <1>2, SignerFacts DEF FloorTypeOK, dutyVars
  <1>4. RoundsOK'
    BY <1>1 DEF RoundsOK, RoundFacts
  <1>5. LoopOK'
    BY <1>1 DEF Running, LoopOK, TodoOK, InTodo, Visits, Work, Wanted, Amends, Releases,
                Joined
  <1>6. step \notin Early /\ step # "open" /\ step \notin Ending
    BY DEF Early, Joining, Ending
  <1>7. RunOK' /\ \A c \in Regulators : Live(c)' <=> Live(c)
    <2>1. \A c \in Regulators : (InRun(c)' <=> InRun(c)) /\ (Joined(c)' <=> Joined(c))
      BY DEF InRun, Joined
    <2>2. \A c \in Regulators : Live(c) => state'[c] # "suppressed"
      BY DEF Live, Branches
    <2>3. \A c \in Regulators : ~Live(c) => filed'[c] = filed[c] /\ state'[c] = state[c]
      BY DEF Branches
    <2>4. \A c \in Regulators : ~Joined(c) => claims'[c] = claims[c]
      BY DEF Branches
    <2>5. QED
      BY <1>1, <1>6, <2>1, <2>2, <2>3, <2>4, RunFrame DEF Running
  <1>8. LiveOK'
    <2>1. SUFFICES ASSUME NEW c \in Regulators, Live(c)'
                   PROVE  /\ state'[c] = Stage(c)' /\ claims'[c] = Asserts(c)'
                          /\ Len(filed'[c]) = Versions(c)'
      BY DEF LiveOK
    <2>2. Live(c) /\ c \in Branches
      BY <1>7, <2>1 DEF Branches
    <2>3. /\ claims'[c] = claims[c]
      BY <2>2
    <2>4. (InTodo(c)' <=> InTodo(c)) /\ (Amended(c)' <=> Amended(c))
      BY DEF InTodo, Amended
    <2>5. Asserts(c)' = Asserts(c) /\ Versions(c)' = Versions(c)
      <3>1. CASE step = "release"
        BY <2>4, <3>1 DEF Asserts, Versions, Early, Joining, Ending
      <3>2. CASE step = "amend_release"
        BY <2>4, <3>2 DEF Asserts, Versions, Early, Joining, Ending
      <3>3. CASE step = "cure"
        BY <2>4, <3>3 DEF Asserts, Versions, Early, Joining, Ending
      <3>4. QED
        BY <3>1, <3>2, <3>3
    <2>6. state'[c] = Stage(c)'
      <3>1. CASE c = b
        <4>1. Signing(c)' /\ InTodo(c)'
          BY <1>2, <2>4, <3>1 DEF Signing
        <4>2. Stage(c)' = "awaiting_human_signoff"
          <5>1. CASE step = "release"
            BY <4>1, <5>1 DEF Stage, Joining
          <5>2. CASE step = "amend_release"
            BY <4>1, <5>2 DEF Stage, Joining
          <5>3. CASE step = "cure"
            BY <1>2, <3>1, <5>3 DEF Stage, Joining
          <5>4. QED
            BY <5>1, <5>2, <5>3
        <4>3. QED
          BY <2>2, <3>1, <4>2
      <3>2. CASE c # b
        <4>1. ~Signing(c)' /\ ~Signing(c)
          BY <3>2 DEF Signing
        <4>2. Stage(c)' = Stage(c)
          <5>1. CASE step = "release"
            BY <2>4, <4>1, <5>1 DEF Stage, Joining
          <5>2. CASE step = "amend_release"
            BY <2>4, <4>1, <5>2 DEF Stage, Joining
          <5>3. CASE step = "cure"
            BY <3>2, <5>3 DEF Stage, Joining
          <5>4. QED
            BY <5>1, <5>2, <5>3
        <4>3. QED
          BY <1>1, <2>2, <3>2, <4>2 DEF Running, LiveOK
      <3>3. QED
        BY <3>1, <3>2
    <2>7. QED
      BY <1>1, <2>2, <2>3, <2>5, <2>6 DEF Running, LiveOK
  <1>9. ClocksOK'
    BY <1>1 DEF Running, ClocksOK, Joined
  <1>10. CustomersOK'
    <2>1. ~Joined(AffectedParty)
      BY <1>1, <1>6 DEF Running, CustomersOK
    <2>2. AffectedParty # b /\ AffectedParty \in Branches
      BY DEF Regulators, AffectedParty, Branches
    <2>3. QED
      BY <1>1, <2>1, <2>2 DEF Running, CustomersOK, Joined, InRun
  <1>11. KeysOK'
    <2>1. \A c \in Branches : c # b => \A k \in keys'[c] : k[2] < Len(filed'[c])
      BY <1>1 DEF Running, KeysOK, Signing
    <2>2. Signing(b)'
      BY <1>2 DEF Signing
    <2>3. \A c \in Branches : ~Signing(c)' => \A k \in keys'[c] : k[2] < Len(filed'[c])
      BY <2>1, <2>2
    <2>4. keys'[Head(todo')] = {}
      OBVIOUS
    <2>5. QED
      BY <1>2, <2>3, <2>4 DEF KeysOK
  <1>12. DutyOK'
    BY <1>1, <1>6 DEF Running, DutyOK, dutyVars
  <1>13. QED
    BY <1>1, <1>3, <1>4, <1>5, <1>7, <1>8, <1>9, <1>10, <1>11, <1>12, AssembleIInv
       DEF Running, CutShort

LEMMA BeginReleaseIInv == ASSUME IInv, BeginRelease, NEW b, b = Head(todo) PROVE IInv'
  <1>1. /\ step = "release" /\ lock = "idle" /\ state[b] = "contradiction_checked"
        /\ state' = [state EXCEPT ![b] = Warden(@, "signoff_opened")]
        /\ AskSigners
        /\ UNCHANGED <<scenario, step, todo, claims, ran, keys, filed, clock, dutyVars>>
    BY DEF BeginRelease
  <1>2. /\ FloorTypeOK /\ RoundsOK /\ Running /\ TodoOK /\ OnceEach(ran) /\ ~CutShort
    BY <1>1, IInvParts DEF CutShort
  <1>3. b \in Regulators /\ b \in Branches /\ InTodo(b) /\ Live(b)
    <2>1. InTodo(b) /\ InRun(b) /\ b \in Branches
      BY <1>1, <1>2, HeadFacts, VisitsAre DEF TodoOK, Loops
    <2>2. ~InRun(AffectedParty)
      BY <1>1, <1>2 DEF Running, CustomersOK, Ending
    <2>3. b \in Regulators
      BY <2>1, <2>2 DEF Branches
    <2>4. QED
      BY <1>1, <1>2, <2>1, <2>3 DEF Running, RunOK, Live
  <1>4. keys[b] = {}
    <2>1. Versions(b) = 0
      BY <1>1, <1>3 DEF Versions, Early, Joining, Ending
    <2>2. Len(filed[b]) = 0
      BY <1>2, <1>3, <2>1 DEF Running, LiveOK
    <2>3. \A k \in keys[b] : k[2] < 0
      BY <1>1, <1>2, <1>3, <2>2 DEF Running, KeysOK, Signing
    <2>4. \A k \in keys[b] : k[2] \in Nat
      BY <1>2, <1>3 DEF FloorTypeOK
    <2>5. QED
      BY <2>3, <2>4
  <1>5. /\ state' \in [Branches -> State] /\ state'[b] = "awaiting_human_signoff"
        /\ \A c \in Branches : c # b => state'[c] = state[c]
    BY <1>1, <1>2, <1>3, RunMoves DEF FloorTypeOK, State
  <1>6. QED
    BY <1>1, <1>2, <1>3, <1>4, <1>5, BeginIInv DEF FloorTypeOK, Live

LEMMA BeginRereleaseIInv ==
  ASSUME IInv, BeginRerelease, NEW b, b = Head(todo) PROVE IInv'
  <1>1. /\ step = "amend_release" /\ lock = "idle"
        /\ state' = [state EXCEPT ![b] = OpenSignoff(@)]
        /\ keys' = [keys EXCEPT ![b] = {}]
        /\ AskSigners
        /\ UNCHANGED <<scenario, step, todo, claims, ran, filed, clock, dutyVars>>
    BY DEF BeginRerelease, Reset
  <1>2. /\ FloorTypeOK /\ RoundsOK /\ Running /\ TodoOK /\ OnceEach(ran) /\ ~CutShort
    BY <1>1, IInvParts DEF CutShort
  <1>3. b \in Regulators /\ b \in Branches /\ InTodo(b) /\ Joined(b)
    <2>1. InTodo(b) /\ b \in {"sec", "nis2"}
      BY <1>1, <1>2, HeadFacts, VisitsAre DEF TodoOK, Loops
    <2>2. QED
      BY <1>1, <1>2, <2>1 DEF Running, RunOK, Drafters, Branches, Regulators
  <1>4. state[b] = IF Live(b) THEN "draft_submitted" ELSE "suppressed"
    <2>1. ~Signing(b)
      BY <1>1 DEF Signing
    <2>2. Stage(b) = "draft_submitted"
      BY <1>1, <1>3, <2>1 DEF Stage, Joining
    <2>3. QED
      BY <1>2, <1>3, <2>2 DEF Running, LiveOK, Live
  <1>5. /\ state' \in [Branches -> State]
        /\ Live(b) => state'[b] = "awaiting_human_signoff"
        /\ ~Live(b) => state'[b] = state[b]
        /\ \A c \in Branches : c # b => state'[c] = state[c]
    BY <1>1, <1>2, <1>3, <1>4, RunMoves DEF FloorTypeOK, State
  <1>6. /\ keys' \in [Branches -> SUBSET (REQUIRED_ROLES \X Nat)] /\ keys'[b] = {}
        /\ \A c \in Branches : c # b => keys'[c] = keys[c]
    BY <1>1, <1>2, <1>3 DEF FloorTypeOK
  <1>7. QED
    BY <1>1, <1>2, <1>3, <1>5, <1>6, BeginIInv DEF FloorTypeOK

LEMMA CureIInv == ASSUME IInv, Cure PROVE IInv'
  <1>1. /\ step = "cure" /\ lock = "idle"
        /\ state' = [state EXCEPT !["sec"] = OpenSignoff(Drafter(@, "draft_posted"))]
        /\ claims' = [claims EXCEPT !["sec"] = CanonicalFacts]
        /\ keys' = [keys EXCEPT !["sec"] = {}]
        /\ AskSigners
        /\ UNCHANGED <<scenario, step, todo, ran, filed, clock, dutyVars>>
    BY DEF Cure, Reset
  <1>2. /\ FloorTypeOK /\ RoundsOK /\ Running /\ TodoOK /\ OnceEach(ran) /\ ~CutShort
    BY <1>1, IInvParts DEF CutShort
  <1>3. /\ "sec" = Head(todo) /\ InTodo("sec") /\ Joined("sec")
        /\ "sec" \in Regulators /\ "sec" \in Branches
    <2>1. InTodo(Head(todo)) /\ Head(todo) = "sec"
      BY <1>1, <1>2, HeadFacts, VisitsAre DEF TodoOK, Loops
    <2>2. QED
      BY <1>1, <1>2, <2>1 DEF Running, RunOK, Drafters, Branches, Regulators
  <1>4. /\ state["sec"] = IF Live("sec") THEN "amending" ELSE "suppressed"
        /\ Live("sec") => claims["sec"] = CanonicalFacts
    <2>1. Stage("sec") = "amending" /\ Asserts("sec") = CanonicalFacts
      BY <1>1 DEF Stage, Asserts, Joining, Ending
    <2>2. QED
      BY <1>2, <1>3, <2>1 DEF Running, LiveOK, Live
  <1>5. /\ state' \in [Branches -> State]
        /\ Live("sec") => state'["sec"] = "awaiting_human_signoff"
        /\ ~Live("sec") => state'["sec"] = state["sec"]
        /\ \A c \in Branches : c # "sec" => state'[c] = state[c]
    <2>1. OpenSignoff(Drafter(state["sec"], "draft_posted"))
            = IF Live("sec") THEN "awaiting_human_signoff" ELSE "suppressed"
      BY <1>4, RunMoves
    <2>2. QED
      BY <1>1, <1>2, <1>3, <1>4, <2>1 DEF FloorTypeOK, State
  <1>6. /\ keys' \in [Branches -> SUBSET (REQUIRED_ROLES \X Nat)] /\ keys'["sec"] = {}
        /\ \A c \in Branches : c # "sec" => keys'[c] = keys[c]
        /\ claims' \in [Branches -> Claims \cup {NoClaims}]
        /\ claims'["sec"] = CanonicalFacts
        /\ \A c \in Branches : c # "sec" => claims'[c] = claims[c]
    BY <1>1, <1>2, <1>3, FactsDiffer DEF FloorTypeOK
  <1>7. QED
    BY <1>1, <1>2, <1>3, <1>4, <1>5, <1>6, BeginIInv DEF FloorTypeOK

\* The communication to the customers goes to an empty lock of its own.
LEMMA HighRiskIInv == ASSUME IInv, HighRisk PROVE IInv'
  <1>1. /\ step = "affected_party" /\ lock = "idle" /\ AskSigners
        /\ UNCHANGED <<scenario, step, todo, ran, filed, dutyVars>>
    BY DEF HighRisk
  <1>2. /\ FloorTypeOK /\ RoundsOK /\ Running /\ TodoOK /\ OnceEach(ran) /\ ~CutShort
    BY <1>1, IInvParts DEF CutShort
  <1>3. Head(todo) = AffectedParty /\ AffectedParty \in Branches
        /\ AffectedParty \notin Regulators /\ Regulators \subseteq Branches
    <2>1. Head(todo) \in Visits(step)
      BY <1>1, <1>2, HeadFacts DEF TodoOK, Loops
    <2>2. QED
      BY <1>1, <2>1, VisitsAre DEF Branches, Regulators, AffectedParty
  <1>4. /\ state[AffectedParty] = "initiated" /\ filed[AffectedParty] = <<>>
        /\ ~InRun(AffectedParty)
    BY <1>1, <1>2 DEF Running, CustomersOK, Ending
  <1>5. OpenSignoff(Drafter(Drafter(Triage(state[AffectedParty], "fact_record_posted"),
                                    "draft_started"), "draft_posted"))
          = "awaiting_human_signoff"
    BY <1>4, RunMoves
  <1>6. /\ state' = [state EXCEPT ![AffectedParty] = "awaiting_human_signoff"]
        /\ claims' = [claims EXCEPT ![AffectedParty] =
                        [CanonicalFacts EXCEPT !.records = AmendedFacts.records]]
        /\ clock' = [clock EXCEPT ![AffectedParty] = "running"]
        /\ keys' = [keys EXCEPT ![AffectedParty] = {}]
    BY <1>3, <1>5 DEF HighRisk, Reset
  <1>7. /\ state' \in [Branches -> State]
        /\ claims' \in [Branches -> Claims \cup {NoClaims}]
        /\ keys' \in [Branches -> SUBSET (REQUIRED_ROLES \X Nat)]
        /\ clock' \in [Branches \cup StartupClocks -> {"none", "running", "stopped"}]
        /\ state'[AffectedParty] = "awaiting_human_signoff"
        /\ clock'[AffectedParty] = "running" /\ keys'[AffectedParty] = {}
        /\ \A c \in Regulators : /\ state'[c] = state[c] /\ claims'[c] = claims[c]
                                 /\ clock'[c] = clock[c] /\ keys'[c] = keys[c]
    <2>1. /\ state \in [Branches -> State]
          /\ claims \in [Branches -> Claims \cup {NoClaims}]
          /\ keys \in [Branches -> SUBSET (REQUIRED_ROLES \X Nat)]
          /\ clock \in [Branches \cup StartupClocks -> {"none", "running", "stopped"}]
      BY <1>2 DEF FloorTypeOK
    <2>2. /\ "awaiting_human_signoff" \in State
          /\ [CanonicalFacts EXCEPT !.records = AmendedFacts.records] \in Claims
      BY FactsDiffer DEF State
    <2>3. QED
      BY <1>3, <1>6, <2>1, <2>2
  <1>8. lock' = "signing" /\ signers' = RELEASE_SIGNERS
    BY <1>1 DEF AskSigners
  <1>9. FloorTypeOK'
    BY <1>1, <1>2, <1>7, <1>8, SignerFacts DEF FloorTypeOK, dutyVars
  <1>10. RoundsOK'
    BY <1>1, <1>2 DEF RoundsOK, RoundFacts
  <1>11. \A c \in Regulators : Joined(c)' <=> Joined(c)
    BY <1>7 DEF Joined
  <1>12. LoopOK'
    BY <1>1, <1>2 DEF Running, LoopOK, TodoOK, InTodo, Visits, Work, Wanted, Amends,
                      Releases
  <1>13. RunOK' /\ \A c \in Regulators : Live(c)' <=> Live(c)
    <2>1. \A c \in Regulators : InRun(c)' <=> InRun(c)
      BY <1>1 DEF InRun
    <2>2. \A c \in Regulators : Live(c) => state'[c] # "suppressed"
      BY <1>7 DEF Live
    <2>3. step # "open" /\ step' # "open" /\ step' \notin Early
      BY <1>1 DEF Early, Joining
    <2>4. \A c \in Regulators : clock[c] = "stopped" => clock'[c] = "stopped"
      BY <1>7
    <2>5. \A c \in Regulators : ~Live(c) => filed'[c] = filed[c] /\ state'[c] = state[c]
      BY <1>1, <1>7
    <2>6. \A c \in Regulators : ~Joined(c) => claims'[c] = claims[c]
      BY <1>7
    <2>7. QED
      BY <1>1, <1>2, <1>11, <2>1, <2>2, <2>3, <2>4, <2>5, <2>6, RunFrame DEF Running
  <1>14. LiveOK'
    <2>1. SUFFICES ASSUME NEW c \in Regulators, Live(c)'
                   PROVE  /\ state'[c] = Stage(c)' /\ claims'[c] = Asserts(c)'
                          /\ Len(filed'[c]) = Versions(c)'
      BY DEF LiveOK
    <2>2. (Amended(c)' <=> Amended(c)) /\ (Amends' <=> Amends)
      BY <1>1 DEF Amended, Amends
    <2>3. Stage(c)' = "released" /\ Stage(c) = "released"
      BY <1>1 DEF Stage, Joining
    <2>4. Asserts(c)' = Asserts(c) /\ Versions(c)' = Versions(c)
      BY <1>1, <2>2 DEF Asserts, Versions, Early, Joining, Ending
    <2>5. QED
      BY <1>1, <1>2, <1>7, <1>13, <2>1, <2>3, <2>4 DEF Running, LiveOK
  <1>15. ClocksOK'
    BY <1>1, <1>2, <1>4, <1>7, <1>11 DEF Running, ClocksOK, Branches
  <1>16. CustomersOK'
    <2>1. claims'[AffectedParty] # NoClaims
      <3>1. claims'[AffectedParty] \in Claims
        BY <1>2, <1>3, <1>6, FactsDiffer DEF FloorTypeOK
      <3>2. QED
        BY <3>1, FactsDiffer
    <2>2. QED
      BY <1>1, <1>4, <1>7, <1>8, <2>1 DEF CustomersOK, Joined, InRun
  <1>17. KeysOK'
    <2>1. \A c \in Regulators : \A k \in keys'[c] : k[2] < Len(filed'[c])
      BY <1>1, <1>2, <1>3, <1>7 DEF Running, KeysOK, Signing
    <2>2. keys'[Head(todo')] = {} /\ Signing(AffectedParty)'
      BY <1>1, <1>3, <1>7, <1>8 DEF Signing
    <2>3. \A c \in Branches : ~Signing(c)' => c \in Regulators
      BY <2>2 DEF Branches
    <2>4. QED
      BY <1>8, <2>1, <2>2, <2>3 DEF KeysOK
  <1>18. DutyOK'
    <2>1. step \notin Ending
      BY <1>1 DEF Ending
    <2>2. QED
      BY <1>1, <1>2, <2>1 DEF Running, DutyOK, dutyVars
  <1>19. ~CutShort'
    BY <1>1 DEF CutShort
  <1>20. QED
    BY <1>9, <1>10, <1>12, <1>13, <1>14, <1>15, <1>16, <1>17, <1>18, <1>19, AssembleIInv
       DEF Running

LEMMA RolesOfKeys ==
  ASSUME NEW n
  PROVE  /\ SignedRoles({<<"general_counsel", n>>}) = {"general_counsel"}
         /\ SignedRoles({<<"general_counsel", n>>, <<"head_of_ir", n>>})
              = {"general_counsel", "head_of_ir"}
  <1>1. <<"general_counsel", n>>[1] = "general_counsel"
        /\ <<"head_of_ir", n>>[1] = "head_of_ir"
    OBVIOUS
  <1>2. QED
    BY <1>1 DEF SignedRoles

\* The two roles sign in turn, and the second signature turns the lock.
LEMMA SignKeyIInv == ASSUME IInv, SignKey, NEW b, b = Head(todo) PROVE IInv'
  <1> DEFINE role == Head(signers)
             n == Len(filed[b])
             signed == { k \in keys[b] : k[1] # role } \cup {<<role, n>>}
  <1>1. /\ step \in Releases /\ lock = "signing" /\ signers # <<>>
        /\ keys' = [keys EXCEPT ![b] = signed]
        /\ lock' = IF REQUIRED_ROLES \subseteq SignedRoles(signed) THEN "turned"
                                                                   ELSE lock
        /\ signers' = Tail(signers)
        /\ UNCHANGED <<scenario, step, todo, branchVars, filed, clock, dutyVars>>
    BY DEF SignKey
  <1>2. /\ FloorTypeOK /\ RoundsOK /\ Running /\ TodoOK /\ OnceEach(ran) /\ ~CutShort
    BY <1>1, IInvParts DEF CutShort, Releases
  <1>3. b \in Branches /\ n \in Nat
    <2>1. b \in Branches
      BY <1>1, <1>2, HeadFacts DEF TodoOK, Loops, Releases
    <2>2. QED
      BY <1>2, <2>1, LenProperties DEF FloorTypeOK
  <1>4. \/ /\ signers = RELEASE_SIGNERS /\ keys[b] = {}
        \/ /\ signers = <<"head_of_ir">> /\ keys[b] = {<<"general_counsel", n>>}
    BY <1>1, <1>2 DEF Running, KeysOK, Key
  <1>5. /\ signers' \in Seq(REQUIRED_ROLES)
        /\ \/ /\ signed = {<<"general_counsel", n>>} /\ lock' = "signing"
              /\ signers' = <<"head_of_ir">>
           \/ /\ signed = {<<"general_counsel", n>>, <<"head_of_ir", n>>}
              /\ lock' = "turned"
    <2>1. CASE signers = RELEASE_SIGNERS /\ keys[b] = {}
      <3>1. role = "general_counsel" /\ signers' = <<"head_of_ir">>
        BY <1>1, <2>1, SignerFacts
      <3>2. signed = {<<"general_counsel", n>>}
        BY <2>1, <3>1
      <3> HIDE DEF signed, n
      <3>3. SignedRoles(signed) = {"general_counsel"}
        BY <3>2, RolesOfKeys
      <3>4. lock' = "signing"
        BY <1>1, <3>3 DEF REQUIRED_ROLES
      <3>5. QED
        BY <3>1, <3>2, <3>4, SignerFacts
    <2>2. CASE signers = <<"head_of_ir">> /\ keys[b] = {<<"general_counsel", n>>}
      <3>1. role = "head_of_ir" /\ signers' = <<>>
        BY <1>1, <2>2, SignerFacts
      <3>2. signed = {<<"general_counsel", n>>, <<"head_of_ir", n>>}
        <4>1. { k \in keys[b] : k[1] # role } = {<<"general_counsel", n>>}
          BY <2>2, <3>1
        <4>2. QED
          BY <3>1, <4>1
      <3> HIDE DEF signed, n
      <3>3. SignedRoles(signed) = {"general_counsel", "head_of_ir"}
        BY <3>2, RolesOfKeys
      <3>4. lock' = "turned"
        BY <1>1, <3>3 DEF REQUIRED_ROLES
      <3>5. QED
        BY <3>1, <3>2, <3>4, SignerFacts
    <2>3. QED
      BY <1>4, <2>1, <2>2
  <1>6. signed \in SUBSET (REQUIRED_ROLES \X Nat)
    BY <1>3, <1>5 DEF REQUIRED_ROLES
  <1> HIDE DEF signed, role
  <1>7. /\ keys' \in [Branches -> SUBSET (REQUIRED_ROLES \X Nat)]
        /\ keys'[b] = signed /\ \A c \in Branches : c # b => keys'[c] = keys[c]
    BY <1>1, <1>2, <1>3, <1>6 DEF FloorTypeOK
  <1>8. FloorTypeOK'
    BY <1>1, <1>2, <1>5, <1>7 DEF FloorTypeOK, branchVars, dutyVars
  <1>9. \A c : (Signing(c)' <=> Signing(c)) /\ (InTodo(c)' <=> InTodo(c))
               /\ (Amended(c)' <=> Amended(c)) /\ (Joined(c)' <=> Joined(c))
               /\ (Live(c)' <=> Live(c)) /\ (InRun(c)' <=> InRun(c))
    BY <1>1, <1>5 DEF Signing, InTodo, Amended, Joined, Live, InRun, branchVars
  <1>10. RoundsOK'
    BY <1>1, <1>2 DEF RoundsOK, RoundFacts
  <1>11. LoopOK'
    BY <1>1, <1>2 DEF Running, LoopOK, TodoOK, InTodo, Visits, Work, Wanted, Amends,
                      Joined, branchVars
  <1>12. RunOK' /\ ClocksOK'
    BY <1>1, <1>2, <1>9 DEF Running, RunOK, ClocksOK, branchVars
  <1>13. LiveOK'
    <2>1. SUFFICES ASSUME NEW c \in Regulators, Live(c)
                   PROVE  /\ Stage(c)' = Stage(c) /\ Asserts(c)' = Asserts(c)
                          /\ Versions(c)' = Versions(c)
      BY <1>1, <1>2, <1>9 DEF Running, LiveOK, branchVars
    <2>2. ~(lock = "idle") /\ ~(lock' = "idle") /\ (Amends' <=> Amends)
      BY <1>1, <1>5 DEF Amends
    <2>3. Stage(c)' = Stage(c)
      <3>1. CASE step = "release"
        BY <1>1, <1>9, <3>1 DEF Stage, Joining
      <3>2. CASE step = "amend_release"
        BY <1>1, <1>9, <3>2 DEF Stage, Joining
      <3>3. CASE step = "affected_party"
        BY <1>1, <3>3 DEF Stage, Joining
      <3>4. CASE step = "cure"
        BY <1>1, <2>2, <3>4 DEF Stage, Joining
      <3>5. QED
        BY <1>1, <3>1, <3>2, <3>3, <3>4 DEF Releases
    <2>4. Asserts(c)' = Asserts(c) /\ Versions(c)' = Versions(c)
      <3>1. CASE step = "release"
        BY <1>1, <1>9, <3>1 DEF Asserts, Versions, Early, Joining, Ending
      <3>2. CASE step = "amend_release"
        BY <1>1, <1>9, <3>2 DEF Asserts, Versions, Early, Joining, Ending
      <3>3. CASE step = "affected_party"
        BY <1>1, <1>9, <2>2, <3>3 DEF Asserts, Versions, Early, Joining, Ending
      <3>4. CASE step = "cure"
        BY <1>1, <3>4 DEF Asserts, Versions, Early, Joining, Ending
      <3>5. QED
        BY <1>1, <3>1, <3>2, <3>3, <3>4 DEF Releases
    <2>5. QED
      BY <2>3, <2>4
  <1>14. CustomersOK'
    <2>1. lock # "idle" /\ lock' # "idle"
      BY <1>1, <1>5
    <2>2. step \notin Ending
      BY <1>1 DEF Releases, Ending
    <2>3. QED
      BY <1>1, <1>2, <1>9, <2>1, <2>2 DEF Running, CustomersOK, branchVars
  <1>15. KeysOK'
    <2>1. b = Head(todo') /\ Signing(b)' /\ Len(filed'[b]) = n
      BY <1>1, <1>5 DEF Signing
    <2>2. \A c \in Branches : ~Signing(c)' => \A k \in keys'[c] : k[2] < Len(filed'[c])
      BY <1>1, <1>2, <1>7, <1>9, <2>1 DEF Running, KeysOK
    <2>3. QED
      BY <1>5, <1>7, <2>1, <2>2 DEF KeysOK, Key
  <1>16. DutyOK'
    BY <1>1, <1>2 DEF Running, DutyOK, dutyVars, branchVars
  <1>17. ~CutShort'
    BY <1>1, <1>2 DEF CutShort
  <1>18. QED
    BY <1>8, <1>10, <1>11, <1>12, <1>13, <1>14, <1>15, <1>16, <1>17, AssembleIInv
       DEF Running

\* A filing is what the last draft said, and uses up the keys.
LEMMA FiledIInv ==
  ASSUME IInv, lock = "turned", step \in {"release", "amend_release", "cure"},
         NEW b \in Regulators, b = Head(todo), Live(b),
         lock' = "idle", signers' = <<>>,
         UNCHANGED <<scenario, claims, ran, keys, dutyVars>>,
         state' = [state EXCEPT ![b] = "released"],
         filed' = [filed EXCEPT ![b] = Append(@, claims[b])],
         clock' = IF step = "release" THEN [clock EXCEPT ![b] = "stopped"] ELSE clock,
         step' \in Steps, todo' \in Seq(Branches), TodoOK', Wanted(step'),
         step' \in {"release", "amend_release", "amend", "affected_party",
                    "deficiency", "lift_hold", "submission", "seal"},
         \A c \in Regulators \ {b} :
           Live(c) => /\ Stage(c)' = Stage(c) /\ Asserts(c)' = Asserts(c)
                      /\ Versions(c)' = Versions(c),
         Stage(b)' = "released", Asserts(b)' = Asserts(b),
         Versions(b) \in {0, 1}, Versions(b)' = Versions(b) + 1,
         Asserts(b) = RoundFacts(Versions(b) + 1),
         step # "release" => Versions(b) = 1,
         DutyOK'
  PROVE  IInv'
  <1>1. /\ FloorTypeOK /\ RoundsOK /\ Running /\ TodoOK /\ OnceEach(ran) /\ ~CutShort
        /\ step \notin Early /\ step \notin Ending
    BY IInvParts DEF CutShort, Early, Joining, Ending
  <1>2. /\ claims[b] = RoundFacts(Len(filed[b]) + 1) /\ b \in Branches
        /\ Len(filed[b]) = Versions(b) /\ claims[b] = Asserts(b)
        /\ b # AffectedParty
    BY <1>1 DEF Running, LiveOK, Branches, Regulators, AffectedParty
  <1>3. claims[b] \in Claims
    BY <1>2, FactsDiffer DEF RoundFacts
  <1>4. /\ filed[b] \in Seq(Claims) /\ filed'[b] = Append(filed[b], claims[b])
        /\ filed' \in [Branches -> Seq(Claims)]
        /\ \A c \in Branches : c # b => filed'[c] = filed[c]
    BY <1>1, <1>2, <1>3, AppendProperties DEF FloorTypeOK
  <1>5. /\ filed'[b] \in Seq(Claims) /\ Len(filed'[b]) = Len(filed[b]) + 1
        /\ DOMAIN filed'[b] = 1..(Len(filed[b]) + 1)
        /\ DOMAIN filed[b] = 1..Len(filed[b])
        /\ \A i \in 1..Len(filed[b]) : filed'[b][i] = filed[b][i]
        /\ filed'[b][Len(filed[b]) + 1] = claims[b]
    BY <1>3, <1>4, AppendProperties, LenProperties
  <1>6. /\ state' \in [Branches -> State] /\ state'[b] = "released"
        /\ \A c \in Branches : c # b => state'[c] = state[c]
    BY <1>1, <1>2 DEF FloorTypeOK, State
  <1>7. /\ clock' \in [Branches \cup StartupClocks -> {"none", "running", "stopped"}]
        /\ \A c \in Branches : c # b => clock'[c] = clock[c]
        /\ clock'[b] = "stopped"
    <2>1. clock \in [Branches \cup StartupClocks -> {"none", "running", "stopped"}]
      BY <1>1 DEF FloorTypeOK
    <2>2. CASE step = "release"
      BY <1>2, <2>1, <2>2
    <2>3. CASE step # "release"
      <3>1. Len(<<>>) = 0
        OBVIOUS
      <3>2. filed[b] # <<>>
        BY <1>2, <2>3, <3>1
      <3>3. clock[b] = "stopped"
        BY <1>1, <1>2, <3>2 DEF Running, ClocksOK, Live
      <3>4. QED
        BY <2>1, <2>3, <3>3
    <2>4. QED
      BY <2>2, <2>3
  <1>8. \A c \in Branches : Joined(c)' <=> Joined(c)
    BY <1>7 DEF Joined, Live
  <1>9. \A c : InRun(c)' <=> InRun(c)
    BY DEF InRun
  <1>10. FloorTypeOK'
    BY <1>1, <1>4, <1>6, <1>7, SignerFacts DEF FloorTypeOK, dutyVars
  <1>11. RoundsOK'
    <2>1. \A i : RoundFacts(i)' = RoundFacts(i)
      BY DEF RoundFacts
    <2>2. \A i \in DOMAIN filed'[b] : filed'[b][i] = RoundFacts(i)
      <3>1. Len(filed[b]) \in Nat
        BY <1>4, LenProperties
      <3>2. \A i \in 1..Len(filed[b]) : filed'[b][i] = RoundFacts(i)
        BY <1>1, <1>5 DEF RoundsOK
      <3>3. filed'[b][Len(filed[b]) + 1] = RoundFacts(Len(filed[b]) + 1)
        BY <1>2, <1>5
      <3>4. \A i \in 1..(Len(filed[b]) + 1) : i \in 1..Len(filed[b])
                                                \/ i = Len(filed[b]) + 1
        BY <3>1
      <3>5. QED
        BY <1>5, <3>2, <3>3, <3>4
    <2>3. \A c \in Regulators : c # b => \A i \in DOMAIN filed'[c] :
            filed'[c][i] = RoundFacts(i)
      BY <1>1, <1>4 DEF RoundsOK, Branches
    <2>4. QED
      BY <2>1, <2>2, <2>3 DEF RoundsOK
  <1>12. LoopOK'
    BY <1>1 DEF Running, LoopOK, Wanted, Amends
  <1>13. RunOK' /\ \A c \in Regulators : Live(c)' <=> Live(c)
    <2>1. \A c \in Regulators : (InRun(c)' <=> InRun(c)) /\ (Joined(c)' <=> Joined(c))
      BY <1>8, <1>9 DEF Branches
    <2>2. \A c \in Regulators : Live(c) => state'[c] # "suppressed"
      BY <1>6 DEF Live, Branches
    <2>3. step # "open" /\ step' # "open" /\ step' \notin Early
      BY DEF Early, Joining
    <2>4. \A c \in Regulators : clock[c] = "stopped" => clock'[c] = "stopped"
      BY <1>7 DEF Branches
    <2>5. \A c \in Regulators : ~Live(c) => filed'[c] = filed[c] /\ state'[c] = state[c]
      BY <1>4, <1>6 DEF Branches
    <2>6. QED
      BY <1>1, <2>1, <2>2, <2>3, <2>4, <2>5, RunFrame DEF Running
  <1>14. LiveOK'
    <2>1. SUFFICES ASSUME NEW c \in Regulators, Live(c)'
                   PROVE  /\ state'[c] = Stage(c)' /\ claims'[c] = Asserts(c)'
                          /\ Len(filed'[c]) = Versions(c)'
      BY DEF LiveOK
    <2>2. Live(c) /\ c \in Branches
      BY <1>13, <2>1 DEF Branches
    <2>3. CASE c = b
      BY <1>2, <1>5, <1>6, <2>3
    <2>4. CASE c # b
      <3>1. state'[c] = state[c] /\ filed'[c] = filed[c] /\ claims'[c] = claims[c]
        BY <1>4, <1>6, <2>2, <2>4
      <3>2. /\ Stage(c)' = Stage(c) /\ Asserts(c)' = Asserts(c)
            /\ Versions(c)' = Versions(c)
        BY <2>2, <2>4
      <3>3. QED
        BY <1>1, <2>2, <3>1, <3>2 DEF Running, LiveOK
    <2>5. QED
      BY <2>3, <2>4
  <1>15. ClocksOK'
    BY <1>1, <1>4, <1>7, <1>8 DEF Running, ClocksOK
  <1>16. CustomersOK'
    <2>1. ~Joined(AffectedParty) /\ AffectedParty \in Branches
      BY <1>1 DEF Running, CustomersOK, Branches
    <2>2. QED
      BY <1>1, <1>2, <1>4, <1>6, <1>8, <1>9, <2>1 DEF Running, CustomersOK
  <1>17. KeysOK'
    <2>1. Len(filed[b]) \in Nat
      BY <1>4, LenProperties
    <2>2. \A k \in keys[b] : k[2] = Len(filed[b])
      BY <1>1 DEF Running, KeysOK, Key
    <2>3. \A k \in keys'[b] : k[2] < Len(filed'[b])
      BY <1>5, <2>1, <2>2
    <2>4. \A c \in Branches : c # b => \A k \in keys'[c] : k[2] < Len(filed'[c])
      BY <1>1, <1>4 DEF Running, KeysOK, Signing
    <2>5. QED
      BY <2>3, <2>4 DEF KeysOK
  <1>18. ~CutShort'
    BY DEF CutShort
  <1>19. QED
    BY <1>10, <1>11, <1>12, <1>13, <1>14, <1>15, <1>16, <1>17, <1>18, AssembleIInv
       DEF Running

\* What a turned lock does to the branch in hand.
LEMMA TurnFacts ==
  ASSUME FloorTypeOK, Running, Turn, NEW b, b = Head(todo),
         Admits(state[b], "human_released", "human_owner")
  PROVE  /\ step \in Releases /\ lock = "turned" /\ lock' = "idle" /\ signers' = <<>>
         /\ step \in Loops /\ NextBranch
         /\ b \in Branches /\ InTodo(b) /\ b \in Visits(step) /\ Signing(b)
         /\ state[b] = "awaiting_human_signoff"
         /\ state' = [state EXCEPT ![b] = "released"]
         /\ filed' = [filed EXCEPT ![b] = Append(@, claims[b])]
         /\ clock' = IF StopsClock THEN [clock EXCEPT ![b] = "stopped"] ELSE clock
         /\ ran' = IF b = AffectedParty THEN Append(ran, b) ELSE ran
         /\ UNCHANGED <<scenario, claims, keys, dutyVars>>
  <1>1. /\ step \in Releases /\ lock = "turned" /\ lock' = "idle" /\ signers' = <<>>
        /\ UNCHANGED <<scenario, claims, keys, dutyVars>>
        /\ Admits(state[b], "human_released", "human_owner")
        /\ state' = [state EXCEPT ![b] =
                       NextState(@, "human_released", "human_owner")]
        /\ filed' = [filed EXCEPT ![b] = Append(@, claims[b])]
        /\ clock' = IF StopsClock THEN [clock EXCEPT ![b] = "stopped"] ELSE clock
        /\ ran' = IF b = AffectedParty THEN Append(ran, b) ELSE ran
        /\ NextBranch
    BY DEF Turn
  <1>2. step \in Loops
    BY <1>1 DEF Releases, Loops
  <1>3. b \in Branches /\ InTodo(b) /\ b \in Visits(step)
    BY <1>2, HeadFacts DEF Running, LoopOK, TodoOK
  <1>4. state[b] = "awaiting_human_signoff"
    <2>1. state[b] \in State
      BY <1>3 DEF FloorTypeOK
    <2>2. QED
      BY <1>1, <2>1, RunMoves
  <1>5. state' = [state EXCEPT ![b] = "released"]
    BY <1>1, <1>4, RunMoves
  <1>6. Signing(b)
    BY <1>1 DEF Signing
  <1>7. QED
    BY <1>1, <1>2, <1>3, <1>4, <1>5, <1>6

\* A loop over one branch ends with it.
LEMMA SingleVisit ==
  ASSUME FloorTypeOK, TodoOK, OnceEach(ran), NextBranch,
         step \in {"affected_party", "cure"}, After(step) \in Steps \ {"release"}
  PROVE  step' = After(step) /\ todo' \in Seq(Branches) /\ TodoOK'
  <1> DEFINE b == Head(todo)
  <1>1. step \in Loops /\ step # "release"
    BY DEF Loops
  <1>2. /\ todo' \in Seq(Branches) /\ TodoOK'
        /\ \/ /\ step' = step
              /\ \A c : InTodo(c)' <=> InTodo(c) /\ c # b
           \/ step' = After(step)
    BY <1>1, NextBranchFacts
  <1>3. \A c \in Branches : InTodo(c) => c = b
    <2>1. todo # <<>>
      BY <1>1 DEF TodoOK
    <2>2. b \in Visits(step)
      BY <2>1, HeadFacts
    <2>3. QED
      BY <2>2, VisitsAre DEF TodoOK
  <1>4. CASE step' = step /\ \A c : InTodo(c)' <=> InTodo(c) /\ c # b
    <2>1. todo' # <<>> /\ OnceEach(todo')
      BY <1>1, <1>2, <1>4 DEF TodoOK
    <2>2. Head(todo') \in Branches /\ \E i \in DOMAIN todo' : todo'[i] = Head(todo')
      BY <1>2, <2>1, TailFacts
    <2>3. \E c \in Branches : \E i \in DOMAIN todo' : todo'[i] = c
      BY <2>2
    <2>4. \E c \in Branches : InTodo(c)'
      BY <2>3 DEF InTodo
    <2>5. QED
      BY <1>3, <1>4, <2>4
  <1>5. QED
    BY <1>2, <1>4

LEMMA TurnReleaseIInv ==
  ASSUME IInv, Turn, step = "release", NEW b, b = Head(todo),
         Admits(state[b], "human_released", "human_owner")
  PROVE  IInv'
  <1>1. /\ FloorTypeOK /\ RoundsOK /\ Running /\ TodoOK /\ OnceEach(ran) /\ ~CutShort
    BY IInvParts DEF CutShort
  <1>2. /\ lock = "turned" /\ lock' = "idle" /\ signers' = <<>> /\ NextBranch
        /\ InTodo(b) /\ Signing(b) /\ state[b] = "awaiting_human_signoff"
        /\ state' = [state EXCEPT ![b] = "released"]
        /\ filed' = [filed EXCEPT ![b] = Append(@, claims[b])]
        /\ clock' = [clock EXCEPT ![b] = "stopped"]
        /\ ran' = IF b = AffectedParty THEN Append(ran, b) ELSE ran
        /\ UNCHANGED <<scenario, claims, keys, dutyVars>>
        /\ b \in Visits("release")
    BY <1>1, TurnFacts DEF StopsClock
  <1>3. b # AffectedParty
    <2>1. ~InRun(AffectedParty)
      BY <1>1 DEF Running, CustomersOK, Ending
    <2>2. InRun(b)
      BY <1>2, VisitsAre
    <2>3. QED
      BY <2>1, <2>2
  <1>4. ran' = ran
    BY <1>2, <1>3
  <1>5. /\ step' \in Steps /\ todo' \in Seq(Branches) /\ TodoOK' /\ Wanted(step')
        /\ step' \in {"release", "amend", "deficiency", "lift_hold",
                      "submission", "seal"}
        /\ step' = "seal" => scenario.mode \notin {"deficiency", "legal_hold",
                                                   "submit"}
        /\ b \in Regulators /\ Joined(b)
        /\ \A c \in Regulators \ {b} :
             /\ Stage(c)' = Stage(c) /\ Asserts(c)' = Asserts(c)
             /\ Versions(c)' = Versions(c)
        /\ Stage(b)' = "released" /\ Asserts(b)' = CanonicalFacts /\ Versions(b)' = 1
    BY <1>1, <1>2, <1>4, ReleaseMoves
  <1>6. Live(b)
    BY <1>2, <1>5 DEF Live
  <1>7. Asserts(b) = CanonicalFacts /\ Versions(b) = 0
    BY <1>2 DEF Asserts, Versions, Early, Joining, Ending
  <1>8. RoundFacts(Versions(b) + 1) = CanonicalFacts
    BY <1>7 DEF RoundFacts
  <1>9. DutyOK'
    <2>1. guard = "empty" /\ hold # "released" /\ conflict # "blocked"
      BY <1>1, ReleaseFacts
    <2>2. hold = "active" => scenario.mode = "legal_hold"
      BY <1>1 DEF Running, DutyOK
    <2>3. QED
      BY <1>2, <1>5, <2>1, <2>2 DEF DutyOK, Early, Joining, Ending, dutyVars
  <1>10. clock' = IF step = "release" THEN [clock EXCEPT ![b] = "stopped"] ELSE clock
    BY <1>2
  <1>11. /\ step' \in {"release", "amend_release", "amend", "affected_party",
                       "deficiency", "lift_hold", "submission", "seal"}
         /\ Versions(b) \in {0, 1} /\ Versions(b)' = Versions(b) + 1
         /\ Asserts(b)' = Asserts(b) /\ Asserts(b) = RoundFacts(Versions(b) + 1)
    BY <1>5, <1>7, <1>8
  <1>12. UNCHANGED <<scenario, claims, ran, keys, dutyVars>>
    BY <1>2, <1>4
  <1>13. QED
    BY <1>2, <1>5, <1>6, <1>9, <1>10, <1>11, <1>12, FiledIInv

LEMMA TurnRereleaseIInv ==
  ASSUME IInv, Turn, step = "amend_release", NEW b, b = Head(todo),
         Admits(state[b], "human_released", "human_owner")
  PROVE  IInv'
  <1>1. /\ FloorTypeOK /\ RoundsOK /\ Running /\ TodoOK /\ OnceEach(ran) /\ ~CutShort
    BY IInvParts DEF CutShort
  <1>2. /\ lock = "turned" /\ lock' = "idle" /\ signers' = <<>> /\ NextBranch
        /\ step \in Loops
        /\ InTodo(b) /\ Signing(b) /\ state[b] = "awaiting_human_signoff"
        /\ state' = [state EXCEPT ![b] = "released"]
        /\ filed' = [filed EXCEPT ![b] = Append(@, claims[b])]
        /\ clock' = clock
        /\ ran' = IF b = AffectedParty THEN Append(ran, b) ELSE ran
        /\ UNCHANGED <<scenario, claims, keys, dutyVars>>
        /\ b \in Visits("amend_release")
    BY <1>1, TurnFacts DEF StopsClock
  <1>3. \A c : Amended(c) <=> c \in {"sec", "nis2"}
    BY WorkLists
  <1>4. /\ b \in {"sec", "nis2"} /\ b \in Regulators /\ Amended(b) /\ ran' = ran
    BY <1>2, <1>3, VisitsAre DEF Regulators, AffectedParty
  <1>5. Live(b)
    BY <1>1, <1>2, <1>4 DEF Running, RunOK, Live, Drafters
  <1>6. /\ Amends /\ ~Joined(AffectedParty) /\ hold = "none" /\ conflict # "blocked"
        /\ scenario.mode \notin {"deficiency", "legal_hold", "submit"}
        /\ guard = "concurred"
    BY <1>1, AmendmentFacts DEF Running, DutyOK
  <1>7. /\ After(step) \in {"affected_party", "seal"}
        /\ After(step) = "affected_party" => scenario.mode = "affected_party"
        /\ After(step) \in Steps
    BY <1>1, <1>6, AfterTable, StepsAre DEF FloorTypeOK, PhaseNames
  <1>8. /\ step' \in Steps /\ todo' \in Seq(Branches) /\ TodoOK'
        /\ \/ /\ step' = "amend_release"
              /\ \A c : InTodo(c)' <=> InTodo(c) /\ c # b
           \/ /\ step' \in {"affected_party", "seal"}
              /\ step' = "affected_party" => scenario.mode = "affected_party"
              /\ \A c : InTodo(c) => c = b
    BY <1>1, <1>2, <1>7, NextBranchFacts
  <1>9. Wanted(step')
    BY <1>6, <1>8 DEF Wanted
  <1>10. ASSUME NEW c \in Regulators
         PROVE  /\ Stage(c)' = IF step' = "amend_release" /\ InTodo(c)'
                                 THEN "draft_submitted" ELSE "released"
                /\ Asserts(c)' = IF Amended(c) THEN AmendedFacts ELSE CanonicalFacts
                /\ Versions(c)' = IF Amended(c) /\ ~(step' = "amend_release"
                                                     /\ InTodo(c)')
                                    THEN 2 ELSE 1
    <2>1. ~Signing(c)' /\ (Amended(c)' <=> Amended(c)) /\ (Amends' <=> Amends)
      BY <1>2 DEF Signing, Amended, Amends
    <2>2. CASE step' = "amend_release"
      BY <2>1, <2>2 DEF Stage, Asserts, Versions, Early, Joining, Ending
    <2>3. CASE step' \in {"affected_party", "seal"}
      BY <1>2, <1>6, <2>1, <2>3 DEF Stage, Asserts, Versions, Early, Joining, Ending
    <2>4. QED
      BY <1>8, <2>2, <2>3
  <1>11. ASSUME NEW c \in Regulators, c # b
         PROVE  /\ Stage(c) = IF InTodo(c) THEN "draft_submitted" ELSE "released"
                /\ Asserts(c) = IF Amended(c) THEN AmendedFacts ELSE CanonicalFacts
                /\ Versions(c) = IF Amended(c) /\ ~InTodo(c) THEN 2 ELSE 1
    <2>1. ~Signing(c)
      BY <1>11 DEF Signing
    <2>2. QED
      BY <2>1 DEF Stage, Asserts, Versions, Early, Joining, Ending
  <1>12. Asserts(b) = AmendedFacts /\ Versions(b) = 1
    BY <1>2, <1>4 DEF Asserts, Versions, Early, Joining, Ending
  <1>13. RoundFacts(Versions(b) + 1) = AmendedFacts
    BY <1>6, <1>12 DEF RoundFacts
  <1>14. ~(step' = "amend_release" /\ InTodo(b)')
    BY <1>8
  <1>15. \A c \in Regulators \ {b} :
           /\ Stage(c)' = Stage(c) /\ Asserts(c)' = Asserts(c)
           /\ Versions(c)' = Versions(c)
    BY <1>8, <1>10, <1>11
  <1>16. DutyOK'
    BY <1>2, <1>6, <1>8 DEF DutyOK, Early, Joining, Ending, dutyVars
  <1>17. Stage(b)' = "released" /\ Asserts(b)' = AmendedFacts /\ Versions(b)' = 2
    BY <1>4, <1>10, <1>14
  <1>18. step' \in {"amend_release", "affected_party", "seal"}
    BY <1>8
  <1>19. clock' = IF step = "release" THEN [clock EXCEPT ![b] = "stopped"] ELSE clock
    BY <1>2
  <1>20. /\ step' \in {"release", "amend_release", "amend", "affected_party",
                       "deficiency", "lift_hold", "submission", "seal"}
         /\ Versions(b) \in {0, 1} /\ Versions(b)' = Versions(b) + 1
         /\ Asserts(b)' = Asserts(b) /\ Asserts(b) = RoundFacts(Versions(b) + 1)
         /\ Versions(b) = 1 /\ Stage(b)' = "released"
    BY <1>12, <1>13, <1>17, <1>18
  <1>21. UNCHANGED <<scenario, claims, ran, keys, dutyVars>>
    BY <1>2, <1>4
  <1>22. QED
    BY <1>2, <1>4, <1>5, <1>8, <1>9, <1>15, <1>16, <1>19, <1>20, <1>21, FiledIInv

LEMMA TurnCureIInv ==
  ASSUME IInv, Turn, step = "cure", NEW b, b = Head(todo),
         Admits(state[b], "human_released", "human_owner")
  PROVE  IInv'
  <1>1. /\ FloorTypeOK /\ RoundsOK /\ Running /\ TodoOK /\ OnceEach(ran) /\ ~CutShort
    BY IInvParts DEF CutShort
  <1>2. /\ lock = "turned" /\ lock' = "idle" /\ signers' = <<>> /\ NextBranch
        /\ Signing(b) /\ state[b] = "awaiting_human_signoff"
        /\ state' = [state EXCEPT ![b] = "released"]
        /\ filed' = [filed EXCEPT ![b] = Append(@, claims[b])]
        /\ clock' = clock
        /\ ran' = IF b = AffectedParty THEN Append(ran, b) ELSE ran
        /\ UNCHANGED <<scenario, claims, keys, dutyVars>>
        /\ b \in Visits("cure")
    BY <1>1, TurnFacts DEF StopsClock
  <1>3. b = "sec" /\ b \in Regulators /\ ran' = ran
    BY <1>2, VisitsAre DEF Regulators, AffectedParty
  <1>4. Live(b)
    BY <1>1, <1>2, <1>3 DEF Running, RunOK, Live, Drafters
  <1>5. scenario.mode = "deficiency" /\ scenario \in Scenarios
    BY <1>1 DEF Running, LoopOK, Wanted, FloorTypeOK
  <1>6. After(step) = "seal" /\ "seal" \in Steps
    BY <1>5, AfterTable, StepsAre DEF PhaseNames
  <1>7. step' = "seal" /\ todo' \in Seq(Branches) /\ TodoOK'
    BY <1>1, <1>2, <1>6, SingleVisit
  <1>8. Wanted(step')
    BY <1>7 DEF Wanted
  <1>9. \A c : /\ c # b => Stage(c) = "released" /\ Versions(c) = 1
               /\ Asserts(c) = CanonicalFacts
               /\ c = b => Versions(c) = 1
    BY <1>3 DEF Stage, Asserts, Versions, Early, Joining, Ending
  <1>10. \A c : /\ Stage(c)' = "released" /\ Asserts(c)' = CanonicalFacts
                /\ Versions(c)' = IF c = b THEN 2 ELSE 1
    <2>1. ~Amends' /\ scenario'.mode = "deficiency"
      BY <1>2, <1>5 DEF Amends
    <2>2. QED
      BY <1>3, <1>7, <2>1 DEF Stage, Asserts, Versions, Early, Joining, Ending
  <1>11. RoundFacts(Versions(b) + 1) = CanonicalFacts
    BY <1>5 DEF RoundFacts
  <1>12. DutyOK'
    <2>1. hold = "none" /\ conflict # "blocked"
      BY <1>1, <1>5 DEF Running, DutyOK, FloorTypeOK
    <2>2. QED
      BY <1>2, <1>5, <1>7, <2>1 DEF DutyOK, Early, Joining, Ending, dutyVars
  <1>13. clock' = IF step = "release" THEN [clock EXCEPT ![b] = "stopped"] ELSE clock
    BY <1>2
  <1>14. \A c \in Regulators \ {b} :
           /\ Stage(c)' = Stage(c) /\ Asserts(c)' = Asserts(c)
           /\ Versions(c)' = Versions(c)
    BY <1>9, <1>10
  <1>15. /\ step' \in {"release", "amend_release", "amend", "affected_party",
                       "deficiency", "lift_hold", "submission", "seal"}
         /\ Versions(b) \in {0, 1} /\ Versions(b)' = Versions(b) + 1
         /\ Asserts(b)' = Asserts(b) /\ Asserts(b) = RoundFacts(Versions(b) + 1)
         /\ Versions(b) = 1 /\ Stage(b)' = "released"
    BY <1>7, <1>9, <1>10, <1>11
  <1>16. UNCHANGED <<scenario, claims, ran, keys, dutyVars>> /\ step' \in Steps
    BY <1>2, <1>3, <1>6, <1>7
  <1>17. QED
    BY <1>2, <1>3, <1>4, <1>7, <1>8, <1>12, <1>13, <1>14, <1>15, <1>16, FiledIInv

\* The customers are told once: the communication is the last filing of a run.
LEMMA TurnNoticeIInv ==
  ASSUME IInv, Turn, step = "affected_party",
         Admits(state[Head(todo)], "human_released", "human_owner")
  PROVE  IInv'
  <1>1. /\ FloorTypeOK /\ RoundsOK /\ Running /\ TodoOK /\ OnceEach(ran) /\ ~CutShort
    BY IInvParts DEF CutShort
  <1>2. /\ Head(todo) = AffectedParty /\ AffectedParty \in Branches
        /\ AffectedParty \notin Regulators /\ Regulators \subseteq Branches
    <2>1. Head(todo) \in Visits(step)
      BY <1>1, TurnFacts
    <2>2. QED
      BY <2>1, VisitsAre DEF Branches, Regulators, AffectedParty
  <1>3. /\ lock = "turned" /\ lock' = "idle" /\ signers' = <<>> /\ NextBranch
        /\ state[AffectedParty] = "awaiting_human_signoff"
        /\ state' = [state EXCEPT ![AffectedParty] = "released"]
        /\ filed' = [filed EXCEPT ![AffectedParty] = Append(@, claims[AffectedParty])]
        /\ clock' = [clock EXCEPT ![AffectedParty] = "stopped"]
        /\ ran' = Append(ran, AffectedParty)
        /\ UNCHANGED <<scenario, claims, keys, dutyVars>>
    BY <1>1, <1>2, TurnFacts DEF StopsClock
  <1>4. /\ Joined(AffectedParty) /\ filed[AffectedParty] = <<>>
        /\ ~InRun(AffectedParty)
    BY <1>1, <1>3 DEF Running, CustomersOK, Ending
  <1>5. claims[AffectedParty] \in Claims
    <2>1. claims[AffectedParty] # NoClaims
      BY <1>1, <1>3, <1>4 DEF Running, CustomersOK
    <2>2. QED
      BY <1>1, <1>2, <2>1 DEF FloorTypeOK
  <1>6. scenario.mode = "affected_party" /\ Amends /\ scenario \in Scenarios
    BY <1>1 DEF Running, LoopOK, Wanted, Amends, FloorTypeOK
  <1>7. After(step) = "seal" /\ "seal" \in Steps
    BY <1>6, AfterTable, StepsAre DEF PhaseNames
  <1>8. step' = "seal" /\ todo' \in Seq(Branches) /\ TodoOK'
    BY <1>1, <1>3, <1>7, SingleVisit
  <1>9. /\ filed'[AffectedParty] = <<claims[AffectedParty]>>
        /\ filed' \in [Branches -> Seq(Claims)]
        /\ \A c \in Regulators : filed'[c] = filed[c]
    <2>1. Append(<<>>, claims[AffectedParty]) = <<claims[AffectedParty]>>
      OBVIOUS
    <2>2. <<claims[AffectedParty]>> \in Seq(Claims)
      BY <1>5
    <2>3. filed' = [filed EXCEPT ![AffectedParty] = <<claims[AffectedParty]>>]
      BY <1>3, <1>4, <2>1
    <2>4. QED
      BY <1>1, <1>2, <2>2, <2>3 DEF FloorTypeOK
  <1>10. /\ state' \in [Branches -> State] /\ state'[AffectedParty] = "released"
         /\ clock' \in [Branches \cup StartupClocks -> {"none", "running", "stopped"}]
         /\ clock'[AffectedParty] = "stopped"
         /\ \A c \in Regulators : state'[c] = state[c] /\ clock'[c] = clock[c]
    BY <1>1, <1>2, <1>3 DEF FloorTypeOK, State
  <1>11. /\ ran' \in Seq(Branches) /\ OnceEach(ran')
         /\ \A c : InRun(c)' <=> InRun(c) \/ c = AffectedParty
    <2>1. ran \in Seq(Branches) /\ ~\E i \in DOMAIN ran : ran[i] = AffectedParty
      BY <1>1, <1>4 DEF FloorTypeOK, InRun
    <2>2. /\ Append(ran, AffectedParty) \in Seq(Branches)
          /\ OnceEach(Append(ran, AffectedParty))
          /\ \A c : (\E i \in DOMAIN Append(ran, AffectedParty) :
                       Append(ran, AffectedParty)[i] = c)
                      <=> (\E i \in DOMAIN ran : ran[i] = c) \/ c = AffectedParty
      BY <1>1, <1>2, <2>1, JoinFacts
    <2>3. QED
      BY <1>3, <2>2 DEF InRun
  <1>12. FloorTypeOK'
    BY <1>1, <1>3, <1>7, <1>8, <1>9, <1>10, <1>11, SignerFacts DEF FloorTypeOK, dutyVars
  <1>13. RoundsOK'
    <2>1. \A i : RoundFacts(i)' = RoundFacts(i)
      BY <1>3 DEF RoundFacts
    <2>2. QED
      BY <1>1, <1>9, <2>1 DEF RoundsOK
  <1>14. \A c \in Regulators : Joined(c)' <=> Joined(c)
    BY <1>10 DEF Joined
  <1>15. LoopOK'
    BY <1>3, <1>8, <1>11 DEF LoopOK, Wanted
  <1>16. RunOK' /\ \A c \in Regulators : Live(c)' <=> Live(c)
    <2>1. \A c \in Regulators : InRun(c)' <=> InRun(c)
      BY <1>2, <1>11
    <2>2. \A c \in Regulators : Live(c) => state'[c] # "suppressed"
      BY <1>10 DEF Live
    <2>3. step # "open" /\ step' # "open" /\ step' \notin Early
      BY <1>8 DEF Early, Joining
    <2>4. \A c \in Regulators : clock[c] = "stopped" => clock'[c] = "stopped"
      BY <1>10
    <2>5. \A c \in Regulators : ~Live(c) => filed'[c] = filed[c] /\ state'[c] = state[c]
      BY <1>9, <1>10
    <2>6. QED
      BY <1>1, <1>3, <1>14, <2>1, <2>2, <2>3, <2>4, <2>5, RunFrame DEF Running
  <1>17. LiveOK'
    <2>1. SUFFICES ASSUME NEW c \in Regulators, Live(c)'
                   PROVE  /\ state'[c] = Stage(c)' /\ claims'[c] = Asserts(c)'
                          /\ Len(filed'[c]) = Versions(c)'
      BY DEF LiveOK
    <2>2. (Amended(c)' <=> Amended(c)) /\ Amends'
      BY <1>3, <1>6 DEF Amended, Amends
    <2>3. Stage(c)' = "released" /\ Stage(c) = "released"
      BY <1>8 DEF Stage, Joining
    <2>4. Asserts(c)' = Asserts(c) /\ Versions(c)' = Versions(c)
      BY <1>3, <1>6, <1>8, <2>2 DEF Asserts, Versions, Early, Joining, Ending
    <2>5. QED
      BY <1>1, <1>3, <1>9, <1>10, <1>16, <2>1, <2>3, <2>4 DEF Running, LiveOK
  <1>18. ClocksOK'
    BY <1>1, <1>9, <1>10, <1>14 DEF Running, ClocksOK, Branches
  <1>19. CustomersOK'
    BY <1>3, <1>6, <1>8, <1>9, <1>10, <1>11 DEF CustomersOK, Joined, Ending
  <1>20. KeysOK'
    <2>1. \A c \in Regulators : \A k \in keys'[c] : k[2] < Len(filed'[c])
      BY <1>1, <1>2, <1>3, <1>9 DEF Running, KeysOK, Signing
    <2>2. \A k \in keys'[AffectedParty] : k[2] < Len(filed'[AffectedParty])
      <3>1. Len(<<>>) = 0 /\ Len(<<claims[AffectedParty]>>) = 1
        OBVIOUS
      <3>2. Len(filed[AffectedParty]) = 0 /\ Len(filed'[AffectedParty]) = 1
        BY <1>4, <1>9, <3>1
      <3>3. \A k \in keys[AffectedParty] : k[2] = 0
        BY <1>1, <1>2, <1>3, <3>2 DEF Running, KeysOK, Key
      <3>4. keys' = keys
        BY <1>3
      <3>5. QED
        BY <3>2, <3>3, <3>4
    <2>3. QED
      BY <1>3, <2>1, <2>2 DEF KeysOK, Branches
  <1>21. DutyOK'
    BY <1>1, <1>3, <1>6, <1>8 DEF Running, DutyOK, Early, Joining, Ending, dutyVars
  <1>22. ~CutShort'
    BY <1>8 DEF CutShort
  <1>23. QED
    BY <1>12, <1>13, <1>15, <1>16, <1>17, <1>18, <1>19, <1>20, <1>21, <1>22, AssembleIInv
       DEF Running

LEMMA TurnIInv == ASSUME IInv, Turn PROVE IInv'
  <1>1. step \in Releases /\ lock' = "idle" /\ signers' = <<>>
        /\ UNCHANGED <<scenario, claims, keys, dutyVars>>
    BY DEF Turn
  <1>2. FloorTypeOK /\ Running
    BY <1>1, IInvParts DEF Releases, CutShort
  <1>3. CASE Admits(state[Head(todo)], "human_released", "human_owner")
    BY <1>1, <1>3, TurnReleaseIInv, TurnRereleaseIInv, TurnCureIInv, TurnNoticeIInv
       DEF Releases
  <1>4. CASE ~Admits(state[Head(todo)], "human_released", "human_owner")
    <2>1. step' = "raised" /\ todo' = todo /\ "raised" \in Steps
      BY <1>4, StepsAre DEF Raise, Turn
    <2>2. UNCHANGED <<state, filed, clock, ran>>
      BY <1>4 DEF Turn
    <2>3. FloorTypeOK'
      BY <1>1, <1>2, <2>1, <2>2, SignerFacts DEF FloorTypeOK, dutyVars
    <2>4. QED
      BY <1>1, <2>1, <2>2, <2>3, StopsIInv DEF dutyVars
  <1>5. QED
    BY <1>3, <1>4

\* A failure leaves the branches as they stand.
LEMMA InterruptIInv == ASSUME IInv, Interrupt PROVE IInv'
  <1>1. /\ step' = "interrupted" /\ "interrupted" \in Steps
        /\ UNCHANGED <<scenario, todo, branchVars, lockVars, clock, dutyVars>>
    BY StepsAre DEF Interrupt
  <1>2. FloorTypeOK'
    BY <1>1 DEF IInv, FloorTypeOK, branchVars, lockVars, dutyVars
  <1>3. QED
    BY <1>1, <1>2, StopsIInv DEF branchVars, lockVars, dutyVars

LEMMA StutterIInv == ASSUME IInv, UNCHANGED vars PROVE IInv'
  <1> USE DEF vars, branchVars, lockVars, dutyVars
  <1>1. FloorTypeOK' /\ RoundsOK' /\ FiledIsWhatWasDrafted' /\ LastThingsLast'
        /\ (CutShort' <=> CutShort)
    BY DEF IInv, FloorTypeOK, RoundsOK, RoundFacts, FiledIsWhatWasDrafted,
           LastThingsLast, CutShort
  <1>2. ASSUME ~CutShort
        PROVE  /\ LoopOK' /\ RunOK' /\ ClocksOK' /\ CustomersOK' /\ KeysOK' /\ DutyOK'
    <2>1. LoopOK /\ RunOK /\ ClocksOK /\ CustomersOK /\ KeysOK /\ DutyOK
      BY <1>2 DEF IInv
    <2>2. LoopOK'
      BY <2>1 DEF LoopOK, TodoOK, InTodo, Visits, Work, Wanted, Amends, Joined
    <2>3. RunOK' /\ ClocksOK' /\ CustomersOK'
      BY <2>1 DEF RunOK, ClocksOK, CustomersOK, InRun, Joined, Live
    <2>4. KeysOK' /\ DutyOK'
      BY <2>1 DEF KeysOK, DutyOK, Signing, Key
    <2>5. QED
      BY <2>2, <2>3, <2>4
  <1>3. ASSUME ~CutShort
        PROVE  LiveOK'
    <2>1. SUFFICES ASSUME NEW b \in Regulators, Live(b)
                   PROVE  /\ Stage(b)' = Stage(b) /\ Asserts(b)' = Asserts(b)
                          /\ Versions(b)' = Versions(b)
      BY <1>3 DEF IInv, LiveOK, Live, Joined
    <2>2. Stage(b)' = Stage(b)
      BY DEF Stage, InTodo, Signing, Amended
    <2>3. Asserts(b)' = Asserts(b)
      BY DEF Asserts, InTodo, Amended, Amends, ClaimFactsFor
    <2>4. Versions(b)' = Versions(b)
      BY DEF Versions, InTodo, Amended, Amends
    <2>5. QED
      BY <2>2, <2>3, <2>4
  <1>4. QED
    BY <1>1, <1>2, <1>3 DEF IInv

LEMMA NextIInv == ASSUME IInv, [Next]_vars PROVE IInv'
  <1>1. CASE Open
    BY <1>1, OpenIInv
  <1>2. CASE Materiality \/ Reportability
    BY <1>2, MaterialityIInv, ReportabilityIInv
  <1>3. CASE SkipSuppressed \/ Draft
    BY <1>3, DraftingIInv
  <1>4. CASE Recruit
    BY <1>4, RecruitIInv
  <1>5. CASE CrossBorderScan \/ CrossBorderSignoff
    BY <1>5, CrossBorderIInv
  <1>6. CASE Diff \/ Resolve
    BY <1>6, DiffIInv, ResolveIInv
  <1>7. CASE BeginRelease \/ SkipUnchecked
    BY <1>7, BeginReleaseIInv, SkipUncheckedIInv
  <1>8. CASE SignKey
    BY <1>8, SignKeyIInv
  <1>9. CASE Turn
    BY <1>9, TurnIInv
  <1>10. CASE Amend \/ Propose \/ Concur
    BY <1>10, AmendIInv, ConcurrenceIInv
  <1>11. CASE SubmitAmendment \/ AmendDiff \/ BeginRerelease
    BY <1>11, SubmitAmendmentIInv, AmendDiffIInv, BeginRereleaseIInv
  <1>12. CASE NoHighRisk \/ HighRisk
    BY <1>12, NoHighRiskIInv, HighRiskIInv
  <1>13. CASE DeficiencyNotice \/ Cure
    BY <1>13, DeficiencyIInv, CureIInv
  <1>14. CASE LiftHold \/ Submission \/ Seal
    BY <1>14, LiftHoldIInv, SubmissionIInv, SealIInv
  <1>15. CASE Interrupt
    BY <1>15, InterruptIInv
  <1>16. CASE Over \/ UNCHANGED vars
    BY <1>16, StutterIInv DEF Over
  <1>17. QED
    BY <1>1, <1>2, <1>3, <1>4, <1>5, <1>6, <1>7, <1>8, <1>9, <1>10, <1>11, <1>12,
       <1>13, <1>14, <1>15, <1>16 DEF Next, Drive
-----------------------------------------------------------------------------
(***************************************************************************)
(* The theorems, for every set of command lines main() accepts.            *)
(***************************************************************************)

\* Where the driver stands says what every branch has been through.
\* (_run_full_floor)
THEOREM FloorInvariant == Spec => []IInv
  <1>1. Init => IInv
    BY InitIInv
  <1>2. IInv /\ [Next]_vars => IInv'
    BY NextIInv
  <1>3. QED
    BY <1>1, <1>2, PTL DEF Spec

\* What the regulators were sent in one round agrees across the branches, in
\* the first filings, in the amended ones and in the cure.  (_diff_and_gate,
\* _amendment_phase, _deficiency_phase)
THEOREM RoundsAgree == Spec => []FilingsOfARoundAgree
  <1>1. IInv => FilingsOfARoundAgree
    BY DEF IInv, RoundsOK, FilingsOfARoundAgree
  <1>2. QED
    BY <1>1, FloorInvariant, PTL

\* What the run holds released is what its last draft said, also in a run that
\* was interrupted.  (_two_key_release)
THEOREM FilingsStand == Spec => []FiledIsWhatWasDrafted
  <1>1. IInv => FiledIsWhatWasDrafted
    BY DEF IInv
  <1>2. QED
    BY <1>1, FloorInvariant, PTL

\* The customers hear of it, and the hold is lifted, after every regulator's
\* filing stands.  (_affected_party_phase, _release_legal_hold)
THEOREM CustomersComeLast == Spec => []LastThingsLast
  <1>1. IInv => LastThingsLast
    BY DEF IInv
  <1>2. QED
    BY <1>1, FloorInvariant, PTL

LEMMA IInvGivesSealed == IInv => SealedRunIsComplete
  <1>1. CASE step = "sealed" /\ IInv
    <2>1. ~CutShort
      BY <1>1 DEF CutShort
    <2>2. QED
      BY <1>1, <2>1, SealedIsComplete, IInvParts
  <1>2. CASE step # "sealed"
    BY <1>2 DEF SealedRunIsComplete
  <1>3. QED
    BY <1>1, <1>2

\* A sealed run left nothing half done.  (_run_full_floor)
THEOREM SealedRunsAreComplete == Spec => []SealedRunIsComplete
  <1>1. IInv => SealedRunIsComplete
    BY IInvGivesSealed
  <1>2. QED
    BY <1>1, FloorInvariant, PTL
-----------------------------------------------------------------------------
(***************************************************************************)
(* Every branch is a filing in the sense of FilingLifecycle.               *)
(***************************************************************************)
Unchecked == {"initiated", "fact_record_ready", "drafting", "draft_submitted"}
Checked == {"contradiction_checked", "awaiting_human_signoff"}

LEMMA NextStateMoves ==
  ASSUME NEW s, NEW e, NEW role
  PROVE  \/ NextState(s, e, role) = s
         \/ Moves(s, e, role, NextState(s, e, role))
  <1>1. CASE Admits(s, e, role)
    <2>1. \E t \in State : Moves(s, e, role, t)
      BY <1>1 DEF Admits
    <2>2. Moves(s, e, role, CHOOSE t \in State : Moves(s, e, role, t))
      BY <2>1
    <2>3. QED
      BY <1>1, <2>2 DEF NextState
  <1>2. CASE ~Admits(s, e, role)
    BY <1>2 DEF NextState
  <1>3. QED
    BY <1>1, <1>2

\* What the driver's events can do to a branch, wherever it stands.
LEMMA EventMoves ==
  ASSUME NEW s \in State
  PROVE
  /\ Triage(s, "fact_record_posted") \in IF s \in Unchecked THEN Unchecked ELSE {s}
  /\ Drafter(s, "draft_started") \in IF s \in Unchecked THEN Unchecked ELSE {s}
  /\ s # "amending" =>
       Drafter(s, "draft_posted") \in IF s \in Unchecked THEN Unchecked ELSE {s}
  /\ Warden(s, "diff_passed")
       \in IF s \in Unchecked THEN Unchecked \cup Checked ELSE {s}
  /\ Warden(s, "diff_blocked")
       \in IF s \in Unchecked \cup Checked THEN Unchecked \cup Checked ELSE {s}
  /\ Warden(s, "signoff_opened")
       \in IF s \in Unchecked \cup Checked THEN Unchecked \cup Checked ELSE {s}
  /\ Suppress(s) \in IF s \in Unchecked THEN Unchecked \cup {"suppressed"} ELSE {s}
  /\ Triage(s, "fact_amended") = IF s = "released" THEN "amending" ELSE s
  <1> USE DEF Moves, TRANSITIONS, ProtocolRows, BreachRows, State, Event,
              TERMINAL_STATES, REOPENABLE_STATES, Unchecked, Checked
  <1>1. /\ Triage(s, "fact_record_posted") \in IF s \in Unchecked THEN Unchecked ELSE {s}
        /\ Drafter(s, "draft_started") \in IF s \in Unchecked THEN Unchecked ELSE {s}
    BY NextStateMoves DEF Triage, Drafter
  <1>2. s # "amending" =>
          Drafter(s, "draft_posted") \in IF s \in Unchecked THEN Unchecked ELSE {s}
    BY NextStateMoves DEF Drafter
  <1>3. /\ Warden(s, "diff_passed")
             \in IF s \in Unchecked THEN Unchecked \cup Checked ELSE {s}
        /\ Warden(s, "diff_blocked")
             \in IF s \in Unchecked \cup Checked THEN Unchecked \cup Checked ELSE {s}
    BY NextStateMoves DEF Warden
  <1>4. Warden(s, "signoff_opened")
          \in IF s \in Unchecked \cup Checked THEN Unchecked \cup Checked ELSE {s}
    BY NextStateMoves DEF Warden
  <1>5. Suppress(s) \in IF s \in Unchecked THEN Unchecked \cup {"suppressed"} ELSE {s}
    BY NextStateMoves DEF Suppress
  <1>6. Triage(s, "fact_amended") = IF s = "released" THEN "amending" ELSE s
    <2>1. CASE s = "released"
      BY <2>1, RunMoves
    <2>2. CASE s # "released"
      BY <2>2, NextStateMoves DEF Triage
    <2>3. QED
      BY <2>1, <2>2
  <1>7. QED
    BY <1>1, <1>2, <1>3, <1>4, <1>5, <1>6

\* The keys of the release at hand; those of earlier releases are used up.
Fresh(b) == { k \in keys[b] : k[2] = Len(filed[b]) }
SameKeys(b) == SignedRoles(Fresh(b))' = SignedRoles(Fresh(b))
Keeps(b) == Filing(b)!LifecycleNext \/ UNCHANGED Filing(b)!lifecycle

\* A branch that is drafted, compared, sent back or suppressed.
LEMMA DraftingKeeps ==
  ASSUME NEW b \in Branches, SameKeys(b), state[b] \in Unchecked \cup Checked,
         state'[b] \in Unchecked \cup Checked \cup {"suppressed"}
  PROVE  Keeps(b)
  <1> USE DEF Unchecked, Checked, TERMINAL_STATES, SameKeys, Fresh
  <1>1. CASE state'[b] \in Unchecked
    <2>1. Filing(b)!Uncheck
      BY <1>1 DEF Filing!Uncheck
    <2>2. QED
      BY <2>1 DEF Keeps, Filing!LifecycleNext
  <1>2. CASE state'[b] \in Checked
    <2>1. Filing(b)!Check
      BY <1>2 DEF Filing!Check
    <2>2. QED
      BY <2>1 DEF Keeps, Filing!LifecycleNext
  <1>3. CASE state'[b] = "suppressed"
    <2>1. Filing(b)!Close
      BY <1>3 DEF Filing!Close
    <2>2. QED
      BY <2>1 DEF Keeps, Filing!LifecycleNext
  <1>4. QED
    BY <1>1, <1>2, <1>3

\* A branch nothing happens to.
LEMMA StandingKeeps ==
  ASSUME NEW b \in Branches, SameKeys(b), state'[b] = state[b],
         guard' = guard \/ state[b] # "amending"
  PROVE  Keeps(b)
  BY DEF Keeps, Filing!lifecycle, SameKeys, Fresh, CanSubmit

\* The events of the driver, on a branch that is not amended.
LEMMA EventKeeps ==
  ASSUME NEW b \in Branches, SameKeys(b), guard' = guard,
         state'[b] \in IF state[b] \in Unchecked \cup Checked
                         THEN Unchecked \cup Checked \cup {"suppressed"}
                         ELSE {state[b]}
  PROVE  Keeps(b)
  BY DraftingKeeps, StandingKeeps

LEMMA SameLock ==
  ASSUME NEW b \in Branches, keys' = keys, filed' = filed
  PROVE  SameKeys(b)
  BY DEF SameKeys, Fresh

\* Outside its own release no key of a branch counts.
LEMMA NoFreshKeys ==
  ASSUME FloorTypeOK, KeysOK, NEW b \in Branches, ~Signing(b)
  PROVE  SignedRoles(Fresh(b)) = {}
  <1>1. \A k \in keys[b] : k[2] < Len(filed[b])
    BY DEF KeysOK
  <1>2. \A k \in keys[b] : k[2] \in Nat
    BY DEF FloorTypeOK
  <1>3. filed[b] \in Seq(Claims)
    BY DEF FloorTypeOK
  <1>4. Len(filed[b]) \in Nat
    BY <1>3, LenProperties
  <1>5. Fresh(b) = {}
    BY <1>1, <1>2, <1>4 DEF Fresh
  <1>6. QED
    BY <1>5 DEF SignedRoles

\* Clearing the lock clears no key that counts.
LEMMA ResetLock ==
  ASSUME FloorTypeOK, KeysOK, lock = "idle", filed' = filed,
         NEW c, Reset(c), NEW b \in Branches
  PROVE  SameKeys(b)
  <1>1. SignedRoles(Fresh(b)) = {}
    BY NoFreshKeys DEF Signing
  <1>2. CASE b = c
    <2>1. keys'[b] = {}
      BY <1>2 DEF Reset, FloorTypeOK
    <2>2. SignedRoles(Fresh(b))' = {}
      BY <2>1 DEF Fresh, SignedRoles
    <2>3. QED
      BY <1>1, <2>2 DEF SameKeys
  <1>3. CASE b # c
    <2>1. keys'[b] = keys[b]
      BY <1>3 DEF Reset, FloorTypeOK
    <2>2. QED
      BY <2>1 DEF SameKeys, Fresh
  <1>4. QED
    BY <1>2, <1>3

\* Only the amendment and the cure have a branch amended.
LEMMA NoneAmended ==
  ASSUME IInv, ~CutShort, NEW b \in Branches,
         step \notin {"propose", "concur", "amend_submit", "cure"}
  PROVE  state[b] # "amending"
  <1>1. FloorTypeOK /\ Running
    BY IInvParts
  <1>2. CASE b = AffectedParty
    BY <1>1, <1>2 DEF Running, CustomersOK
  <1>3. CASE b # AffectedParty
    <2>1. b \in Regulators
      BY <1>3 DEF Branches
    <2>2. CASE ~Joined(b)
      BY <1>1, <2>1, <2>2 DEF Running, RunOK
    <2>3. CASE Live(b)
      <3>1. state[b] = Stage(b)
        BY <1>1, <2>1, <2>3 DEF Running, LiveOK
      <3>2. Stage(b) # "amending"
        BY DEF Stage
      <3>3. QED
        BY <3>1, <3>2
    <2>4. QED
      BY <2>2, <2>3 DEF Live
  <1>4. QED
    BY <1>2, <1>3
-----------------------------------------------------------------------------
(***************************************************************************)
(* The steps of the driver, each a step of every filing or a stutter.      *)
(***************************************************************************)
LEMMA OpenKeeps == ASSUME IInv, Open, NEW b \in Branches PROVE Keeps(b)
  <1>1. /\ keys' = keys /\ filed' = filed /\ guard' = guard
        /\ state'[b] \in {state[b], Triage(state[b], "fact_record_posted")}
    BY DEF Open, lockVars
  <1>2. state[b] \in State
    BY DEF IInv, FloorTypeOK
  <1>3. state'[b] \in IF state[b] \in Unchecked THEN Unchecked ELSE {state[b]}
    BY <1>1, <1>2, EventMoves
  <1>4. QED
    BY <1>1, <1>3, EventKeeps, SameLock

LEMMA JudgeKeeps ==
  ASSUME IInv, Materiality \/ Reportability, NEW b \in Branches PROVE Keeps(b)
  <1>1. PICK c : \E verdict \in BOOLEAN : Judge(c, verdict)
    BY DEF Materiality, Reportability, Reconcile
  <1>2. state \in [Branches -> State]
    BY DEF IInv, FloorTypeOK
  <1>3. /\ keys' = keys /\ filed' = filed /\ guard' = guard
        /\ state'[b] \in {state[b], Suppress(state[b])}
    BY <1>1, <1>2 DEF Judge, lockVars, dutyVars
  <1>4. state'[b] \in IF state[b] \in Unchecked THEN Unchecked \cup {"suppressed"}
                                              ELSE {state[b]}
    BY <1>2, <1>3, EventMoves
  <1>5. QED
    BY <1>3, <1>4, EventKeeps, SameLock

LEMMA DraftKeeps ==
  ASSUME IInv, SkipSuppressed \/ Draft \/ Recruit, NEW b \in Branches PROVE Keeps(b)
  <1>1. /\ state \in [Branches -> State] /\ state[b] \in State
        /\ state[b] # "amending"
    BY NoneAmended DEF IInv, FloorTypeOK, SkipSuppressed, Draft, Recruit, CutShort
  <1> DEFINE posted(s) == Drafter(Drafter(s, "draft_started"), "draft_posted")
  <1>2. ASSUME NEW s \in State, s # "amending"
        PROVE  /\ posted(s) \in IF s \in Unchecked THEN Unchecked ELSE {s}
               /\ posted(Triage(s, "fact_record_posted"))
                    \in IF s \in Unchecked THEN Unchecked ELSE {s}
    <2>1. ASSUME NEW t \in State, t # "amending"
          PROVE  posted(t) \in IF t \in Unchecked THEN Unchecked ELSE {t}
      <3>1. /\ Drafter(t, "draft_started") \in IF t \in Unchecked THEN Unchecked ELSE {t}
            /\ Unchecked \subseteq State /\ "amending" \notin Unchecked
        BY EventMoves DEF Unchecked, State
      <3>2. /\ Drafter(t, "draft_started") \in State
            /\ Drafter(t, "draft_started") # "amending"
        BY <2>1, <3>1
      <3>3. QED
        BY <3>1, <3>2, EventMoves
    <2>2. /\ Triage(s, "fact_record_posted") \in IF s \in Unchecked THEN Unchecked ELSE {s}
          /\ Unchecked \subseteq State /\ "amending" \notin Unchecked
      BY EventMoves DEF Unchecked, State
    <2> HIDE DEF posted
    <2>3. QED
      BY <1>2, <2>1, <2>2
  <1>3. /\ keys' = keys /\ filed' = filed /\ guard' = guard
        /\ state'[b] \in {state[b], posted(state[b]),
                          posted(Triage(state[b], "fact_record_posted"))}
    BY <1>1 DEF SkipSuppressed, Draft, Recruit, Joins, lockVars, branchVars, dutyVars
  <1> HIDE DEF posted
  <1>4. state'[b] \in IF state[b] \in Unchecked THEN Unchecked ELSE {state[b]}
    BY <1>1, <1>2, <1>3
  <1>5. QED
    BY <1>3, <1>4, EventKeeps, SameLock

LEMMA DiffKeeps == ASSUME IInv, Diff, NEW b \in Branches PROVE Keeps(b)
  <1>1. state[b] \in State
    BY DEF IInv, FloorTypeOK
  <1>2. /\ keys' = keys /\ filed' = filed /\ guard' = guard
        /\ state'[b] \in {state[b], Warden(state[b], "diff_blocked"),
                          Warden(state[b], "diff_passed")}
    BY DEF Diff, AllDrafted, lockVars, dutyVars
  <1>3. state'[b] \in IF state[b] \in Unchecked \cup Checked
                        THEN Unchecked \cup Checked ELSE {state[b]}
    BY <1>1, <1>2, EventMoves
  <1>4. QED
    BY <1>2, <1>3, EventKeeps, SameLock

LEMMA ResolveKeeps == ASSUME IInv, Resolve, NEW b \in Branches PROVE Keeps(b)
  <1>1. state[b] \in State /\ state[b] # "amending"
    BY NoneAmended DEF IInv, FloorTypeOK, Resolve, CutShort
  <1> DEFINE posted == Drafter(state[b], "draft_posted")
  <1>2. /\ keys' = keys /\ filed' = filed /\ guard' = guard
        /\ state'[b] \in {state[b], posted, Warden(posted, "diff_passed")}
    BY DEF Resolve, AllDrafted, lockVars, dutyVars
  <1>3. /\ posted \in IF state[b] \in Unchecked THEN Unchecked ELSE {state[b]}
        /\ posted \in State
    BY <1>1, EventMoves DEF Unchecked, State
  <1> HIDE DEF posted
  <1>4. Warden(posted, "diff_passed")
          \in IF posted \in Unchecked THEN Unchecked \cup Checked ELSE {posted}
    BY <1>3, EventMoves
  <1>5. QED
    BY <1>2, <1>3, <1>4, EventKeeps, SameLock

\* Signoff is opened, and the lock of a branch that is released again is cleared.
LEMMA BeginKeeps ==
  ASSUME IInv, BeginRelease \/ BeginRerelease \/ HighRisk, NEW b \in Branches
  PROVE  Keeps(b)
  <1>1. /\ FloorTypeOK /\ KeysOK /\ state \in [Branches -> State]
        /\ state[b] \in State /\ state[b] # "amending"
        /\ lock = "idle" /\ filed' = filed /\ guard' = guard
    <2>1. /\ step \in {"release", "amend_release", "affected_party"}
          /\ lock = "idle" /\ filed' = filed /\ guard' = guard
      BY DEF BeginRelease, BeginRerelease, HighRisk, dutyVars
    <2>2. QED
      BY <2>1, NoneAmended, IInvParts DEF CutShort, Running, FloorTypeOK
  <1>2. SameKeys(b)
    <2>1. CASE BeginRelease
      BY <1>1, <2>1, SameLock DEF BeginRelease
    <2>2. CASE BeginRerelease \/ HighRisk
      BY <1>1, <2>2, ResetLock DEF BeginRerelease, HighRisk
    <2>3. QED
      BY <2>1, <2>2
  <1> DEFINE drafted(s) == Drafter(Drafter(Triage(s, "fact_record_posted"),
                                           "draft_started"), "draft_posted")
  <1>3. state'[b] \in {state[b], Warden(state[b], "signoff_opened"),
                       OpenSignoff(state[b]), OpenSignoff(drafted(state[b]))}
    <2>1. CASE BeginRelease
      BY <1>1, <2>1 DEF BeginRelease
    <2>2. CASE BeginRerelease
      BY <1>1, <2>2 DEF BeginRerelease
    <2>3. CASE HighRisk
      BY <1>1, <2>3 DEF HighRisk
    <2>4. QED
      BY <2>1, <2>2, <2>3
  <1> DEFINE On(s) == IF s \in Unchecked \cup Checked THEN Unchecked \cup Checked ELSE {s}
  <1>4. ASSUME NEW s \in State, s # "amending"
        PROVE  /\ Warden(s, "signoff_opened") \in On(s)
               /\ OpenSignoff(s) \in On(s) /\ drafted(s) \in On(s)
               /\ drafted(s) \in State /\ drafted(s) # "amending"
    <2>1. Unchecked \cup Checked \subseteq State \ {"amending"}
      BY DEF Unchecked, Checked, State
    <2>2. Warden(s, "signoff_opened") \in On(s) /\ Warden(s, "diff_passed") \in On(s)
      BY EventMoves
    <2>3. OpenSignoff(s) \in On(s)
      BY <1>4, <2>1, <2>2, EventMoves DEF OpenSignoff
    <2>4. drafted(s) \in IF s \in Unchecked THEN Unchecked ELSE {s}
      <3>1. Triage(s, "fact_record_posted") \in IF s \in Unchecked THEN Unchecked ELSE {s}
        BY EventMoves
      <3>2. /\ Triage(s, "fact_record_posted") \in State
            /\ Triage(s, "fact_record_posted") # "amending"
        BY <1>4, <2>1, <3>1
      <3>3. Drafter(Triage(s, "fact_record_posted"), "draft_started")
              \in IF s \in Unchecked THEN Unchecked ELSE {s}
        BY <3>1, <3>2, EventMoves
      <3>4. /\ Drafter(Triage(s, "fact_record_posted"), "draft_started") \in State
            /\ Drafter(Triage(s, "fact_record_posted"), "draft_started") # "amending"
        BY <1>4, <2>1, <3>3
      <3>5. QED
        BY <3>3, <3>4, EventMoves
    <2> HIDE DEF drafted
    <2>5. QED
      BY <1>4, <2>1, <2>2, <2>3, <2>4
  <1> HIDE DEF drafted
  <1>5. state'[b] \in On(state[b])
    <2>1. drafted(state[b]) \in State /\ drafted(state[b]) # "amending"
          /\ drafted(state[b]) \in On(state[b])
      BY <1>1, <1>4
    <2>2. OpenSignoff(drafted(state[b])) \in On(drafted(state[b]))
      BY <1>4, <2>1
    <2>3. QED
      BY <1>1, <1>3, <1>4, <2>1, <2>2
  <1>6. QED
    BY <1>1, <1>2, <1>5, EventKeeps

\* Once the facts are revised, only a concurrence counts as agreement.
LEMMA AmendKeeps ==
  ASSUME IInv, Amend \/ Propose \/ Concur, NEW b \in Branches PROVE Keeps(b)
  <1>1. /\ FloorTypeOK /\ DutyOK /\ state \in [Branches -> State] /\ state[b] \in State
    BY IInvParts DEF Amend, Propose, Concur, CutShort, Running, FloorTypeOK
  <1>2. keys' = keys /\ filed' = filed /\ SameKeys(b)
    BY SameLock DEF Amend, Propose, Concur, lockVars
  <1>3. CASE Amend
    <2>1. guard = "empty" /\ guard' = guard
      BY <1>1, <1>3 DEF Amend, DutyOK, dutyVars
    <2>2. state'[b] = state[b] \/ (state[b] = "released" /\ state'[b] = "amending")
      BY <1>1, <1>3, EventMoves DEF Amend
    <2>3. CASE state'[b] = state[b]
      BY <1>2, <2>1, <2>3, StandingKeeps
    <2>4. CASE state[b] = "released" /\ state'[b] = "amending"
      <3>1. Filing(b)!Reopen
        BY <1>2, <2>1, <2>4
           DEF Filing!Reopen, CanSubmit, SameKeys, Fresh, TERMINAL_STATES
      <3>2. QED
        BY <3>1 DEF Keeps, Filing!LifecycleNext
    <2>5. QED
      BY <2>2, <2>3, <2>4
  <1>4. CASE Propose
    <2>1. guard = "empty" /\ guard' = "proposed" /\ state' = state
      BY <1>1, <1>4 DEF Propose, DutyOK, branchVars
    <2>2. QED
      BY <1>2, <2>1 DEF Keeps, Filing!lifecycle, SameKeys, Fresh, CanSubmit
  <1>5. CASE Concur
    <2>1. guard = "proposed" /\ guard' = "concurred" /\ state' = state
      BY <1>1, <1>5 DEF Concur, DutyOK, branchVars
    <2>2. CASE state[b] = "amending"
      <3>1. Filing(b)!Agree
        BY <1>2, <2>1, <2>2
           DEF Filing!Agree, CanSubmit, SameKeys, Fresh, TERMINAL_STATES
      <3>2. QED
        BY <3>1 DEF Keeps, Filing!LifecycleNext
    <2>3. CASE state[b] # "amending"
      BY <1>2, <2>1, <2>3, StandingKeeps
    <2>4. QED
      BY <2>2, <2>3
  <1>6. QED
    BY <1>3, <1>4, <1>5

LEMMA SubmitKeeps ==
  ASSUME IInv, SubmitAmendment, NEW b \in Branches PROVE Keeps(b)
  <1>1. state \in [Branches -> State] /\ state[b] \in State
    BY DEF IInv, FloorTypeOK
  <1>2. SameKeys(b) /\ guard' = guard
    BY SameLock DEF SubmitAmendment, lockVars, dutyVars
  <1>3. \/ state'[b] = state[b]
        \/ CanSubmit /\ state'[b] = Drafter(state[b], "draft_posted")
    BY <1>1 DEF SubmitAmendment
  <1>4. CASE state[b] = "amending"
    <2>1. state'[b] = state[b] \/ (CanSubmit /\ state'[b] = "draft_submitted")
      BY <1>3, <1>4, RunMoves
    <2>2. QED
      BY <1>2, <1>4, <2>1
         DEF Keeps, Filing!lifecycle, SameKeys, Fresh, CanSubmit, TERMINAL_STATES
  <1>5. CASE state[b] # "amending"
    <2>1. state'[b] \in IF state[b] \in Unchecked THEN Unchecked ELSE {state[b]}
      BY <1>1, <1>3, <1>5, EventMoves
    <2>2. QED
      BY <1>2, <2>1, EventKeeps
  <1>6. QED
    BY <1>4, <1>5
-----------------------------------------------------------------------------
\* A first release is under way for a branch whose signoff is open.
LEMMA SignoffStays ==
  ASSUME IInv, SignoffIsOpen, [Next]_vars PROVE SignoffIsOpen'
  <1>1. CASE BeginRelease
    <2>1. /\ Head(todo) \in Branches /\ step \in Loops
      BY <1>1, IInvParts, HeadFacts DEF BeginRelease, CutShort, TodoOK, Loops
    <2>2. state'[Head(todo)] = "awaiting_human_signoff"
      BY <1>1, <2>1, RunMoves DEF BeginRelease, IInv, FloorTypeOK
    <2>3. QED
      BY <1>1, <2>2 DEF BeginRelease, SignoffIsOpen
  <1>2. CASE SignKey \/ UNCHANGED vars
    BY <1>2 DEF SignKey, SignoffIsOpen, vars, branchVars, lockVars
  <1>3. CASE Turn
    BY <1>3 DEF Turn, SignoffIsOpen
  <1>4. CASE BeginRerelease \/ Cure \/ HighRisk
    BY <1>4 DEF BeginRerelease, Cure, HighRisk, SignoffIsOpen
  <1>5. CASE Interrupt
    BY <1>5 DEF Interrupt, SignoffIsOpen
  <1>6. ASSUME lock' = lock, lock = "idle" \/ (step \notin Releases /\ ~CutShort)
        PROVE  SignoffIsOpen'
    BY <1>6 DEF IInv, LoopOK, SignoffIsOpen
  <1>7. CASE \/ Open \/ Materiality \/ Reportability \/ SkipSuppressed \/ Draft
             \/ Recruit \/ CrossBorderScan \/ CrossBorderSignoff \/ Diff \/ Resolve
    <2>1. lock' = lock /\ step \notin Releases /\ ~CutShort
      BY <1>7 DEF Open, Materiality, Reportability, Judge, SkipSuppressed, Draft,
                  Recruit, CrossBorderScan, CrossBorderSignoff, Diff, Resolve,
                  lockVars, Releases, CutShort
    <2>2. QED
      BY <1>6, <2>1
  <1>8. CASE \/ SkipUnchecked \/ NoHighRisk
    BY <1>6, <1>8 DEF SkipUnchecked, NoHighRisk, lockVars
  <1>9. CASE \/ Amend \/ Propose \/ Concur \/ SubmitAmendment \/ AmendDiff
             \/ DeficiencyNotice \/ LiftHold \/ Submission \/ Seal
    <2>1. lock' = lock /\ step \notin Releases /\ ~CutShort
      BY <1>9 DEF Amend, Propose, Concur, SubmitAmendment, AmendDiff,
                  DeficiencyNotice, LiftHold, Submission, Seal,
                  lockVars, Releases, CutShort
    <2>2. QED
      BY <1>6, <2>1
  <1>10. QED
    BY <1>1, <1>2, <1>3, <1>4, <1>5, <1>7, <1>8, <1>9 DEF Next, Drive, Over

\* Whoever is asked for a key is asked for a branch that awaits it.
LEMMA AwaitsItsKeys ==
  ASSUME IInv, SignoffIsOpen, AmendmentsAreGuarded, step \in Releases,
         lock # "idle", NEW c, c = Head(todo)
  PROVE  c \in Branches /\ state[c] = "awaiting_human_signoff" /\ Signing(c)
  <1>1. /\ FloorTypeOK /\ Running /\ TodoOK /\ LoopOK /\ RunOK /\ LiveOK
        /\ CustomersOK /\ step \in Loops /\ scenario \in Scenarios
    BY IInvParts DEF Running, CutShort, Releases, Loops, FloorTypeOK
  <1>2. c \in Branches /\ InTodo(c) /\ c \in Visits(step) /\ Signing(c)
    BY <1>1, HeadFacts DEF TodoOK, Signing
  <1>3. CASE step = "release"
    BY <1>2, <1>3 DEF SignoffIsOpen
  <1>4. CASE step = "amend_release"
    <2>1. c \in {"sec", "nis2"}
      BY <1>2, <1>4, VisitsAre
    <2>2. scenario.mode \in {"amendment", "affected_party"}
      BY <1>1, <1>4 DEF LoopOK, Wanted, Amends
    <2>3. ~scenario.materiality
      BY <1>1, <2>2, ScenariosAssumption
         DEF AmendmentsAreGuarded, CliAccepts
    <2>4. Joined(c) /\ state[c] # "suppressed"
      BY <1>1, <1>4, <2>1, <2>2, <2>3 DEF RunOK, Regulators, Drafters
    <2>5. state[c] = Stage(c)
      BY <1>1, <2>1, <2>4 DEF LiveOK, Live, Regulators
    <2>6. Stage(c) = "awaiting_human_signoff"
      BY <1>2, <1>4 DEF Stage, Joining
    <2>7. QED
      BY <1>2, <2>5, <2>6
  <1>5. CASE step = "affected_party"
    <2>1. c = AffectedParty
      BY <1>2, <1>5, VisitsAre
    <2>2. QED
      BY <1>1, <1>2, <1>5, <2>1 DEF CustomersOK, Ending
  <1>6. CASE step = "cure"
    BY <1>1, <1>6 DEF LoopOK, Wanted, AmendmentsAreGuarded
  <1>7. QED
    BY <1>3, <1>4, <1>5, <1>6 DEF Releases

LEMMA SignKeyKeeps ==
  ASSUME IInv, SignoffIsOpen, AmendmentsAreGuarded, SignKey,
         NEW c, c = Head(todo), NEW b \in Branches
  PROVE  Keeps(b)
  <1> DEFINE role == Head(signers)
             n == Len(filed[c])
             signed == { k \in keys[c] : k[1] # role } \cup {<<role, n>>}
  <1>1. /\ step \in Releases /\ lock = "signing" /\ signers # <<>>
        /\ keys' = [keys EXCEPT ![c] = signed]
        /\ UNCHANGED <<state, filed, guard>>
    BY DEF SignKey, branchVars, dutyVars
  <1>2. c \in Branches /\ state[c] = "awaiting_human_signoff" /\ Signing(c)
    BY <1>1, AwaitsItsKeys
  <1>3. FloorTypeOK
    BY DEF IInv
  <1>4. role \in REQUIRED_ROLES
    BY <1>1, <1>3, HeadTailProperties DEF FloorTypeOK
  <1>5. CASE b # c
    <2>1. keys'[b] = keys[b]
      BY <1>1, <1>3, <1>5 DEF FloorTypeOK
    <2>2. SameKeys(b)
      BY <1>1, <2>1 DEF SameKeys, Fresh
    <2>3. QED
      BY <1>1, <2>2, StandingKeeps
  <1>6. CASE b = c
    <2>1. keys'[b] = signed /\ Len(filed'[b]) = n
      BY <1>1, <1>2, <1>3, <1>6 DEF FloorTypeOK
    <2>2. <<role, n>>[1] = role /\ <<role, n>>[2] = n
      OBVIOUS
    <2>3. SignedRoles(Fresh(b))' = SignedRoles(Fresh(b)) \cup {role}
      <3>1. Fresh(b)' = { k \in Fresh(b) : k[1] # role } \cup {<<role, n>>}
        BY <1>6, <2>1, <2>2 DEF Fresh
      <3>2. SignedRoles({ k \in Fresh(b) : k[1] # role } \cup {<<role, n>>})
              = SignedRoles(Fresh(b)) \cup {role}
        <4> HIDE DEF role, n
        <4>1. QED
          BY <2>2 DEF SignedRoles
      <3>3. QED
        BY <3>1, <3>2 DEF SignedRoles
    <2>4. Filing(b)!Sign(role)
      BY <1>1, <1>2, <1>6, <2>3 DEF Filing!Sign, Fresh, TERMINAL_STATES, CanSubmit
    <2>5. QED
      BY <1>4, <2>4 DEF Keeps, Filing!LifecycleNext
  <1>7. QED
    BY <1>5, <1>6

LEMMA TurnKeeps ==
  ASSUME IInv, SignoffIsOpen, AmendmentsAreGuarded, Turn,
         NEW c, c = Head(todo), NEW b \in Branches
  PROVE  Keeps(b)
  <1>1. /\ step \in Releases /\ lock = "turned" /\ UNCHANGED <<keys, guard>>
    BY DEF Turn, dutyVars
  <1>2. /\ FloorTypeOK /\ Running /\ KeysOK
    BY <1>1, IInvParts DEF Running, CutShort, Releases
  <1>3. c \in Branches /\ state[c] = "awaiting_human_signoff"
    BY <1>1, AwaitsItsKeys
  <1>4. Admits(state[c], "human_released", "human_owner")
    BY <1>3, RunMoves DEF State
  <1>5. /\ state' = [state EXCEPT ![c] = "released"]
        /\ filed' = [filed EXCEPT ![c] = Append(@, claims[c])]
    BY <1>2, <1>4, TurnFacts
  <1>6. CASE b # c
    <2>1. state'[b] = state[b] /\ filed'[b] = filed[b]
      BY <1>2, <1>5, <1>6 DEF FloorTypeOK
    <2>2. SameKeys(b)
      BY <1>1, <2>1 DEF SameKeys, Fresh
    <2>3. QED
      BY <1>1, <2>1, <2>2, StandingKeeps
  <1>7. CASE b = c
    <2> DEFINE n == Len(filed[b])
    <2>1. filed[b] \in Seq(Claims) /\ n \in Nat
      BY <1>2, LenProperties DEF FloorTypeOK
    <2>2. /\ state'[b] = "released"
          /\ filed'[b] = Append(filed[b], claims[b])
      BY <1>2, <1>5, <1>7 DEF FloorTypeOK
    <2>3. Len(filed'[b]) = n + 1
      BY <2>1, <2>2
    <2>4. keys[b] = {<<"general_counsel", n>>, <<"head_of_ir", n>>}
      BY <1>1, <1>2, <1>7 DEF KeysOK, Key
    <2>5. \A k \in keys[b] : k[2] = n
      BY <2>4
    <2>6. SignedRoles(Fresh(b)) = REQUIRED_ROLES
      <3>1. Fresh(b) = keys[b]
        BY <2>5 DEF Fresh
      <3> HIDE DEF n
      <3>2. QED
        BY <2>4, <3>1, RolesOfKeys DEF REQUIRED_ROLES
    <2>7. SignedRoles(Fresh(b))' = {}
      <3>1. Fresh(b)' = {}
        BY <1>1, <2>1, <2>3, <2>5 DEF Fresh
      <3>2. QED
        BY <3>1 DEF SignedRoles
    <2>8. Filing(b)!File
      BY <1>1, <1>3, <1>7, <2>2, <2>6, <2>7
         DEF Filing!File, Fresh, TERMINAL_STATES, CanSubmit
    <2>9. QED
      BY <2>8 DEF Keeps, Filing!LifecycleNext
  <1>8. QED
    BY <1>6, <1>7

LEMMA RestKeeps ==
  ASSUME UNCHANGED <<state, keys, filed, guard>>, NEW b \in Branches PROVE Keeps(b)
  BY SameLock, StandingKeeps

\* Every step of a run whose amendments are guarded is one of the filing.
LEMMA StepKeeps ==
  ASSUME IInv, SignoffIsOpen, AmendmentsAreGuarded, [Next]_vars, NEW b \in Branches
  PROVE  Keeps(b)
  <1>1. CASE Open \/ Materiality \/ Reportability
    BY <1>1, OpenKeeps, JudgeKeeps
  <1>2. CASE SkipSuppressed \/ Draft \/ Recruit
    BY <1>2, DraftKeeps
  <1>3. CASE Diff \/ Resolve
    BY <1>3, DiffKeeps, ResolveKeeps
  <1>4. CASE BeginRelease \/ BeginRerelease \/ HighRisk
    BY <1>4, BeginKeeps
  <1>5. CASE SignKey \/ Turn
    BY <1>5, SignKeyKeeps, TurnKeeps
  <1>6. CASE Amend \/ Propose \/ Concur \/ SubmitAmendment
    BY <1>6, AmendKeeps, SubmitKeeps
  <1>7. CASE DeficiencyNotice \/ Cure
    <2>1. step \in {"deficiency", "cure"}
      BY <1>7 DEF DeficiencyNotice, Cure
    <2>2. scenario.mode = "deficiency"
      BY <2>1, IInvParts DEF Running, CutShort, LoopOK, Wanted
    <2>3. QED
      BY <2>2 DEF AmendmentsAreGuarded
  <1>8. CASE \/ CrossBorderScan \/ CrossBorderSignoff \/ SkipUnchecked \/ AmendDiff
             \/ NoHighRisk
    BY <1>8, RestKeeps DEF CrossBorderScan, CrossBorderSignoff, SkipUnchecked,
                           AmendDiff, NoHighRisk, branchVars, lockVars, dutyVars
  <1>9. CASE LiftHold \/ Submission \/ Seal \/ Interrupt \/ UNCHANGED vars
    BY <1>9, RestKeeps DEF LiftHold, Submission, Seal, Interrupt, vars,
                           branchVars, lockVars, dutyVars
  <1>10. QED
    BY <1>1, <1>2, <1>3, <1>4, <1>5, <1>6, <1>7, <1>8, <1>9 DEF Next, Drive, Over

LEMMA InitKeeps ==
  ASSUME Init, NEW b \in Branches PROVE Filing(b)!LifecycleInit
  <1>1. state[b] = "initiated" /\ keys[b] = {}
    BY DEF Init
  <1>2. QED
    BY <1>1 DEF Filing!LifecycleInit, SignedRoles, TERMINAL_STATES

\* Whatever the command line asks for, each filing of a run whose amendments are
\* guarded goes out checked, under both keys turned since it last went out, and,
\* once reopened, only after the drafters agreed.  (_run_full_floor)
THEOREM FilingsKeepPromise == Spec => KeepsFilingPromise
  <1>1. Init => /\ IInv /\ SignoffIsOpen
                /\ \A b \in Branches : Filing(b)!LifecycleInit
    BY InitIInv, InitKeeps DEF Init, SignoffIsOpen
  <1>2. IInv /\ SignoffIsOpen /\ [Next]_vars => IInv' /\ SignoffIsOpen'
    BY NextIInv, SignoffStays
  <1>3. IInv /\ SignoffIsOpen /\ [Next]_vars
          => (AmendmentsAreGuarded =>
                \A b \in Branches :
                  [Filing(b)!LifecycleNext]_(Filing(b)!lifecycle))
    BY StepKeeps DEF Keeps
  <1>4. QED
    BY <1>1, <1>2, <1>3, PTL DEF Spec, KeepsFilingPromise
=============================================================================
