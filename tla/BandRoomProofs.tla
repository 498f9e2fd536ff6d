---------------------------- MODULE BandRoomProofs ----------------------------
(***************************************************************************)
(* The run in its room.  Posting and draining add one way to stop, a drain *)
(* that comes back empty, which leaves every branch as it stands: what     *)
(* FilingFloorProofs proves of the run holds of the run in its room.       *)
(*                                                                         *)
(* The rest is about the room itself: RoomIInv is inductive next to IInv,  *)
(* and the three properties of the room follow from it.  First what one    *)
(* post, mark or drain does to a sound room, then one lemma for each       *)
(* action of the driver (OpenRoom ... TurnRoom), then the steps at which   *)
(* it stops, and the theorems.                                             *)
(***************************************************************************)
EXTENDS BandRoom, FilingFloorProofs, WellFoundedInduction

\* A run that waits for a mention that does not come stops where it is.
LEMMA GiveUpIInv == ASSUME IInv, GiveUp PROVE IInv'
  <1>1. /\ step' = "raised"
        /\ UNCHANGED <<scenario, todo, branchVars, lockVars, clock, dutyVars>>
    BY DEF GiveUp, Raise
  <1>2. "raised" \in Steps
    BY StepsAre
  <1>3. FloorTypeOK'
    BY <1>1, <1>2 DEF IInv, FloorTypeOK, branchVars, lockVars, dutyVars
  <1>4. QED
    BY <1>1, <1>3, StopsIInv DEF branchVars, lockVars, dutyVars

LEMMA RoomDriveIsDrive == ASSUME RoomDrive PROVE Drive
  BY DEF RoomDrive, Drive

LEMMA RoomNextIInv == ASSUME IInv, [RoomNext]_roomVars PROVE IInv'
  <1>1. CASE RoomDrive
    BY <1>1, RoomDriveIsDrive, NextIInv DEF Next
  <1>2. CASE GiveUp
    BY <1>2, GiveUpIInv
  <1>3. CASE Interrupt \/ Over
    BY <1>3, NextIInv DEF Next
  <1>4. CASE UNCHANGED roomVars
    BY <1>4, StutterIInv DEF roomVars
  <1>5. QED
    BY <1>1, <1>2, <1>3, <1>4 DEF RoomNext

\* Where the driver stands says what every branch has been through, whatever the
\* room does to it.  (_run_full_floor, _drain)
THEOREM RoomInvariant == RoomSpec => []IInv
  <1>1. RoomInit => IInv
    BY InitIInv DEF RoomInit
  <1>2. IInv /\ [RoomNext]_roomVars => IInv'
    BY RoomNextIInv
  <1>3. QED
    BY <1>1, <1>2, PTL DEF RoomSpec
-----------------------------------------------------------------------------
(***************************************************************************)
(* What follows of every filing, in the room.                              *)
(***************************************************************************)

\* What the regulators were sent in one round agrees across the branches, also
\* where a drain came back empty.  (_diff_and_gate, _amendment_phase)
THEOREM RoundsAgreeInTheRoom == RoomSpec => []FilingsOfARoundAgree
  <1>1. IInv => FilingsOfARoundAgree
    BY DEF IInv, RoundsOK, FilingsOfARoundAgree
  <1>2. QED
    BY <1>1, RoomInvariant, PTL

\* What the run holds released is what the last draft said.  (_two_key_release)
THEOREM FilingsStandInTheRoom == RoomSpec => []FiledIsWhatWasDrafted
  <1>1. IInv => FiledIsWhatWasDrafted
    BY DEF IInv
  <1>2. QED
    BY <1>1, RoomInvariant, PTL

\* The customers hear of it, and the hold is lifted, after every regulator's
\* filing stands.  (_affected_party_phase, _release_legal_hold)
THEOREM CustomersComeLastInTheRoom == RoomSpec => []LastThingsLast
  <1>1. IInv => LastThingsLast
    BY DEF IInv
  <1>2. QED
    BY <1>1, RoomInvariant, PTL

\* A sealed run left nothing half done.  (_run_full_floor)
THEOREM SealedRunsAreCompleteInTheRoom == RoomSpec => []SealedRunIsComplete
  <1>1. IInv => SealedRunIsComplete
    BY IInvGivesSealed
  <1>2. QED
    BY <1>1, RoomInvariant, PTL

\* A drain that comes back empty moves no filing, so the promise FilingFloorProofs
\* proves of each of them is kept in the room too.  (_drain, _drain_for_envelope)
THEOREM FilingsKeepPromiseInTheRoom == RoomSpec => KeepsFilingPromise
  <1>1. RoomInit => /\ IInv /\ SignoffIsOpen
                    /\ \A b \in Branches : Filing(b)!LifecycleInit
    BY InitIInv, InitKeeps DEF RoomInit, Init, SignoffIsOpen
  <1>2. [RoomNext]_roomVars => [Next]_vars \/ GiveUp
    BY RoomDriveIsDrive DEF RoomNext, roomVars, Next
  <1>3. GiveUp => step' = "raised" /\ UNCHANGED <<state, keys, filed, guard>>
    BY DEF GiveUp, Raise, branchVars, lockVars, dutyVars
  <1>4. IInv /\ SignoffIsOpen /\ [RoomNext]_roomVars => IInv' /\ SignoffIsOpen'
    BY <1>2, <1>3, RoomNextIInv, SignoffStays DEF SignoffIsOpen
  <1>5. IInv /\ SignoffIsOpen /\ [RoomNext]_roomVars
          => (AmendmentsAreGuarded =>
                \A b \in Branches :
                  [Filing(b)!LifecycleNext]_(Filing(b)!lifecycle))
    BY <1>2, <1>3, StepKeeps, RestKeeps DEF Keeps
  <1>6. QED
    BY <1>1, <1>4, <1>5, PTL DEF RoomSpec, KeepsFilingPromise
-----------------------------------------------------------------------------
(***************************************************************************)
(* Posting and marking.                                                    *)
(***************************************************************************)
\* The room s is r with some messages of M after what r holds, and says all M says.
Grows(r, s, M) ==
  /\ Sound(s) /\ s.fault = r.fault
  /\ Len(r.log) <= Len(s.log)
  /\ \A i \in 1..Len(r.log) : s.log[i] = r.log[i]
  /\ \A i \in (Len(r.log) + 1)..Len(s.log) : s.log[i] \in M
  /\ \A m \in M : Posted(s, m.key)

LEMMA LogFacts ==
  ASSUME NEW r, Sound(r)
  PROVE  /\ r.log \in Seq(Messages) /\ Len(r.log) \in Nat
         /\ DOMAIN r.log = 1..Len(r.log)
         /\ \A i \in 1..Len(r.log) : r.log[i] \in Messages
         /\ \A a \in Agents : r.marked[a] \subseteq 1..Len(r.log)
         /\ r = [log |-> r.log, marked |-> r.marked, peers |-> r.peers,
                 fault |-> r.fault, clock |-> r.clock, watch |-> r.watch]
  <1>1. r \in Rooms /\ \A a \in Agents : r.marked[a] \subseteq DOMAIN r.log
    BY DEF Sound
  <1>2. r.log \in Seq(Messages)
    BY <1>1 DEF Rooms
  <1>3. /\ Len(r.log) \in Nat /\ DOMAIN r.log = 1..Len(r.log)
        /\ \A i \in 1..Len(r.log) : r.log[i] \in Messages
    BY <1>2, LenProperties, ElementOfSeq
  <1>4. r = [log |-> r.log, marked |-> r.marked, peers |-> r.peers,
             fault |-> r.fault, clock |-> r.clock, watch |-> r.watch]
    BY <1>1 DEF Rooms
  <1>5. QED
    BY <1>1, <1>2, <1>3, <1>4

LEMMA GrowsNothing == ASSUME NEW r, Sound(r) PROVE Grows(r, r, {})
  BY LogFacts DEF Grows

LEMMA PostFacts ==
  ASSUME NEW r, Sound(r), NEW m \in Messages, m.from \notin m.to
  PROVE  /\ Post(r, m) = IF Posted(r, m.key) THEN r ELSE [r EXCEPT !.log = Append(@, m)]
         /\ Post(r, m).log = IF Posted(r, m.key) THEN r.log ELSE Append(r.log, m)
         /\ Post(r, m).marked = r.marked /\ Post(r, m).peers = r.peers
         /\ Post(r, m).fault = r.fault /\ Post(r, m).clock = r.clock
         /\ Post(r, m).watch = r.watch
  <1>1. r \in Rooms
    BY DEF Sound
  <1>2. QED
    BY <1>1 DEF Post, Rooms

LEMMA PostGrows ==
  ASSUME NEW r, Sound(r), NEW m \in Messages, m.from \notin m.to
  PROVE  Grows(r, Post(r, m), {m})
  <1> DEFINE s == Post(r, m)
             n == Len(r.log)
  <1>1. CASE Posted(r, m.key)
    <2>1. Post(r, m) = r
      BY <1>1 DEF Post
    <2>2. Grows(r, r, {m})
      BY <1>1, LogFacts DEF Grows
    <2>3. QED
      BY <2>1, <2>2
  <1>2. CASE ~Posted(r, m.key)
    <2>1. /\ s.log = Append(r.log, m) /\ s.marked = r.marked /\ s.peers = r.peers
          /\ s.fault = r.fault /\ s = [r EXCEPT !.log = Append(@, m)]
      BY <1>2, PostFacts
    <2>2. /\ r.log \in Seq(Messages) /\ n \in Nat /\ DOMAIN r.log = 1..n
          /\ \A i \in 1..n : r.log[i] \in Messages
          /\ \A a \in Agents : r.marked[a] \subseteq 1..n
      BY LogFacts
    <2>3. /\ s.log \in Seq(Messages) /\ Len(s.log) = n + 1 /\ DOMAIN s.log = 1..(n + 1)
          /\ \A i \in 1..n : s.log[i] = r.log[i]
          /\ s.log[n + 1] = m
      BY <2>1, <2>2, AppendProperties, LenProperties
    <2>4. s \in Rooms /\ Startup \subseteq s.peers
      <3>1. r \in Rooms /\ Startup \subseteq r.peers
        BY DEF Sound
      <3>2. Append(r.log, m) \in Seq(Messages)
        BY <2>1, <2>3
      <3>3. QED
        BY <2>1, <3>1, <3>2 DEF Rooms
    <2> HIDE DEF s, n
    <2>5. ASSUME NEW i \in 1..(n + 1), NEW j \in 1..(n + 1), s.log[i].key = s.log[j].key
          PROVE  i = j
      <3>1. \A k \in 1..n : r.log[k].key # m.key
        BY <1>2, <2>2 DEF Posted
      <3>2. \A k, l \in 1..n : r.log[k].key = r.log[l].key => k = l
        BY <2>2 DEF Sound
      <3>3. \A k \in 1..(n + 1) : k \in 1..n \/ k = n + 1
        BY <2>2
      <3>4. QED
        BY <2>3, <2>5, <3>1, <3>2, <3>3
    <2>6. \A a \in Agents : s.marked[a] \subseteq 1..(n + 1)
      BY <2>1, <2>2
    <2>7. Sound(s)
      BY <2>3, <2>4, <2>5, <2>6 DEF Sound
    <2>8. Posted(s, m.key)
      BY <2>2, <2>3 DEF Posted
    <2>9. \A i \in (n + 1)..Len(s.log) : s.log[i] \in {m}
      BY <2>2, <2>3
    <2>10. QED
      BY <2>1, <2>2, <2>3, <2>7, <2>8, <2>9 DEF Grows, n, s
  <1>3. QED
    BY <1>1, <1>2

LEMMA PostsStay ==
  ASSUME NEW r, NEW s, NEW M, Sound(r), Grows(r, s, M), NEW key, Posted(r, key)
  PROVE  Posted(s, key)
  <1>1. PICK i \in 1..Len(r.log) : r.log[i].key = key
    BY LogFacts DEF Posted
  <1>2. i \in DOMAIN s.log /\ s.log[i] = r.log[i]
    BY <1>1, LogFacts DEF Grows
  <1>3. QED
    BY <1>1, <1>2 DEF Posted

LEMMA GrowsOn ==
  ASSUME NEW r, NEW s, NEW t, NEW M, NEW N, Sound(r), Grows(r, s, M), Grows(s, t, N)
  PROVE  Grows(r, t, M \cup N)
  <1>1. Sound(s) /\ Sound(t)
    BY DEF Grows
  <1>2. Len(r.log) \in Nat /\ Len(s.log) \in Nat /\ Len(t.log) \in Nat
    BY <1>1, LogFacts
  <1>3. \A m \in M \cup N : Posted(t, m.key)
    BY <1>1, PostsStay DEF Grows
  <1>4. \A i \in 1..Len(r.log) : t.log[i] = r.log[i]
    BY <1>2 DEF Grows
  <1>5. ASSUME NEW i \in (Len(r.log) + 1)..Len(t.log) PROVE t.log[i] \in M \cup N
    <2>1. CASE i <= Len(s.log)
      BY <1>2, <1>5, <2>1 DEF Grows
    <2>2. CASE ~(i <= Len(s.log))
      BY <1>2, <1>5, <2>2 DEF Grows
    <2>3. QED
      BY <2>1, <2>2
  <1>6. QED
    BY <1>1, <1>2, <1>3, <1>4, <1>5 DEF Grows

LEMMA MarkFacts ==
  ASSUME NEW r, Sound(r), NEW a \in Agents, NEW S \in SUBSET (1..Len(r.log))
  PROVE  /\ Sound(Mark(r, a, S)) /\ Grows(r, Mark(r, a, S), {})
         /\ Mark(r, a, S).log = r.log /\ Mark(r, a, S).fault = r.fault
         /\ Mark(r, a, S).clock = r.clock /\ Mark(r, a, S).watch = r.watch
         /\ Mark(r, a, S).marked[a] = r.marked[a] \cup S
         /\ \A c \in Agents \ {a} : Mark(r, a, S).marked[c] = r.marked[c]
  <1> DEFINE s == Mark(r, a, S)
  <1>1. r \in Rooms /\ r.marked \in [Agents -> SUBSET Nat]
    BY DEF Sound, Rooms
  <1>2. /\ s.log = r.log /\ s.fault = r.fault /\ s.peers = r.peers
        /\ s.clock = r.clock /\ s.watch = r.watch
        /\ s.marked = [r.marked EXCEPT ![a] = @ \cup S]
    BY <1>1 DEF Mark, Rooms
  <1>3. /\ Len(r.log) \in Nat /\ DOMAIN r.log = 1..Len(r.log)
        /\ \A c \in Agents : r.marked[c] \subseteq 1..Len(r.log)
    BY LogFacts
  <1>4. /\ s.marked[a] = r.marked[a] \cup S
        /\ \A c \in Agents \ {a} : s.marked[c] = r.marked[c]
        /\ s.marked \in [Agents -> SUBSET Nat]
    BY <1>1, <1>2, <1>3
  <1>5. s \in Rooms
    <2>1. s = [r EXCEPT !.marked = [r.marked EXCEPT ![a] = @ \cup S]]
      BY <1>1 DEF Mark, Rooms
    <2>2. [r.marked EXCEPT ![a] = @ \cup S] \in [Agents -> SUBSET Nat]
      BY <1>2, <1>4
    <2>3. QED
      BY <1>1, <2>1, <2>2 DEF Rooms
  <1> HIDE DEF s
  <1>6. Sound(s)
    BY <1>2, <1>3, <1>4, <1>5 DEF Sound
  <1>7. Grows(r, s, {})
    BY <1>2, <1>3, <1>6 DEF Grows
  <1>8. QED
    BY <1>2, <1>4, <1>6, <1>7 DEF s
-----------------------------------------------------------------------------
(***************************************************************************)
(* The way the driver goes.                                                *)
(***************************************************************************)
\* The step after each step of a run that goes on.
LEMMA StepIs ==
  ASSUME IInv, Drive, ~CutShort'
  PROVE
  /\ ~CutShort /\ step # "sealed" /\ step' \in Steps /\ step' # "open"
  /\ step = "open" => step' \in {"materiality", "reportability", "drafting"}
  /\ step = "materiality" => step' = "drafting"
  /\ step = "reportability" => step' \in {"reportability", "drafting"}
  /\ step = "drafting" => step' \in {"drafting", "recruit_uk", "recruit_nydfs",
                                     "cross_border", "diff"}
  /\ step = "recruit_uk" => step' \in {"recruit_nydfs", "cross_border", "diff"}
  /\ step = "recruit_nydfs" => step' \in {"cross_border", "diff"}
  /\ step = "cross_border" => step' \in {"cross_border_signoff", "diff"}
  /\ step = "cross_border_signoff" => step' = "diff"
  /\ step = "diff" => step' \in {"resolve", "release"}
  /\ step = "resolve" => step' = "release"
  /\ step = "release" =>
       \/ step' = "release" \/ (Amends /\ step' = "amend")
       \/ ~Amends /\ step' \in {"deficiency", "lift_hold", "submission", "seal"}
  /\ step = "amend" => step' = "propose"
  /\ step = "propose" => step' = "concur"
  /\ step = "concur" => step' = "amend_submit"
  /\ step = "amend_submit" => step' \in {"amend_submit", "amend_diff"}
  /\ step = "amend_diff" => step' = "amend_release"
  /\ step = "amend_release" => step' \in {"amend_release", "affected_party", "seal"}
  /\ step = "affected_party" => step' \in {"affected_party", "seal"}
  /\ step = "deficiency" => step' = "cure"
  /\ step = "cure" => step' \in {"cure", "seal"}
  /\ step = "lift_hold" => step' \in {"submission", "seal"}
  /\ step = "submission" => step' = "seal"
  /\ step = "seal" => step' = "sealed"
  <1> DEFINE Goes(p) == step = p /\ step' = After(p)
             Stays(p) == step = p /\ step' = p
  <1>0. step' # "raised" /\ step' # "interrupted"
    BY DEF CutShort
  <1>1. \/ Goes("open") \/ Goes("materiality") \/ Goes("reportability")
        \/ Stays("reportability") \/ Goes("drafting") \/ Stays("drafting")
        \/ Goes("recruit_uk") \/ Goes("recruit_nydfs") \/ Goes("cross_border")
        \/ step = "cross_border" /\ step' = "cross_border_signoff"
        \/ step = "cross_border_signoff" /\ step' = After("cross_border")
        \/ Goes("diff") \/ (step = "diff" /\ step' = "resolve")
        \/ step = "resolve" /\ step' = After("diff")
        \/ Goes("release") \/ Stays("release") \/ Goes("amend") \/ Goes("propose")
        \/ Goes("concur") \/ Goes("amend_submit") \/ Stays("amend_submit")
        \/ Goes("amend_diff") \/ Goes("amend_release") \/ Stays("amend_release")
        \/ Goes("affected_party") \/ Stays("affected_party") \/ Goes("deficiency")
        \/ Goes("cure") \/ Stays("cure") \/ Goes("lift_hold") \/ Goes("submission")
        \/ step = "seal" /\ step' = "sealed"
    <2> USE DEF NextBranch, Proceed, Raise
    <2>1. CASE \/ Open \/ Materiality \/ Reportability \/ SkipSuppressed \/ Draft
               \/ Recruit \/ CrossBorderScan \/ CrossBorderSignoff
      BY <1>0, <2>1 DEF Open, Materiality, Reportability, SkipSuppressed, Draft,
           Recruit, CrossBorderScan, CrossBorderSignoff
    <2>2. CASE \/ Diff \/ Resolve \/ BeginRelease \/ SkipUnchecked \/ BeginRerelease
      BY <1>0, <2>2 DEF Diff, Resolve, BeginRelease, SkipUnchecked, BeginRerelease
    <2>3. CASE SignKey \/ Turn
      BY <1>0, <2>3 DEF SignKey, Turn, Releases
    <2>4. CASE \/ Amend \/ Propose \/ Concur \/ SubmitAmendment \/ AmendDiff
      BY <1>0, <2>4 DEF Amend, Propose, Concur, SubmitAmendment, AmendDiff
    <2>5. CASE \/ NoHighRisk \/ HighRisk \/ DeficiencyNotice \/ Cure \/ LiftHold
               \/ Submission \/ Seal
      BY <1>0, <2>5 DEF NoHighRisk, HighRisk, DeficiencyNotice, Cure, LiftHold,
           Submission, Seal
    <2>6. QED
      BY <2>1, <2>2, <2>3, <2>4, <2>5 DEF Drive
  <1>2. ~CutShort /\ step # "sealed"
    BY <1>1 DEF CutShort
  <1>3. scenario \in Scenarios /\ Wanted(step)
    BY <1>2, IInvParts DEF FloorTypeOK, Running, LoopOK
  <1>4. /\ step \in {"amend", "propose", "concur", "amend_submit", "amend_diff",
                     "amend_release"} => Amends
        /\ step = "affected_party" => scenario.mode = "affected_party"
        /\ step \in {"deficiency", "cure"} => scenario.mode = "deficiency"
        /\ step = "materiality" => scenario.materiality
    BY <1>3 DEF Wanted
  <1> DEFINE Table ==
        /\ After("open") \in {"materiality", "reportability", "drafting"}
        /\ scenario.materiality => After("materiality") = "drafting"
        /\ After("reportability") = "drafting"
        /\ After("drafting") \in {"recruit_uk", "recruit_nydfs", "cross_border", "diff"}
        /\ After("recruit_uk") \in {"recruit_nydfs", "cross_border", "diff"}
        /\ After("recruit_nydfs") \in {"cross_border", "diff"}
        /\ After("cross_border") = "diff" /\ After("diff") = "release"
        /\ Amends => After("release") = "amend"
        /\ ~Amends => After("release") \in {"deficiency", "lift_hold", "submission", "seal"}
        /\ Amends =>
             /\ After("amend") = "propose" /\ After("propose") = "concur"
             /\ After("concur") = "amend_submit" /\ After("amend_submit") = "amend_diff"
             /\ After("amend_diff") = "amend_release"
             /\ After("amend_release") \in {"affected_party", "seal"}
        /\ scenario.mode = "affected_party" => After("affected_party") = "seal"
        /\ scenario.mode = "deficiency" =>
             After("deficiency") = "cure" /\ After("cure") = "seal"
        /\ After("lift_hold") \in {"submission", "seal"}
        /\ After("submission") = "seal"
  <1>5. Table
    BY <1>3, AfterTable
  <1>6. QED
    BY <1>1, <1>2, <1>4, <1>5, StepsAre DEF PhaseNames

\* The loop over the drafters loses its branches one by one.
LEMMA DraftingShrinks ==
  ASSUME IInv, Drive, step = "drafting", step' = "drafting"
  PROVE  \A b : InTodo(b)' <=> InTodo(b) /\ b # Head(todo)
  <1>1. NextBranch /\ ran' = ran
    BY DEF Drive, Open, Materiality, Reportability, SkipSuppressed, Draft, Recruit,
       CrossBorderScan, CrossBorderSignoff, Diff, Resolve, BeginRelease, SkipUnchecked,
       SignKey, Turn, Amend, Propose, Concur, SubmitAmendment, AmendDiff,
       BeginRerelease, NoHighRisk, HighRisk, DeficiencyNotice, Cure, LiftHold,
       Submission, Seal, branchVars, Releases
  <1>2. FloorTypeOK /\ TodoOK /\ OnceEach(ran) /\ scenario \in Scenarios
    BY IInvParts DEF CutShort, FloorTypeOK
  <1>3. After(step) \in {"recruit_uk", "recruit_nydfs", "cross_border", "diff"}
    BY <1>2, AfterTable
  <1>4. After(step) \in Steps \ {"release"} /\ step \in Loops
    BY <1>3, StepsAre DEF PhaseNames, Loops
  <1>5. QED
    BY <1>1, <1>2, <1>3, <1>4, NextBranchFacts

\* A phase that is over does not come back.
LEMMA Forward ==
  ASSUME IInv, Drive, ~CutShort'
  PROVE  /\ \A key : step \notin Before(key) => step' \notin Before(key)
         /\ step \notin Early => step' \notin Early
         /\ step \notin Early \cup {"release"} => step' \notin Early \cup {"release"}
         /\ step \notin BeforeAmend => step' \notin BeforeAmend
         /\ \A b : Undrafted(b)' => Undrafted(b)
  <1>1. /\ step' # "open"
        /\ step \notin Early => step' \notin Early
        /\ step \notin Early \cup {"release"} => step' \notin Early \cup {"release"}
        /\ step \notin BeforeAmend => step' \notin BeforeAmend
        /\ step \notin BeforeAmend \cup {"propose"} =>
             step' \notin BeforeAmend \cup {"propose"}
        /\ step \notin BeforeAmend \cup {"propose", "concur"} =>
             step' \notin BeforeAmend \cup {"propose", "concur"}
        /\ step \notin Early \cup {"release", "deficiency"} =>
             step' \notin Early \cup {"release", "deficiency"}
    <2>1. step \in Steps
      BY DEF IInv, FloorTypeOK
    <2>2. QED
      BY <2>1, StepIs, StepsAre DEF PhaseNames, BeforeAmend, Early, Joining, CutShort
  <1>2. \A key : step \notin Before(key) => step' \notin Before(key)
    BY <1>1 DEF Before
  <1>3. ASSUME NEW b, Undrafted(b)' PROVE Undrafted(b)
    <2>1. step \in {"open", "materiality", "reportability", "drafting"}
      <3>1. step' \in {"open", "materiality", "reportability", "drafting"}
        BY <1>3 DEF Undrafted
      <3>2. step \in Steps
        BY DEF IInv, FloorTypeOK
      <3>3. QED
        BY <3>1, <3>2, StepIs, StepsAre DEF PhaseNames, CutShort
    <2>2. CASE step # "drafting"
      BY <2>1, <2>2 DEF Undrafted
    <2>3. CASE step = "drafting"
      <3>1. step' \in {"drafting", "recruit_uk", "recruit_nydfs", "cross_border", "diff"}
        BY <2>3, StepIs
      <3>2. step' = "drafting" /\ InTodo(b)'
        BY <1>3, <3>1 DEF Undrafted
      <3>3. QED
        BY <2>3, <3>2, DraftingShrinks DEF Undrafted
    <2>4. QED
      BY <2>2, <2>3
  <1>4. QED
    BY <1>1, <1>2, <1>3

\* A filing that was made stays; only the turn of the keys adds one.
LEMMA FiledGrows ==
  ASSUME IInv, Drive, ~CutShort'
  PROVE  /\ filed' = filed \/ (Turn /\ step \in Releases)
         /\ \A b \in Branches : Len(filed[b]) <= Len(filed'[b])
  <1>1. CASE Turn
    <2>1. step \in Releases /\ step' # "raised"
      BY <1>1 DEF Turn, CutShort
    <2>2. FloorTypeOK /\ Running /\ ~CutShort
      BY <2>1, IInvParts DEF CutShort, Releases
    <2>3. PICK b : b = Head(todo)
      OBVIOUS
    <2>4. Admits(state[b], "human_released", "human_owner")
      BY <1>1, <2>1, <2>3 DEF Turn, Raise
    <2>5. filed' = [filed EXCEPT ![b] = Append(@, claims[b])] /\ b \in Branches
      BY <1>1, <2>2, <2>3, <2>4, TurnFacts
    <2>6. filed \in [Branches -> Seq(Claims)]
      BY <2>2 DEF FloorTypeOK
    <2>7. ASSUME NEW c \in Branches PROVE Len(filed[c]) <= Len(filed'[c])
      <3>1. Len(filed[c]) \in Nat
        BY <2>6, LenProperties
      <3>2. CASE c = b
        <4>1. filed[c] \in Seq(Claims) /\ filed'[c] = Append(filed[c], claims[c])
          BY <2>5, <2>6, <3>2
        <4>2. claims[c] \in Claims \cup {NoClaims}
          BY <2>2 DEF FloorTypeOK
        <4>3. filed[c] \in Seq(Claims \cup {NoClaims})
          BY <4>1
        <4>4. Len(filed'[c]) = Len(filed[c]) + 1
          BY <4>1, <4>2, <4>3, AppendProperties
        <4>5. QED
          BY <3>1, <4>4
      <3>3. CASE c # b
        BY <2>5, <2>6, <3>1, <3>3
      <3>4. QED
        BY <3>2, <3>3
    <2>8. QED
      BY <1>1, <2>1, <2>7
  <1>2. CASE ~Turn
    <2>1. filed' = filed
      BY <1>2 DEF Drive, Open, Materiality, Reportability, Judge, SkipSuppressed, Draft,
         Recruit, CrossBorderScan, CrossBorderSignoff, Diff, Resolve, BeginRelease,
         SkipUnchecked, SignKey, Amend, Propose, Concur, SubmitAmendment, AmendDiff,
         BeginRerelease, NoHighRisk, HighRisk, DeficiencyNotice, Cure, LiftHold,
         Submission, Seal, lockVars
    <2>2. filed \in [Branches -> Seq(Claims)]
      BY DEF IInv, FloorTypeOK
    <2>3. \A b \in Branches : Len(filed[b]) \in Nat
      BY <2>2, LenProperties
    <2>4. QED
      BY <2>1, <2>3
  <1>3. QED
    BY <1>1, <1>2

\* What was timely stays so.
LEMMA TimelyStays ==
  ASSUME IInv, Drive, ~CutShort', NEW key \in DedupKeys, Timely(key)
  PROVE  Timely(key)'
  <1>1. step' \notin Before(key)
    BY Forward DEF Timely
  <1>2. key[1] \in TurnTopics /\ key[2] \in Startup => ~Undrafted(key[2])'
    BY Forward DEF Timely
  <1>3. key[1] = "released" /\ key[2] \in Branches => key[3] <= Len(filed'[key[2]])
    <2>1. filed \in [Branches -> Seq(Claims)] /\ filed' \in [Branches -> Seq(Claims)]
      <3>1. IInv'
        BY NextIInv DEF Next
      <3>2. QED
        BY <3>1 DEF IInv, FloorTypeOK
    <2>2. \A b \in Branches : Len(filed[b]) \in Nat /\ Len(filed'[b]) \in Nat
      BY <2>1, LenProperties
    <2>3. key[3] \in Nat
      BY DEF DedupKeys
    <2>4. QED
      BY <2>2, <2>3, FiledGrows DEF Timely
  <1>4. QED
    BY <1>1, <1>2, <1>3 DEF Timely
-----------------------------------------------------------------------------
(***************************************************************************)
(* The run's own checks hold.                                              *)
(***************************************************************************)
LEMMA TurnIsAdmitted ==
  ASSUME IInv, ClaimsOK, SignoffIsOpen, Turn, step' = "raised"
  PROVE  /\ scenario'.mode = "amendment" /\ state'["sec"] = "suppressed"
         /\ todo' = AMENDMENT_BRANCHES /\ filed'["sec"] = <<>>
  <1> DEFINE c == Head(todo)
  <1>1. step \in Releases /\ lock = "turned"
    BY DEF Turn
  <1>2. /\ FloorTypeOK /\ Running /\ TodoOK /\ LoopOK /\ RunOK /\ LiveOK /\ OnceEach(ran)
        /\ CustomersOK /\ step \in Loops /\ scenario \in Scenarios /\ ~CutShort
    BY <1>1, IInvParts DEF Running, CutShort, Releases, Loops, FloorTypeOK
  <1>3. c \in Branches /\ InTodo(c) /\ c \in Visits(step) /\ Signing(c)
    BY <1>1, <1>2, HeadFacts DEF TodoOK, Signing
  <1>4. state[c] # "awaiting_human_signoff"
    <2>1. ASSUME Admits(state[c], "human_released", "human_owner") PROVE FALSE
      <3>1. NextBranch
        BY <2>1 DEF Turn
      <3>2. step' = step \/ step' = After(step)
        BY <3>1 DEF NextBranch, Proceed
      <3>3. After(step) # "raised"
        BY <1>1, <1>2, AfterTable DEF Releases, LoopOK, Wanted
      <3>4. QED
        BY <1>1, <3>2, <3>3 DEF Releases
    <2>2. state[c] \in State
      BY <1>2, <1>3 DEF FloorTypeOK
    <2>3. QED
      BY <2>1, <2>2, RunMoves
  <1>5. step = "amend_release"
    <2>1. step # "release"
      BY <1>1, <1>4 DEF SignoffIsOpen
    <2>2. step # "affected_party"
      <3>1. ASSUME step = "affected_party" PROVE FALSE
        <4>1. c = AffectedParty
          BY <1>3, <3>1, VisitsAre
        <4>2. QED
          BY <1>1, <1>2, <1>3, <1>4, <3>1, <4>1 DEF CustomersOK, Ending
      <3>2. QED
        BY <3>1
    <2>3. step # "cure"
      <3>1. ASSUME step = "cure" PROVE FALSE
        <4>1. c = "sec" /\ scenario.mode = "deficiency"
          BY <1>2, <1>3, <3>1, VisitsAre DEF LoopOK, Wanted
        <4>2. ~scenario.materiality
          BY <1>2, <4>1, ScenariosAssumption DEF CliAccepts
        <4>3. Joined("sec") /\ state["sec"] # "suppressed"
          BY <1>2, <3>1, <4>1, <4>2 DEF RunOK, Regulators, Drafters
        <4>4. state["sec"] = Stage("sec")
          BY <1>2, <4>3 DEF LiveOK, Live, Regulators
        <4>5. Stage("sec") = "awaiting_human_signoff"
          BY <1>1, <3>1 DEF Stage, Joining
        <4>6. QED
          BY <1>4, <4>1, <4>4, <4>5
      <3>2. QED
        BY <3>1
    <2>4. QED
      BY <1>1, <2>1, <2>2, <2>3 DEF Releases
  <1>6. c \in {"sec", "nis2"} /\ scenario.mode \in {"amendment", "affected_party"}
    BY <1>2, <1>3, <1>5, VisitsAre DEF LoopOK, Wanted, Amends
  <1>7. state[c] = "suppressed"
    <2>1. ASSUME state[c] # "suppressed" PROVE FALSE
      <3>1. Joined(c)
        BY <1>2, <1>5, <1>6 DEF RunOK, Regulators, Drafters
      <3>2. state[c] = Stage(c)
        BY <1>2, <1>6, <2>1, <3>1 DEF LiveOK, Live, Regulators
      <3>3. Stage(c) = "awaiting_human_signoff"
        BY <1>3, <1>5 DEF Stage, Joining
      <3>4. QED
        BY <1>4, <3>2, <3>3
    <2>2. QED
      BY <2>1
  <1>8. c = "sec" /\ scenario.materiality
    BY <1>2, <1>6, <1>7 DEF RunOK, Regulators
  <1>9. scenario.mode = "amendment"
    BY <1>2, <1>6, <1>8, ScenariosAssumption DEF CliAccepts
  <1>10. filed["sec"] = <<>>
    BY <1>2, <1>7, <1>8 DEF RunOK, Live, Regulators
  <1>11. todo = AMENDMENT_BRANCHES
    <2>1. todo \in {AMENDMENT_BRANCHES, <<"nis2">>}
      BY <1>5 DEF ClaimsOK
    <2>2. Head(<<"nis2">>) = "nis2"
      OBVIOUS
    <2>3. QED
      BY <1>8, <2>1, <2>2
  <1>12. UNCHANGED <<scenario, todo, state, filed>>
    <2>1. ~Admits(state[c], "human_released", "human_owner")
      BY <1>2, <1>3, <1>4, RunMoves DEF FloorTypeOK
    <2>2. QED
      BY <2>1 DEF Turn, Raise
  <1>13. QED
    BY <1>7, <1>8, <1>9, <1>10, <1>11, <1>12

LEMMA AfterGoesOn ==
  ASSUME IInv, ~CutShort, step \in PhaseNames \ {"seal"}
  PROVE  After(step) \notin {"raised", "interrupted"}
  <1>1. scenario \in Scenarios /\ Wanted(step)
    BY IInvParts DEF FloorTypeOK, Running, LoopOK
  <1> DEFINE GoesOn(p) == After(p) \notin {"raised", "interrupted"}
             Table ==
        /\ GoesOn("open") /\ (scenario.materiality => GoesOn("materiality"))
        /\ GoesOn("reportability") /\ GoesOn("drafting")
        /\ GoesOn("recruit_uk") /\ GoesOn("recruit_nydfs")
        /\ GoesOn("cross_border") /\ GoesOn("diff")
        /\ GoesOn("release")
        /\ Amends =>
             /\ GoesOn("amend") /\ GoesOn("propose")
             /\ GoesOn("concur") /\ GoesOn("amend_submit")
             /\ GoesOn("amend_diff") /\ GoesOn("amend_release")
        /\ scenario.mode = "affected_party" => GoesOn("affected_party")
        /\ scenario.mode = "deficiency" =>
             GoesOn("deficiency") /\ GoesOn("cure")
        /\ GoesOn("lift_hold") /\ GoesOn("submission")
  <1>2. Table
    <2>1. scenario \in Scenarios
      BY <1>1
    <2>2. QED
      BY <2>1, AfterTable
  <1>3. /\ step \in {"amend", "propose", "concur", "amend_submit", "amend_diff",
                     "amend_release"} => Amends
        /\ step = "affected_party" => scenario.mode = "affected_party"
        /\ step \in {"deficiency", "cure"} => scenario.mode = "deficiency"
        /\ step = "materiality" => scenario.materiality
    BY <1>1 DEF Wanted
  <1>4. QED
    BY <1>2, <1>3 DEF PhaseNames

\* No check of the run but the one before a release ever fails.
LEMMA ChecksHold ==
  ASSUME IInv, ClaimsOK, Drive, ~Turn, ~CutShort
  PROVE  step' \notin {"raised", "interrupted"}
  <1>0. /\ FloorTypeOK /\ RoundsOK /\ Running /\ TodoOK /\ OnceEach(ran)
        /\ LoopOK /\ RunOK /\ LiveOK /\ DutyOK /\ scenario \in Scenarios /\ step \in Steps
    BY IInvParts DEF Running, FloorTypeOK
  <1>1. CASE \/ Open \/ Materiality \/ Reportability \/ SkipSuppressed \/ Draft
             \/ Recruit \/ CrossBorderScan \/ Diff
    BY <1>1, AfterGoesOn DEF Open, Materiality, Reportability, SkipSuppressed, Draft,
         Recruit, CrossBorderScan, Diff, NextBranch, Proceed, PhaseNames
  <1>2. CASE \/ BeginRelease \/ SkipUnchecked \/ SignKey \/ BeginRerelease \/ Propose
    BY <1>2, AfterGoesOn DEF BeginRelease, SkipUnchecked, SignKey, BeginRerelease,
         Propose, NextBranch, Proceed, PhaseNames, Releases
  <1>3. CASE \/ NoHighRisk \/ HighRisk \/ DeficiencyNotice \/ Cure \/ LiftHold \/ Seal
    BY <1>3, AfterGoesOn DEF NoHighRisk, HighRisk, DeficiencyNotice, Cure, LiftHold,
         Seal, NextBranch, Proceed, PhaseNames
  <1>4. CASE CrossBorderSignoff
    <2>1. REQUIRED_ROLES \subseteq { RELEASE_SIGNERS[i] : i \in DOMAIN RELEASE_SIGNERS }
      <3>1. /\ RELEASE_SIGNERS[1] = "general_counsel"
            /\ RELEASE_SIGNERS[2] = "head_of_ir"
            /\ {1, 2} \subseteq DOMAIN RELEASE_SIGNERS
        BY DEF RELEASE_SIGNERS
      <3>2. QED
        BY <3>1 DEF REQUIRED_ROLES
    <2>2. After("cross_border") = "diff"
      BY <1>0, AfterTable
    <2>3. QED
      BY <1>4, <2>1, <2>2 DEF CrossBorderSignoff, Proceed
  <1>5. CASE Resolve
    <2>1. step = "resolve" /\ claims' = [claims EXCEPT !["sec"] = CanonicalFacts]
      BY <1>0, <1>5, ContradictedIsSec DEF Resolve
    <2>2. "sec" \in Branches /\ claims \in [Branches -> Claims \cup {NoClaims}]
      BY <1>0 DEF FloorTypeOK, Branches, Regulators
    <2>3. \A b \in Drafted : claims'[b] = CanonicalFacts
      <3>1. ASSUME NEW b \in Drafted, b # "sec" PROVE claims'[b] = CanonicalFacts
        <4>1. claims[b] = CanonicalFacts
          BY <1>0, <2>1, <3>1, DraftedAre, FactsDiffer
        <4>2. QED
          BY <2>1, <2>2, <3>1, <4>1 DEF Drafted
      <3>2. QED
        BY <2>1, <2>2, <3>1
    <2>4. ~Contradict(claims', Drafted)
      BY <2>3, CanonicalAgree
    <2>5. After("diff") = "release"
      BY <1>0, AfterTable
    <2>6. QED
      BY <1>5, <2>4, <2>5 DEF Resolve, Proceed
  <1>6. CASE Amend \/ Concur \/ SubmitAmendment
    BY <1>0, <1>6, AfterGoesOn DEF Amend, Concur, SubmitAmendment, CanSubmit, DutyOK,
         Early, NextBranch, Proceed, PhaseNames
  <1>7. CASE AmendDiff
    <2>1. CanSubmit /\ \A b \in Branches : Amended(b) => claims[b] = AmendedFacts
      BY <1>0, <1>7 DEF AmendDiff, CanSubmit, DutyOK, ClaimsOK
    <2>2. ~Contradict(claims, { b \in Branches : Amended(b) })
      BY <2>1 DEF Contradict
    <2>3. QED
      BY <1>7, <2>1, <2>2, AfterGoesOn DEF AmendDiff, Proceed, PhaseNames
  <1>8. CASE Submission
    <2>1. step = "submission" /\ scenario.mode = "submit"
      BY <1>0, <1>8 DEF Submission, LoopOK, Wanted
    <2>2. ~scenario.materiality
      BY <1>0, <2>1, ScenariosAssumption DEF CliAccepts
    <2>3. Live("nis2") /\ InRun("nis2")
      BY <1>0, <2>1, <2>2 DEF RunOK, Live, Regulators, Drafters
    <2>4. state["nis2"] = "released"
      <3>1. Stage("nis2") = "released"
        BY <2>1 DEF Stage, Joining
      <3>2. QED
        BY <1>0, <2>3, <3>1 DEF LiveOK, Regulators
    <2>5. Submittable("nis2") /\ "nis2" \in Branches
      BY <2>3, <2>4 DEF Submittable, SubmitBranches, Branches, Regulators
    <2>6. QED
      BY <1>8, <2>1, <2>5, AfterGoesOn DEF Submission, Proceed, PhaseNames
  <1>9. QED
    BY <1>1, <1>2, <1>3, <1>4, <1>5, <1>6, <1>7, <1>8 DEF Drive

\* The action of every phase.
LEMMA ActionIs ==
  ASSUME Drive
  PROVE  /\ step = "open" => Open
         /\ step = "materiality" => Materiality
         /\ step = "reportability" => Reportability
         /\ step = "drafting" => SkipSuppressed \/ Draft
         /\ step \in {"recruit_uk", "recruit_nydfs"} => Recruit
         /\ step = "cross_border" => CrossBorderScan
         /\ step = "cross_border_signoff" => CrossBorderSignoff
         /\ step = "diff" => Diff
         /\ step = "resolve" => Resolve
         /\ step = "release" => BeginRelease \/ SkipUnchecked \/ SignKey \/ Turn
         /\ step = "amend" => Amend
         /\ step = "propose" => Propose
         /\ step = "concur" => Concur
         /\ step = "amend_submit" => SubmitAmendment
         /\ step = "amend_diff" => AmendDiff
         /\ step = "amend_release" => BeginRerelease \/ SignKey \/ Turn
         /\ step = "affected_party" => NoHighRisk \/ HighRisk \/ SignKey \/ Turn
         /\ step = "deficiency" => DeficiencyNotice
         /\ step = "cure" => Cure \/ SignKey \/ Turn
         /\ step = "lift_hold" => LiftHold
         /\ step = "submission" => Submission
         /\ step = "seal" => Seal
  BY DEF Drive, Open, Materiality, Reportability, SkipSuppressed, Draft,
     Recruit, CrossBorderScan, CrossBorderSignoff, Diff, Resolve, BeginRelease,
     SkipUnchecked, SignKey, Turn, Amend, Propose, Concur, SubmitAmendment,
     AmendDiff, BeginRerelease, NoHighRisk, HighRisk, DeficiencyNotice, Cure,
     LiftHold, Submission, Seal, Releases

LEMMA PairLists ==
  /\ Len(AMENDMENT_BRANCHES) = 2 /\ Head(AMENDMENT_BRANCHES) = "sec"
  /\ Tail(AMENDMENT_BRANCHES) = <<"nis2">>
  /\ Len(<<"nis2">>) = 1 /\ Head(<<"nis2">>) = "nis2"
  /\ AMENDMENT_BRANCHES # <<"nis2">>
  BY DEF AMENDMENT_BRANCHES

LEMMA ClaimsStay ==
  ASSUME IInv, ClaimsOK, Drive, ~CutShort'
  PROVE  ClaimsOK'
  <1>0. /\ FloorTypeOK /\ RoundsOK /\ Running /\ TodoOK /\ OnceEach(ran)
        /\ LoopOK /\ DutyOK /\ scenario \in Scenarios /\ step \in Steps /\ ~CutShort
    BY StepIs, IInvParts DEF Running, FloorTypeOK
  <1>1. CASE step' = "resolve"
    <2>1. step = "diff" /\ Diff
      <3>1. step = "diff"
        BY <1>0, <1>1, StepIs, StepsAre DEF PhaseNames, CutShort
      <3>2. QED
        BY <3>1, ActionIs
    <2>2. After("diff") = "release"
      BY <1>0, AfterTable
    <2>3. Contradict(claims, Drafted) /\ claims' = claims
      BY <1>1, <2>1, <2>2 DEF Diff, Proceed
    <2>4. "sec" \in Drafted
      BY <1>0, <2>1, <2>3, RedDiff
    <2>5. QED
      BY <1>1, <2>3, <2>4 DEF ClaimsOK, Drafted
  <1>2. CASE step' = "amend_submit"
    <2>1. step \in {"concur", "amend_submit"}
      BY <1>0, <1>2, StepIs, StepsAre DEF PhaseNames, CutShort
    <2>2. CASE step = "concur"
      <3>1. Concur
        BY <2>2, ActionIs
      <3>2. todo' = AMENDMENT_BRANCHES
        BY <1>2, <3>1 DEF Concur, Proceed, Raise, Work
      <3>3. QED
        BY <1>2, <3>2 DEF ClaimsOK
    <2>3. CASE step = "amend_submit"
      <3>1. SubmitAmendment
        BY <2>3, ActionIs
      <3>2. After(step) = "amend_diff" /\ CanSubmit
        BY <1>0, <2>3, AfterTable DEF LoopOK, Wanted, DutyOK, CanSubmit
      <3>3. Len(todo) > 1 /\ todo' = Tail(todo)
        BY <1>2, <3>1, <3>2 DEF SubmitAmendment, NextBranch, Proceed
      <3>4. todo = AMENDMENT_BRANCHES
        BY <2>3, <3>3, PairLists DEF ClaimsOK
      <3>5. claims' = [claims EXCEPT !["sec"] = AmendedFacts]
        BY <3>1, <3>2, <3>4, PairLists DEF SubmitAmendment
      <3>6. claims'["sec"] = AmendedFacts
        BY <1>0, <3>5 DEF FloorTypeOK, Branches, Regulators
      <3>7. QED
        BY <1>2, <3>3, <3>4, <3>6, PairLists DEF ClaimsOK
    <2>4. QED
      BY <2>1, <2>2, <2>3
  <1>3. CASE step' = "amend_diff"
    <2>1. step = "amend_submit"
      BY <1>0, <1>3, StepIs, StepsAre DEF PhaseNames, CutShort
    <2>2. SubmitAmendment
      BY <2>1, ActionIs
    <2>3. CanSubmit
      BY <1>0, <2>1 DEF DutyOK, CanSubmit
    <2>4. ~(Len(todo) > 1)
      BY <1>3, <2>1, <2>2, <2>3 DEF SubmitAmendment, NextBranch
    <2>5. todo = <<"nis2">> /\ claims["sec"] = AmendedFacts
      BY <2>1, <2>4, PairLists DEF ClaimsOK
    <2>6. claims' = [claims EXCEPT !["nis2"] = AmendedFacts]
      BY <2>2, <2>3, <2>5, PairLists DEF SubmitAmendment
    <2>7. claims'["sec"] = AmendedFacts /\ claims'["nis2"] = AmendedFacts
      BY <1>0, <2>5, <2>6 DEF FloorTypeOK, Branches, Regulators
    <2>8. \A b : Amended(b)' <=> b \in {"sec", "nis2"}
      BY WorkLists DEF Amended
    <2>9. QED
      BY <1>3, <2>7, <2>8 DEF ClaimsOK
  <1>4. CASE step' = "amend_release"
    <2>1. step \in {"amend_diff", "amend_release"}
      BY <1>0, <1>4, StepIs, StepsAre DEF PhaseNames, CutShort
    <2>2. CASE step = "amend_diff"
      <3>1. AmendDiff
        BY <2>2, ActionIs
      <3>2. todo' = AMENDMENT_BRANCHES
        BY <1>4, <3>1 DEF AmendDiff, Proceed, Raise, Work
      <3>3. QED
        BY <1>4, <3>2 DEF ClaimsOK
    <2>3. CASE step = "amend_release"
      <3>1. BeginRerelease \/ SignKey \/ Turn
        BY <2>3, ActionIs
      <3>2. After(step) # "amend_release"
        BY <1>0, <2>3, AfterTable DEF LoopOK, Wanted
      <3>3. todo' = todo \/ (Len(todo) > 1 /\ todo' = Tail(todo))
        BY <1>4, <2>3, <3>1, <3>2 DEF BeginRerelease, SignKey, Turn, NextBranch, Proceed,
           Raise
      <3>4. todo' \in {AMENDMENT_BRANCHES, <<"nis2">>}
        <4>1. todo \in {AMENDMENT_BRANCHES, <<"nis2">>}
          BY <2>3 DEF ClaimsOK
        <4>2. todo = <<"nis2">> => ~(Len(todo) > 1)
          BY PairLists
        <4>3. QED
          BY <3>3, <4>1, <4>2, PairLists
      <3>5. QED
        BY <1>4, <3>4 DEF ClaimsOK
    <2>4. QED
      BY <2>1, <2>2, <2>3
  <1>5. CASE step' \notin {"resolve", "amend_submit", "amend_diff", "amend_release"}
    BY <1>5 DEF ClaimsOK
  <1>6. QED
    BY <1>1, <1>2, <1>3, <1>4, <1>5
-----------------------------------------------------------------------------
(***************************************************************************)
(* What a step leaves of the room.                                         *)
(***************************************************************************)
\* Where a key is in a room.
Places(r, key) == { i \in DOMAIN r.log : r.log[i].key = key }

LEMMA OnePlace ==
  ASSUME NEW r, Sound(r), NEW i \in DOMAIN r.log, NEW key, r.log[i].key = key
  PROVE  /\ Places(r, key) = {i} /\ Cardinality(Places(r, key)) = 1
         /\ Oldest(Places(r, key)) = i
  <1>1. Places(r, key) = {i}
    BY DEF Places, Sound
  <1>2. Cardinality({i}) = 1
    BY FS_Singleton
  <1>3. i <= i
    BY LogFacts
  <1>4. Oldest({i}) = i
    BY <1>3 DEF Oldest
  <1>5. QED
    BY <1>1, <1>2, <1>4

LEMMA PlacedOnce ==
  ASSUME NEW r, Sound(r), NEW key
  PROVE  Cardinality(Places(r, key)) = 1 <=> Posted(r, key)
  <1>1. CASE Posted(r, key)
    <2>1. PICK i \in DOMAIN r.log : r.log[i].key = key
      BY <1>1 DEF Posted
    <2>2. QED
      BY <1>1, <2>1, OnePlace
  <1>2. CASE ~Posted(r, key)
    <2>1. Places(r, key) = {}
      BY <1>2 DEF Posted, Places
    <2>2. Cardinality({}) = 0
      BY FS_EmptySet
    <2>3. QED
      BY <1>2, <2>1, <2>2
  <1>3. QED
    BY <1>1, <1>2

LEMMA GrownLog ==
  ASSUME NEW r, NEW s, NEW M, Sound(r), Grows(r, s, M)
  PROVE  /\ Sound(s) /\ Len(r.log) \in Nat /\ Len(s.log) \in Nat
         /\ Len(r.log) <= Len(s.log)
         /\ DOMAIN r.log = 1..Len(r.log) /\ DOMAIN s.log = 1..Len(s.log)
         /\ \A i \in DOMAIN r.log : i \in DOMAIN s.log /\ s.log[i] = r.log[i]
         /\ \A i \in DOMAIN s.log :
              i \in DOMAIN r.log \/ (i > Len(r.log) /\ s.log[i] \in M)
  <1>1. Sound(s)
    BY DEF Grows
  <1>2. /\ Len(r.log) \in Nat /\ Len(s.log) \in Nat
        /\ DOMAIN r.log = 1..Len(r.log) /\ DOMAIN s.log = 1..Len(s.log)
    BY <1>1, LogFacts
  <1>3. QED
    BY <1>1, <1>2 DEF Grows

\* What is new comes after what was there.
LEMMA NewMessage ==
  ASSUME NEW r, NEW s, NEW M, Sound(r), Grows(r, s, M), NEW m \in M,
         ~Posted(r, m.key), \A n \in M : n.key = m.key => n = m
  PROVE  \E i \in DOMAIN s.log : i > Len(r.log) /\ s.log[i] = m
  <1>1. PICK i \in DOMAIN s.log : s.log[i].key = m.key
    BY DEF Grows, Posted
  <1>2. i \notin DOMAIN r.log
    BY <1>1, GrownLog DEF Posted
  <1>3. i > Len(r.log) /\ s.log[i] \in M
    BY <1>2, GrownLog
  <1>4. QED
    BY <1>1, <1>3

LEMMA OldPlaces ==
  ASSUME NEW r, NEW s, NEW M, Sound(r), Grows(r, s, M), NEW key,
         \A m \in M : m.key # key
  PROVE  Places(s, key) = Places(r, key) /\ (Posted(s, key) <=> Posted(r, key))
  BY GrownLog DEF Places, Posted

LEMMA RecoveryStays ==
  ASSUME RecoveryIsTold, scenario' = scenario, Sound(room), NEW M,
         Grows(room, room', M),
         \A m \in M : \A topic \in TurnTopics : \A b \in Startup : m.key # <<topic, b, 1>>
  PROVE  RecoveryIsTold'
  <1>1. \A topic \in TurnTopics : \A b \in Startup :
          At(<<topic, b, 1>>)' = At(<<topic, b, 1>>)
    BY OldPlaces DEF At, Places
  <1>2. QED
    BY <1>1 DEF RecoveryIsTold, TurnTopics

LEMMA TopicsStay ==
  ASSUME IInv, Drive, ~CutShort', Sound(room), TopicsOK, NEW M, Grows(room, room', M),
         \A m \in M : Timely(m.key)'
  PROVE  TopicsOK'
  <1>1. ASSUME NEW i \in DOMAIN room'.log PROVE Timely(room.log[i].key)'
    <2>1. CASE i \in DOMAIN room.log
      <3>1. room'.log[i] = room.log[i] /\ Timely(room.log[i].key)
        BY <2>1, GrownLog DEF TopicsOK
      <3>2. PICK key : key = room.log[i].key
        OBVIOUS
      <3>3. key \in DedupKeys /\ Timely(key)
        BY <2>1, <3>1, <3>2, LogFacts DEF Messages
      <3>4. Timely(key)'
        BY <3>3, TimelyStays
      <3>5. room'.log[i].key = key
        BY <3>1, <3>2
      <3>6. QED
        BY <3>4, <3>5 DEF Timely
    <2>2. CASE i \notin DOMAIN room.log
      <3>1. PICK m \in M : room'.log[i] = m
        BY <1>1, <2>2, GrownLog
      <3>2. PICK key : key = m.key
        OBVIOUS
      <3>3. Timely(key)' /\ room'.log[i].key = key
        BY <3>1, <3>2 DEF Timely
      <3>4. QED
        BY <3>3 DEF Timely
    <2>3. QED
      BY <2>1, <2>2
  <1>2. QED
    BY <1>1 DEF TopicsOK

LEMMA ToldStays ==
  ASSUME Sound(room), NEW M, Grows(room, room', M), apClient' = apClient,
         NEW b, NEW round, FilingIsTold(b, round)
  PROVE  FilingIsTold(b, round)'
  <1>1. \A i \in ReleasesOf(b, round) : i \in ReleasesOf(b, round)'
    BY GrownLog DEF ReleasesOf
  <1>2. \A i \in At(<<"draft", b, round>>) : i \in At(<<"draft", b, round>>)'
    BY GrownLog DEF At
  <1>3. QED
    BY <1>1, <1>2 DEF FilingIsTold

LEMMA InboxStays ==
  ASSUME NEW r, NEW s, NEW M, Sound(r), Grows(r, s, M), NEW a,
         s.marked[a] = r.marked[a], Inbox(r, a) # {}
  PROVE  Inbox(s, a) # {}
  BY GrownLog DEF Inbox

\* The mail of the drafter that is asked to concur.
LEMMA MailStays ==
  ASSUME IInv, Drive, ~CutShort', scenario' = scenario, MailOK, Sound(room), NEW M,
         Grows(room, room', M), step' # "concur",
         Amends /\ step' \in BeforeAmend \cup {"propose"} =>
           /\ \A i \in room'.marked["nis2"] : \/ i \in room.marked["nis2"]
                                              \/ /\ i \in DOMAIN room.log
                                                 /\ room.log[i].key = All("factrecord")
           /\ \A m \in M : "nis2" \in m.to =>
                \/ Due(m.key)' \/ m.key = All("factrecord")
                \/ m.key = ToNis2("challenge") /\ ~Undrafted("nis2")'
           /\ \A key \in Dues : Due(key)' => \/ Due(key)
                                            \/ /\ ~Posted(room, key)
                                               /\ \E m \in M : m.key = key
                                               /\ \A m \in M : m.key = key => "nis2" \in m.to
  PROVE  MailOK'
  <1> SUFFICES ASSUME Amends', step' \in (BeforeAmend \cup {"propose", "concur"})'
               PROVE  MailOK'
    BY DEF MailOK
  <1>0. (BeforeAmend \cup {"propose", "concur"})' = BeforeAmend \cup {"propose", "concur"}
    BY DEF BeforeAmend, Early, Joining
  <1>1. Amends /\ step' \in BeforeAmend \cup {"propose"}
    BY <1>0 DEF Amends
  <1>2. step \in BeforeAmend /\ step # "concur"
    <2>1. step \in Steps
      BY DEF IInv, FloorTypeOK
    <2>2. QED
      BY <1>1, <2>1, StepIs, StepsAre DEF PhaseNames, BeforeAmend, Early, Joining, CutShort
  <1>3. \A key : Due(key) => Due(key)'
    BY Forward DEF Due
  <1>4. ~Undrafted("nis2") => ~Undrafted("nis2")'
    BY Forward
  <1>5. ASSUME NEW i \in DOMAIN room'.log, "nis2" \in room'.log[i].to,
               NEW key, key = room'.log[i].key
        PROVE  \/ Due(key)' \/ key = All("factrecord")
               \/ key = ToNis2("challenge") /\ ~Undrafted("nis2")'
    <2>1. CASE i \in DOMAIN room.log
      <3>1. "nis2" \in room.log[i].to /\ key = room.log[i].key
        BY <1>5, <2>1, GrownLog
      <3>2. QED
        BY <1>1, <1>2, <1>3, <1>4, <2>1, <3>1 DEF MailOK
    <2>2. CASE i \notin DOMAIN room.log
      <3>1. PICK m \in M : room'.log[i] = m
        BY <1>5, <2>2, GrownLog
      <3>2. QED
        BY <1>1, <1>5, <3>1
    <2>3. QED
      BY <2>1, <2>2
  <1>6. ASSUME NEW i \in room'.marked["nis2"]
        PROVE  room'.log[i].key = All("factrecord")
    <2>1. i \in DOMAIN room.log /\ room.log[i].key = All("factrecord")
      <3>1. CASE i \in room.marked["nis2"]
        <4>1. room.log[i].key = All("factrecord")
          BY <1>1, <1>2, <3>1 DEF MailOK
        <4>2. "nis2" \in Agents
          BY DEF Agents, Branches, Regulators
        <4>3. QED
          BY <3>1, <4>1, <4>2 DEF Sound
      <3>2. CASE i \notin room.marked["nis2"]
        BY <1>1, <1>6, <3>2
      <3>3. QED
        BY <3>1, <3>2
    <2>2. QED
      BY <2>1, GrownLog
  <1>7. ASSUME NEW key \in Dues, Due(key)'
        PROVE  \E i \in DOMAIN room'.log : room'.log[i].key = key /\ "nis2" \in room'.log[i].to
    <2>1. CASE Due(key)
      <3>1. PICK i \in DOMAIN room.log : room.log[i].key = key /\ "nis2" \in room.log[i].to
        BY <1>1, <1>2, <2>1 DEF MailOK
      <3>2. QED
        BY <3>1, GrownLog
    <2>2. CASE ~Due(key)
      <3>1. /\ ~Posted(room, key) /\ \A m \in M : m.key = key => "nis2" \in m.to
            /\ \E m \in M : m.key = key
        BY <1>1, <1>7, <2>2
      <3>2. PICK i \in DOMAIN room'.log : room'.log[i].key = key
        BY <3>1 DEF Grows, Posted
      <3>3. i \notin DOMAIN room.log
        BY <3>1, <3>2, GrownLog DEF Posted
      <3>4. QED
        BY <3>1, <3>2, <3>3, GrownLog
    <2>3. QED
      BY <2>1, <2>2
  <1>8. step' # "concur" /\ Dues' = Dues
    BY DEF Dues, ToNis2, All
  <1>9. \A i \in DOMAIN room'.log : "nis2" \in room'.log[i].to =>
             \/ Due(room.log[i].key)' \/ room'.log[i].key = All("factrecord")
             \/ room'.log[i].key = ToNis2("challenge") /\ ~Undrafted("nis2")'
    <2>1. ASSUME NEW i \in DOMAIN room'.log, "nis2" \in room'.log[i].to
          PROVE \/ Due(room.log[i].key)' \/ room'.log[i].key = All("factrecord")
                \/ room'.log[i].key = ToNis2("challenge") /\ ~Undrafted("nis2")'
      <3>1. PICK key : key = room'.log[i].key
        OBVIOUS
      <3>2. \/ Due(key)' \/ key = All("factrecord")
            \/ key = ToNis2("challenge") /\ ~Undrafted("nis2")'
        BY <1>5, <2>1, <3>1
      <3>3. QED
        BY <3>1, <3>2 DEF Due
    <2>2. QED
      BY <2>1
  <1>10. QED
    BY <1>6, <1>7, <1>8, <1>9 DEF MailOK, All, ToNis2

LEMMA Names ==
  /\ Branches \subseteq Subjects /\ Branches \subseteq Agents
  /\ Startup = {"nis2", "sec", "dora"} /\ Startup \subseteq Branches
  /\ "warden" \in Agents /\ "triage" \in Agents /\ "challenger" \in Agents
  /\ "warden" \notin Branches /\ "triage" \notin Branches /\ "challenger" \notin Branches
  /\ "all" \notin Branches /\ "all" \notin Startup
  /\ AffectedParty \in Branches /\ AffectedParty \notin Regulators
  /\ Regulators \subseteq Branches /\ AffectedParty \notin Startup
  /\ "sec" \in Regulators /\ "nis2" \in Regulators
  <1>1. Startup = {"nis2", "sec", "dora"}
    <2>1. \A b : b \in Startup <=> \E i \in DOMAIN DRAFTER_ROLES : DRAFTER_ROLES[i] = b
      BY DEF Startup
    <2>2. \A b : b \in Startup <=> b \in {"nis2", "sec", "dora"}
      BY <2>1, WorkLists DEF Drafters
    <2>3. QED
      BY <2>2
  <1>2. Branches \subseteq Subjects /\ Branches \subseteq Agents
    BY DEF Subjects, Agents
  <1>3. QED
    BY <1>1, <1>2 DEF Branches, Regulators, AffectedParty, Agents

\* Posting leaves every mention as open as it was.
Adds(r, s, M) == Grows(r, s, M) /\ s.marked = r.marked /\ s.fault = r.fault

LEMMA AddsNothing == ASSUME NEW r, Sound(r) PROVE Adds(r, r, {})
  BY GrowsNothing DEF Adds

LEMMA AddsOn ==
  ASSUME NEW r, NEW s, NEW t, NEW M, NEW N, Sound(r), Adds(r, s, M), Adds(s, t, N)
  PROVE  Adds(r, t, M \cup N)
  BY GrowsOn DEF Adds

LEMMA PostAdds ==
  ASSUME NEW r, Sound(r), NEW m \in Messages, m.from \notin m.to
  PROVE  Adds(r, Post(r, m), {m})
  BY PostGrows, PostFacts DEF Adds

\* s is r and one message, to those it names; or, from the Warden, to those it
\* names but itself, or else to everybody.
Tells(r, s, key, to, about) ==
  \E m \in Messages :
    /\ Adds(r, s, {m}) /\ s = Post(r, m)
    /\ m.key = key /\ m.to = to /\ m.about = about

Says(r, s, key, to, about) ==
  \E m \in Messages :
    /\ Adds(r, s, {m}) /\ s = Post(r, m)
    /\ m.key = key /\ m.about = about
    /\ "warden" \notin m.to /\ m.to = Addressees(r, to)
    /\ to \ {"warden"} # {} => m.to = to \ {"warden"}

LEMMA PostTells ==
  ASSUME NEW r, Sound(r), NEW key \in DedupKeys, NEW from \in Agents,
         NEW to \in SUBSET Agents, from \notin to, NEW about \in SUBSET Subjects
  PROVE  Tells(r, Post(r, Message(key, from, to, about)), key, to, about)
  <1>1. PICK m : m = Message(key, from, to, about)
    OBVIOUS
  <1>2. /\ m \in Messages /\ m.key = key /\ m.to = to /\ m.from = from
        /\ m.about = about
    BY <1>1 DEF Message, Messages
  <1>3. Adds(r, Post(r, m), {m})
    BY <1>2, PostAdds
  <1>4. QED
    BY <1>1, <1>2, <1>3 DEF Tells

LEMMA TellAdds ==
  ASSUME NEW r, Sound(r), NEW topic \in Topics, NEW b \in Branches, NEW n \in Nat,
         NEW from \in Agents, NEW to \in SUBSET Agents, from \notin to
  PROVE  Tells(r, Tell(r, topic, b, n, from, to), <<topic, b, n>>, to, {b})
  <1>1. <<topic, b, n>> \in DedupKeys /\ {b} \in SUBSET Subjects
    BY Names DEF DedupKeys
  <1>2. PICK key, about : key = <<topic, b, n>> /\ about = {b}
    OBVIOUS
  <1>3. Tell(r, topic, b, n, from, to) = Post(r, Message(key, from, to, about))
    BY <1>2 DEF Tell
  <1>4. Tells(r, Post(r, Message(key, from, to, about)), key, to, about)
    BY <1>1, <1>2, PostTells
  <1>5. QED
    BY <1>2, <1>3, <1>4

LEMMA SayAdds ==
  ASSUME NEW r, Sound(r), NEW key \in DedupKeys, NEW to \in SUBSET Agents,
         NEW about \in SUBSET Subjects
  PROVE  Says(r, AnnounceAbout(r, key, to, about), key, to, about)
  <1> DEFINE named == Addressees(r, to)
  <1>1. r.peers \subseteq Agents /\ "nis2" \in r.peers /\ "warden" \in Agents
    BY DEF Sound, Rooms, Startup, DRAFTER_ROLES, Agents
  <1>2. /\ named \subseteq Agents /\ named # {} /\ "warden" \notin named
        /\ to \ {"warden"} # {} => named = to \ {"warden"}
    BY <1>1 DEF Addressees
  <1>3. PICK m : m = Message(key, "warden", named, about)
    OBVIOUS
  <1>4. AnnounceAbout(r, key, to, about) = Post(r, m)
    BY <1>2, <1>3 DEF AnnounceAbout
  <1> HIDE DEF named
  <1>5. /\ m \in Messages /\ m.key = key /\ m.from = "warden" /\ m.about = about
        /\ m.to = named
    BY <1>1, <1>2, <1>3 DEF Message, Messages
  <1>6. Adds(r, Post(r, m), {m})
    BY <1>2, <1>5, PostAdds
  <1>7. QED
    BY <1>2, <1>4, <1>5, <1>6 DEF Says, named

LEMMA AnnounceAdds ==
  ASSUME NEW r, Sound(r), NEW topic \in Topics, NEW b \in Subjects, NEW n \in Nat,
         NEW to \in SUBSET Agents
  PROVE  Says(r, Announce(r, topic, b, n, to), <<topic, b, n>>, to, {b})
  <1>1. <<topic, b, n>> \in DedupKeys /\ {b} \in SUBSET Subjects
    BY DEF DedupKeys
  <1>2. Announce(r, topic, b, n, to) = AnnounceAbout(r, <<topic, b, n>>, to, {b})
    BY DEF Announce
  <1>3. PICK key, about : key = <<topic, b, n>> /\ about = {b}
    OBVIOUS
  <1>4. Says(r, AnnounceAbout(r, key, to, about), key, to, about)
    BY <1>1, <1>3, SayAdds
  <1>5. QED
    BY <1>2, <1>3, <1>4

LEMMA RegisterFacts ==
  ASSUME NEW r, Sound(r), NEW b \in Agents
  PROVE  Adds(r, Register(r, b), {}) /\ Sound(Register(r, b))
  <1> DEFINE s == Register(r, b)
  <1>1. r \in Rooms
    BY DEF Sound
  <1>2. /\ s.log = r.log /\ s.marked = r.marked /\ s.fault = r.fault
        /\ s.peers = r.peers \cup {b} /\ s \in Rooms
    BY <1>1 DEF Register, Rooms
  <1>3. Sound(s)
    BY <1>2 DEF Sound
  <1>4. Grows(r, s, {})
    BY <1>2, <1>3, LogFacts DEF Grows
  <1>5. QED
    BY <1>2, <1>3, <1>4 DEF Adds

-----------------------------------------------------------------------------
\* It is enough to look at what a step adds to the room.
LEMMA StepKeepsTheRest ==
  ASSUME IInv, RoomIInv, Drive, ~CutShort', scenario' = scenario, UNCHANGED options,
         NEW M, Grows(room, room', M),
         \A m \in M : Timely(m.key)',
         RecoveryIsTold',
         \A b \in Branches :
           claims'[b] # NoClaims /\ (b = AffectedParty => apClient) =>
             \/ claims[b] # NoClaims /\ DraftNumber(b)' = DraftNumber(b)
             \/ \E m \in M : m.key = <<"draft", b, DraftNumber(b)'>>,
         step' # "release" =>
           \A b \in Branches : \A round \in DOMAIN filed'[b] :
             \/ step # "release" /\ round \in DOMAIN filed[b]
             \/ FilingIsTold(b, round)',
         InboxOK', MailOK'
  PROVE  RoomIInv'
  <1>0. ~CutShort
    BY StepIs
  <1>1. /\ OptionsOK /\ Sound(room) /\ RecoveryIsTold /\ SignoffIsOpen
        /\ room.fault = "none" /\ TopicsOK /\ DraftsPosted /\ ReleasesTold /\ ClaimsOK
    BY <1>0 DEF RoomIInv
  <1>2. OptionsOK'
    BY <1>1 DEF OptionsOK, options
  <1>3. Sound(room') /\ room'.fault = "none"
    BY <1>1 DEF Grows
  <1>5. TurnsAreServed'
    BY <1>3 DEF TurnsAreServed, CutShort
  <1>6. SignoffIsOpen'
    BY <1>1, SignoffStays DEF Next
  <1>7. TopicsOK'
    BY <1>1, TopicsStay
  <1>8. ClaimsOK'
    BY <1>1, ClaimsStay
  <1>9. DraftsPosted'
    <2>1. ASSUME NEW b \in Branches, claims'[b] # NoClaims, b = AffectedParty => apClient',
                 NEW key, key = <<"draft", b, DraftNumber(b)'>>
          PROVE  Posted(room', key)
      <3>1. CASE claims[b] # NoClaims /\ DraftNumber(b)' = DraftNumber(b)
        <4>1. Posted(room, key)
          BY <1>1, <2>1, <3>1 DEF DraftsPosted, options
        <4>2. QED
          BY <1>1, <4>1, PostsStay
      <3>2. CASE \E m \in M : m.key = key
        BY <3>2 DEF Grows
      <3>3. QED
        BY <2>1, <3>1, <3>2 DEF options
    <2>2. QED
      BY <2>1 DEF DraftsPosted
  <1>10. ReleasesTold'
    <2>1. ASSUME step' # "release", NEW b \in Branches, NEW round \in DOMAIN filed'[b]
          PROVE  FilingIsTold(b, round)'
      <3>1. CASE step # "release" /\ round \in DOMAIN filed[b]
        <4>1. FilingIsTold(b, round)
          BY <1>1, <3>1 DEF ReleasesTold
        <4>2. QED
          BY <1>1, <4>1, ToldStays DEF options
      <3>2. QED
        BY <2>1, <3>1
    <2>2. QED
      BY <2>1 DEF ReleasesTold
  <1>11. QED
    BY <1>2, <1>3, <1>5, <1>6, <1>7, <1>8, <1>9, <1>10 DEF RoomIInv

LEMMA StepKeepsRoom ==
  ASSUME IInv, RoomIInv, Drive, ~CutShort', scenario' = scenario, UNCHANGED options,
         NEW M, Grows(room, room', M),
         \A m \in M : Timely(m.key)',
         \A m \in M : \A topic \in TurnTopics : \A b \in Startup : m.key # <<topic, b, 1>>,
         \A b \in Branches :
           claims'[b] # NoClaims /\ (b = AffectedParty => apClient) =>
             \/ claims[b] # NoClaims /\ DraftNumber(b)' = DraftNumber(b)
             \/ \E m \in M : m.key = <<"draft", b, DraftNumber(b)'>>,
         step' # "release" =>
           \A b \in Branches : \A round \in DOMAIN filed'[b] :
             \/ step # "release" /\ round \in DOMAIN filed[b]
             \/ FilingIsTold(b, round)',
         InboxOK', MailOK'
  PROVE  RoomIInv'
  <1>1. RecoveryIsTold /\ Sound(room)
    BY StepIs DEF RoomIInv
  <1>2. RecoveryIsTold'
    BY <1>1, RecoveryStays
  <1>3. QED
    BY <1>2, StepKeepsTheRest

LEMMA DriveFrame ==
  ASSUME Drive
  PROVE  /\ scenario' = scenario
         /\ claims' = claims \/ Draft \/ Recruit \/ Resolve \/ SubmitAmendment
              \/ HighRisk \/ Cure
  <1>1. CASE \/ Open \/ Materiality \/ Reportability \/ SkipSuppressed \/ Draft
             \/ Recruit \/ CrossBorderScan \/ CrossBorderSignoff \/ Diff \/ Resolve
    BY <1>1 DEF Open, Materiality, Reportability, Judge, SkipSuppressed, Draft, Recruit,
       CrossBorderScan, CrossBorderSignoff, Diff, Resolve, branchVars
  <1>2. CASE \/ BeginRelease \/ SkipUnchecked \/ SignKey \/ Turn
             \/ Amend \/ Propose \/ Concur \/ SubmitAmendment \/ AmendDiff
             \/ BeginRerelease
    BY <1>2 DEF BeginRelease, SkipUnchecked, SignKey, Turn, Amend, Propose, Concur,
       SubmitAmendment, AmendDiff, BeginRerelease, branchVars
  <1>3. CASE \/ NoHighRisk \/ HighRisk \/ DeficiencyNotice \/ Cure \/ LiftHold
             \/ Submission \/ Seal
    BY <1>3 DEF NoHighRisk, HighRisk, DeficiencyNotice, Cure, LiftHold, Submission,
       Seal, branchVars
  <1>4. QED
    BY <1>1, <1>2, <1>3 DEF Drive

\* Only the cure numbers a draft of an older branch anew.
LEMMA CuredStays ==
  ASSUME IInv, Drive, ~CutShort', ~Cure, NEW b
  PROVE  Cured(b)' = Cured(b)
  <1>1. scenario' = scenario
    BY DriveFrame
  <1>2. CASE scenario.mode # "deficiency"
    BY <1>1, <1>2 DEF Cured
  <1>3. CASE scenario.mode = "deficiency"
    <2>1. /\ FloorTypeOK /\ TodoOK /\ OnceEach(ran) /\ LoopOK /\ scenario \in Scenarios
          /\ step \in Steps /\ ~CutShort
      BY StepIs, IInvParts DEF FloorTypeOK, Running
    <2>2. /\ ~Amends /\ After("release") = "deficiency"
      BY <1>3, <2>1, AfterTable DEF Amends
    <2>3. /\ step \notin {"amend", "propose", "concur", "amend_submit", "amend_diff",
                          "amend_release", "affected_party", "lift_hold", "submission"}
      BY <1>3, <2>1, <2>2 DEF LoopOK, Wanted
    <2>4. CASE step = "cure"
      <3>1. SignKey \/ Turn
        BY <2>4, ActionIs
      <3>2. lock # "idle"
        BY <3>1 DEF SignKey, Turn
      <3>3. CASE SignKey
        BY <1>1, <2>4, <3>2, <3>3 DEF SignKey, Cured
      <3>4. CASE Turn
        <4>1. NextBranch
          BY <3>4 DEF Turn, Raise, CutShort
        <4>2. After("cure") = "seal"
          BY <1>3, <2>1, AfterTable
        <4>3. "seal" \in Steps \ {"release"}
          BY StepsAre DEF PhaseNames
        <4>4. step' = "seal"
          BY <2>1, <2>4, <4>1, <4>2, <4>3, SingleVisit
        <4>5. QED
          BY <1>1, <2>4, <3>2, <4>4 DEF Cured, Ending
      <3>5. QED
        BY <3>1, <3>3, <3>4
    <2>5. CASE step = "release"
      <3>1. step' \in {"release", "deficiency"}
        <4>1. BeginRelease \/ SkipUnchecked \/ SignKey \/ Turn
          BY <2>5, ActionIs
        <4>2. QED
          BY <2>2, <2>5, <4>1 DEF BeginRelease, SkipUnchecked, SignKey, Turn, NextBranch,
             Proceed, Raise, CutShort
      <3>2. QED
        BY <2>5, <3>1 DEF Cured, Ending
    <2>6. CASE step = "deficiency"
      <3>1. DeficiencyNotice /\ step' = "cure"
        BY <2>6, ActionIs, StepIs
      <3>2. lock' = "idle"
        BY <2>1, <2>6, <3>1 DEF DeficiencyNotice, lockVars, LoopOK, Releases
      <3>3. QED
        BY <2>6, <3>1, <3>2 DEF Cured, Ending
    <2>7. CASE step = "seal"
      BY <1>1, <2>7, StepIs DEF Cured, Ending
    <2>8. CASE step \notin {"cure", "release", "deficiency", "seal"}
      <3>1. step \in Early
        BY <2>1, <2>3, <2>8, StepIs, StepsAre DEF PhaseNames, Early, Joining, CutShort
      <3>2. step' \in Early \cup {"release"}
        BY <3>1, StepIs DEF Early, Joining
      <3>3. QED
        BY <3>1, <3>2 DEF Cured, Ending, Early, Joining
    <2>9. QED
      BY <2>4, <2>5, <2>6, <2>7, <2>8
  <1>4. QED
    BY <1>2, <1>3

\* A step that neither drafts nor files.
LEMMA PlainStep ==
  ASSUME IInv, RoomIInv, Drive, ~CutShort', UNCHANGED options,
         NEW M, Grows(room, room', M),
         \A m \in M : Timely(m.key)',
         \A m \in M : \A topic \in TurnTopics : \A b \in Startup : m.key # <<topic, b, 1>>,
         ~(Draft \/ Recruit \/ Resolve \/ SubmitAmendment \/ HighRisk \/ Cure),
         step' = "release" \/ (step # "release" /\ ~Turn),
         InboxOK', MailOK'
  PROVE  RoomIInv'
  <1>1. scenario' = scenario /\ claims' = claims
    BY DriveFrame
  <1>2. ASSUME NEW b \in Branches PROVE DraftNumber(b)' = DraftNumber(b)
    <2>1. Cured(b)' = Cured(b)
      BY CuredStays
    <2>2. QED
      BY <1>1, <2>1 DEF DraftNumber
  <1>3. \A b \in Branches :
           claims'[b] # NoClaims /\ (b = AffectedParty => apClient) =>
             \/ claims[b] # NoClaims /\ DraftNumber(b)' = DraftNumber(b)
             \/ \E m \in M : m.key = <<"draft", b, DraftNumber(b)'>>
    BY <1>1, <1>2
  <1>4. step' # "release" =>
           \A b \in Branches : \A round \in DOMAIN filed'[b] :
             \/ step # "release" /\ round \in DOMAIN filed[b]
             \/ FilingIsTold(b, round)'
    <2>1. ASSUME step' # "release" PROVE step # "release" /\ filed' = filed
      BY <2>1, FiledGrows
    <2>2. QED
      BY <2>1
  <1>5. QED
    BY <1>1, <1>3, <1>4, StepKeepsRoom

LEMMA NobodyAsked ==
  ASSUME step' \notin {"materiality", "reportability", "drafting", "propose"},
         step' = "cure" => lock' # "idle"
  PROVE  InboxOK'
  BY DEF InboxOK

LEMMA NoneConcurs ==
  ASSUME ~Amends' \/ step' \notin BeforeAmend \cup {"propose", "concur"}
  PROVE  MailOK'
  BY DEF MailOK, BeforeAmend, Early, Joining

OrderedTopics == {"diff-green", "key1", "released", "amend", "amend-block", "propose",
                  "concur", "deficiency"}

LEMMA TimelyElse ==
  ASSUME NEW key, step' # "open", key[1] \notin TurnTopics \cup OrderedTopics
  PROVE  Timely(key)'
  <1>1. key # All("key1") /\ key # All("released")
    BY DEF All, OrderedTopics
  <1>2. Before(key)' = {"open"}
    BY <1>1 DEF Before, OrderedTopics, All
  <1>3. QED
    BY <1>2 DEF Timely, OrderedTopics

\* No step says what a drafter's turn says.
NoTurnKeys(M) ==
  \A m \in M : \A topic \in TurnTopics : \A b \in Startup : m.key # <<topic, b, 1>>

Drafts == Draft \/ Recruit \/ Resolve \/ SubmitAmendment \/ HighRisk \/ Cure

LEMMA QuietStep ==
  ASSUME IInv, RoomIInv, Drive, ~CutShort', Quiet, ~Drafts,
         step' = "release" \/ (step # "release" /\ ~Turn),
         InboxOK', MailOK'
  PROVE  RoomIInv'
  <1>1. Sound(room) /\ room' = room /\ UNCHANGED options
    BY DEF RoomIInv, Quiet
  <1>2. Grows(room, room', {})
    BY <1>1, GrowsNothing
  <1>3. QED
    BY <1>1, <1>2, PlainStep DEF Drafts

\* A step that says one thing, which nobody is waiting for.
LEMMA OneMessage ==
  ASSUME IInv, RoomIInv, Drive, ~CutShort', UNCHANGED options, ~Drafts,
         step' = "release" \/ (step # "release" /\ ~Turn),
         InboxOK', MailOK',
         NEW key, NEW to, NEW about,
         Says(room, room', key, to, about) \/ Tells(room, room', key, to, about),
         key[1] \notin TurnTopics, Timely(key)'
  PROVE  RoomIInv'
  <1>1. PICK m \in Messages : Grows(room, room', {m}) /\ m.key = key
    BY DEF Says, Tells, Adds
  <1>2. Timely(m.key)'
    BY <1>1 DEF Timely
  <1>3. NoTurnKeys({m})
    BY <1>1 DEF NoTurnKeys, TurnTopics
  <1>4. QED
    BY <1>1, <1>2, <1>3, PlainStep DEF Drafts, NoTurnKeys

LEMMA DraftingPhases ==
  ASSUME Drafts \/ Turn
  PROVE  step \in {"drafting", "recruit_uk", "recruit_nydfs", "resolve", "amend_submit"}
                    \cup Releases
  BY DEF Drafts, Draft, Recruit, Resolve, SubmitAmendment, HighRisk, Cure, Turn, Releases

LEMMA SealRoom ==
  ASSUME IInv, RoomIInv, Seal, Quiet
  PROVE  RoomIInv'
  <1>1. Drive /\ step = "seal" /\ step' = "sealed" /\ ~CutShort'
    BY DEF Drive, Seal, CutShort
  <1>2. InboxOK' /\ MailOK'
    BY <1>1, NobodyAsked, NoneConcurs DEF BeforeAmend, Early, Joining
  <1>3. ~Drafts /\ ~Turn
    BY <1>1, DraftingPhases DEF Releases
  <1>4. QED
    BY <1>1, <1>2, <1>3, QuietStep

LEMMA AmendDiffRoom ==
  ASSUME IInv, RoomIInv, AmendDiff, Hears(AmendDiffMessages), ~CutShort'
  PROVE  RoomIInv'
  <1>1. Drive /\ step = "amend_diff" /\ step' = "amend_release" /\ ~CutShort
    <2>1. Drive /\ step = "amend_diff"
      BY DEF Drive, AmendDiff
    <2>2. QED
      BY <2>1, StepIs
  <1>2. InboxOK' /\ MailOK'
    BY <1>1, NobodyAsked, NoneConcurs DEF BeforeAmend, Early, Joining
  <1>3. ~Drafts /\ ~Turn
    BY <1>1, DraftingPhases DEF Releases
  <1>4. Sound(room)
    BY DEF RoomIInv
  <1>5. room' = Announce(room, "amend-green", "all", 1, {"sec", "nis2"})
        /\ UNCHANGED options
    BY <1>1 DEF Hears, AmendDiffMessages
  <1>6. PICK key, to, about : key = <<"amend-green", "all", 1>> /\ to = {"sec", "nis2"}
                              /\ about = {"all"}
    OBVIOUS
  <1>7. Says(room, room', key, to, about)
    <2>1. {"sec", "nis2"} \in SUBSET Agents
      BY Names
    <2>2. QED
      BY <1>4, <1>5, <1>6, <2>1, AnnounceAdds DEF Topics, Subjects
  <1>8. Timely(key)'
    BY <1>1, <1>6, TimelyElse DEF TurnTopics, OrderedTopics
  <1>9. key[1] \notin TurnTopics
    BY <1>6 DEF TurnTopics
  <1>10. QED
    BY <1>1, <1>2, <1>3, <1>5, <1>7, <1>8, <1>9, OneMessage

\* The same, announced by the Warden and about all.
LEMMA OneAnnouncement ==
  ASSUME IInv, RoomIInv, Drive, ~CutShort', ~Drafts,
         step' = "release" \/ (step # "release" /\ ~Turn),
         InboxOK', MailOK', NEW topic \in Topics \ (TurnTopics \cup OrderedTopics),
         NEW b \in Subjects, NEW n \in Nat, NEW to \in SUBSET Agents,
         Hears(Announce(room, topic, b, n, to))
  PROVE  RoomIInv'
  <1>1. PICK key, about : key = <<topic, b, n>> /\ about = {b}
    OBVIOUS
  <1>2. Says(room, room', key, to, about) /\ UNCHANGED options
    <2>1. Sound(room) /\ room' = Announce(room, topic, b, n, to) /\ UNCHANGED options
      BY DEF RoomIInv, Hears
    <2>2. Says(room, Announce(room, topic, b, n, to), <<topic, b, n>>, to, {b})
      BY <2>1, AnnounceAdds
    <2>3. QED
      BY <1>1, <2>1, <2>2
  <1>3. key[1] \notin TurnTopics \cup OrderedTopics
    BY <1>1
  <1>4. Timely(key)'
    BY <1>3, StepIs, TimelyElse
  <1>5. QED
    BY <1>2, <1>3, <1>4, OneMessage

LEMMA CrossBorderSignoffRoom ==
  ASSUME IInv, RoomIInv, CrossBorderSignoff, Hears(SignoffMessages), ~CutShort'
  PROVE  RoomIInv'
  <1>1. Drive /\ step = "cross_border_signoff" /\ step' = "diff" /\ ~CutShort
    <2>1. Drive /\ step = "cross_border_signoff"
      BY DEF Drive, CrossBorderSignoff
    <2>2. QED
      BY <2>1, StepIs
  <1>2. ~Amends'
    <2>1. scenario.mode = "cross_border"
      BY <1>1, IInvParts DEF Running, LoopOK
    <2>2. QED
      BY <1>1, <2>1, DriveFrame DEF Amends
  <1>3. InboxOK' /\ MailOK' /\ ~Drafts /\ ~Turn
    BY <1>1, <1>2, NobodyAsked, NoneConcurs, DraftingPhases DEF Releases
  <1>4. "xborder-resolved" \in Topics \ (TurnTopics \cup OrderedTopics)
    BY DEF Topics, TurnTopics, OrderedTopics
  <1>5. Startup \in SUBSET Agents /\ "all" \in Subjects
    BY Names DEF Subjects
  <1>6. QED
    BY <1>1, <1>3, <1>4, <1>5, OneAnnouncement DEF SignoffMessages

LEMMA NoHighRiskRoom ==
  ASSUME IInv, RoomIInv, NoHighRisk, Hears(NoHighRiskMessages), ~CutShort'
  PROVE  RoomIInv'
  <1>1. Drive /\ step = "affected_party" /\ ~CutShort
    <2>1. Drive /\ step = "affected_party"
      BY DEF Drive, NoHighRisk
    <2>2. QED
      BY <2>1, StepIs
  <1>2. step' = "seal"
    <2>1. step' = After(step)
      BY DEF NoHighRisk, Proceed
    <2>2. scenario \in Scenarios /\ scenario.mode = "affected_party"
      BY <1>1, IInvParts DEF FloorTypeOK, Running, LoopOK, Wanted
    <2>3. QED
      BY <1>1, <2>1, <2>2, AfterTable
  <1>3. InboxOK' /\ MailOK'
    BY <1>2, NobodyAsked, NoneConcurs DEF BeforeAmend, Early, Joining
  <1>4. ~Drafts /\ ~Turn
    BY <1>1, <1>2 DEF NoHighRisk, Drafts, Draft, Recruit, Resolve, SubmitAmendment, HighRisk,
       Cure, Turn
  <1>5. "art34" \in Topics \ (TurnTopics \cup OrderedTopics)
    BY DEF Topics, TurnTopics, OrderedTopics
  <1>6. room.peers \in SUBSET Agents /\ "no" \in Subjects
    BY DEF Subjects, RoomIInv, Sound, Rooms
  <1>7. QED
    BY <1>1, <1>3, <1>4, <1>5, <1>6, OneAnnouncement DEF NoHighRiskMessages

LEMMA LiftHoldRoom ==
  ASSUME IInv, RoomIInv, LiftHold, Hears(LiftMessages), ~CutShort'
  PROVE  RoomIInv'
  <1>1. Drive /\ step = "lift_hold" /\ ~CutShort /\ step' \in {"submission", "seal"}
    <2>1. Drive /\ step = "lift_hold"
      BY DEF Drive, LiftHold
    <2>2. QED
      BY <2>1, StepIs
  <1>2. InboxOK' /\ MailOK' /\ ~Drafts /\ ~Turn
    BY <1>1, NobodyAsked, NoneConcurs, DraftingPhases DEF Releases, BeforeAmend, Early,
       Joining
  <1>3. PICK key, about : key = <<"hold", "released", 1>> /\ about = {}
    OBVIOUS
  <1>4. key \in DedupKeys /\ about \in SUBSET Subjects /\ Startup \in SUBSET Agents
    BY <1>3, Names DEF DedupKeys, Topics, Subjects
  <1>5. Sound(room) /\ room' = AnnounceAbout(room, key, Startup, about) /\ UNCHANGED options
    BY <1>3 DEF RoomIInv, Hears, LiftMessages
  <1>6. Says(room, room', key, Startup, about)
    BY <1>4, <1>5, SayAdds
  <1>7. key[1] \notin TurnTopics \cup OrderedTopics
    BY <1>3 DEF TurnTopics, OrderedTopics
  <1>8. Timely(key)'
    BY <1>1, <1>7, TimelyElse
  <1>9. QED
    BY <1>1, <1>2, <1>5, <1>6, <1>7, <1>8, OneMessage

LEMMA DeficiencyRoom ==
  ASSUME IInv, RoomIInv, DeficiencyNotice, Hears(NoticeMessages), ~CutShort'
  PROVE  RoomIInv'
  <1>1. Drive /\ step = "deficiency" /\ ~CutShort /\ step' = "cure"
    <2>1. Drive /\ step = "deficiency"
      BY DEF Drive, DeficiencyNotice
    <2>2. QED
      BY <2>1, StepIs
  <1>2. MailOK' /\ ~Drafts /\ ~Turn
    BY <1>1, NoneConcurs, DraftingPhases DEF Releases, BeforeAmend, Early, Joining
  <1>3. Sound(room) /\ TopicsOK /\ UNCHANGED options
        /\ room' = Tell(room, "deficiency", "sec", 1, "warden", {"sec"})
    BY <1>1 DEF RoomIInv, Hears, NoticeMessages
  <1>4. PICK key : key = <<"deficiency", "sec", 1>>
    OBVIOUS
  <1>5. Tells(room, room', key, {"sec"}, {"sec"})
    <2>1. {"sec"} \in SUBSET Agents /\ "sec" \in Branches /\ "warden" \notin {"sec"}
      BY Names
    <2>2. QED
      BY <1>3, <1>4, <2>1, Names, TellAdds DEF Topics
  <1>6. InboxOK'
    <2>1. PICK m \in Messages : Adds(room, room', {m}) /\ m.key = key /\ m.to = {"sec"}
      BY <1>5 DEF Tells
    <2>2. ~Posted(room, key)
      <3>1. ~Timely(key)
        BY <1>1, <1>4 DEF Timely, Before, All
      <3>2. QED
        BY <1>3, <3>1 DEF TopicsOK, Posted
    <2>3. PICK i \in DOMAIN room'.log : i > Len(room.log) /\ room'.log[i] = m
      BY <1>3, <2>1, <2>2, NewMessage DEF Adds
    <2>4. i \notin room'.marked["sec"]
      BY <1>3, <2>1, <2>3, LogFacts, Names DEF Adds
    <2>5. Inbox(room', "sec") # {}
      BY <2>1, <2>3, <2>4 DEF Inbox
    <2>6. Inbox(room, "sec")' # {}
      BY <2>5 DEF Inbox
    <2>7. QED
      BY <1>1, <2>6 DEF InboxOK
  <1>7. key[1] \notin TurnTopics
    BY <1>4 DEF TurnTopics
  <1>8. Timely(key)'
    BY <1>1, <1>4 DEF Timely, Before, Early, Joining, All, TurnTopics
  <1>9. QED
    BY <1>1, <1>2, <1>3, <1>5, <1>6, <1>7, <1>8, OneMessage

\* Some messages nobody is waiting for.
Chats(r, s) ==
  \E M : Adds(r, s, M) /\ \A m \in M : m.key[1] \notin TurnTopics \cup OrderedTopics

ChatTopics == Topics \ (TurnTopics \cup OrderedTopics)

LEMMA ChatsOn ==
  ASSUME NEW r, NEW s, NEW t, Sound(r), Chats(r, s), Chats(s, t)
  PROVE  Chats(r, t)
  <1>1. PICK M : Adds(r, s, M) /\ \A m \in M : m.key[1] \notin TurnTopics \cup OrderedTopics
    BY DEF Chats
  <1>2. PICK N : Adds(s, t, N) /\ \A m \in N : m.key[1] \notin TurnTopics \cup OrderedTopics
    BY DEF Chats
  <1>3. Adds(r, t, M \cup N)
    BY <1>1, <1>2, AddsOn
  <1>4. QED
    BY <1>1, <1>2, <1>3 DEF Chats

LEMMA ChatsFacts ==
  ASSUME NEW r, Sound(r)
  PROVE  /\ Chats(r, r)
         /\ \A s : Chats(r, s) => Sound(s)
         /\ \A topic \in ChatTopics : \A b \in Subjects : \A n \in Nat :
              \A to \in SUBSET Agents : Chats(r, Announce(r, topic, b, n, to))
         /\ \A topic \in ChatTopics : \A b \in Branches : \A n \in Nat :
              \A from \in Agents : \A to \in SUBSET (Agents \ {from}) :
                Chats(r, Tell(r, topic, b, n, from, to))
  <1>1. Chats(r, r)
    BY AddsNothing DEF Chats
  <1>2. \A s : Chats(r, s) => Sound(s)
    BY DEF Chats, Adds, Grows
  <1>3. ASSUME NEW topic \in ChatTopics, NEW b \in Subjects, NEW n \in Nat,
               NEW to \in SUBSET Agents
        PROVE  Chats(r, Announce(r, topic, b, n, to))
    <2>1. Says(r, Announce(r, topic, b, n, to), <<topic, b, n>>, to, {b})
      BY AnnounceAdds DEF ChatTopics
    <2>2. PICK m \in Messages :
            Adds(r, Announce(r, topic, b, n, to), {m}) /\ m.key = <<topic, b, n>>
      BY <2>1 DEF Says
    <2>3. m.key[1] = topic
      BY <2>2
    <2>4. QED
      BY <2>2, <2>3 DEF Chats, ChatTopics
  <1>4. ASSUME NEW topic \in ChatTopics, NEW b \in Branches, NEW n \in Nat,
               NEW from \in Agents, NEW to \in SUBSET (Agents \ {from})
        PROVE  Chats(r, Tell(r, topic, b, n, from, to))
    <2>1. Tells(r, Tell(r, topic, b, n, from, to), <<topic, b, n>>, to, {b})
      <3>1. to \in SUBSET Agents /\ from \notin to
        OBVIOUS
      <3>2. QED
        BY <3>1, TellAdds DEF ChatTopics
    <2>2. PICK m \in Messages :
            Adds(r, Tell(r, topic, b, n, from, to), {m}) /\ m.key = <<topic, b, n>>
      BY <2>1 DEF Tells
    <2>3. m.key[1] = topic
      BY <2>2
    <2>4. QED
      BY <2>2, <2>3 DEF Chats, ChatTopics
  <1>5. QED
    BY <1>1, <1>2, <1>3, <1>4

LEMMA ChatIsPlain ==
  ASSUME IInv, Drive, ~CutShort', NEW M,
         \A m \in M : m.key[1] \notin TurnTopics \cup OrderedTopics
  PROVE  /\ \A m \in M : Timely(m.key)'
         /\ NoTurnKeys(M)
  <1>1. ASSUME NEW m \in M PROVE Timely(m.key)'
    <2>1. PICK key : key = m.key
      OBVIOUS
    <2>2. Timely(key)'
      BY <2>1, StepIs, TimelyElse
    <2>3. QED
      BY <2>1, <2>2
  <1>2. NoTurnKeys(M)
    <2>1. \A topic, b : <<topic, b, 1>>[1] = topic
      OBVIOUS
    <2>2. QED
      BY <2>1 DEF NoTurnKeys
  <1>3. QED
    BY <1>1, <1>2

LEMMA ChatStep ==
  ASSUME IInv, RoomIInv, Drive, ~CutShort', UNCHANGED options, ~Drafts,
         step' = "release" \/ (step # "release" /\ ~Turn),
         InboxOK', MailOK', Chats(room, room')
  PROVE  RoomIInv'
  <1>1. PICK M : /\ Adds(room, room', M)
                 /\ \A m \in M : m.key[1] \notin TurnTopics \cup OrderedTopics
    BY DEF Chats
  <1>2. (\A m \in M : Timely(m.key)') /\ NoTurnKeys(M)
    BY <1>1, ChatIsPlain
  <1>3. QED
    BY <1>1, <1>2, PlainStep DEF Drafts, NoTurnKeys, Adds

LEMMA ScanRoom ==
  ASSUME IInv, RoomIInv, CrossBorderScan, Hears(ScanMessages), ~CutShort'
  PROVE  RoomIInv'
  <1>1. /\ Drive /\ step = "cross_border" /\ ~CutShort
        /\ step' \in {"cross_border_signoff", "diff"}
    <2>1. Drive /\ step = "cross_border"
      BY DEF Drive, CrossBorderScan
    <2>2. QED
      BY <2>1, StepIs
  <1>2. ~Amends'
    <2>1. scenario.mode = "cross_border"
      BY <1>1, IInvParts DEF Running, LoopOK, Wanted
    <2>2. QED
      BY <1>1, <2>1, DriveFrame DEF Amends
  <1>3. InboxOK' /\ MailOK' /\ ~Drafts /\ ~Turn
    BY <1>1, <1>2, NobodyAsked, NoneConcurs, DraftingPhases DEF Releases
  <1> DEFINE routed == Announce(room, "art56", "all", 1, Startup)
             pair == CHOOSE p \in OpposedObligations :
                       /\ \A b \in p : InRun(b)
                       /\ "dora" \in p \/ ~\E q \in OpposedObligations :
                                             "dora" \in q /\ \A b \in q : InRun(b)
  <1>4. /\ {"art56", "xborder-block"} \subseteq ChatTopics /\ "all" \in Subjects
        /\ Startup \in SUBSET Agents /\ pair \cap Startup \in SUBSET Agents
    BY Names DEF ChatTopics, Topics, TurnTopics, OrderedTopics, Subjects
  <1>5. Sound(room) /\ UNCHANGED options
        /\ room' = IF conflict' = "blocked"
                     THEN Announce(routed, "xborder-block", "all", 1, pair \cap Startup)
                     ELSE routed
    BY DEF RoomIInv, Hears, ScanMessages
  <1> HIDE DEF pair
  <1>6. Chats(room, routed) /\ Sound(routed)
    BY <1>4, <1>5, ChatsFacts
  <1> HIDE DEF routed
  <1>7. Chats(routed, Announce(routed, "xborder-block", "all", 1, pair \cap Startup))
    BY <1>4, <1>6, ChatsFacts
  <1>8. Chats(room, room')
    BY <1>5, <1>6, <1>7, ChatsOn
  <1>9. QED
    BY <1>1, <1>3, <1>5, <1>8, ChatStep

LEMMA SubmissionRoom ==
  ASSUME IInv, RoomIInv, Submission, Hears(SubmissionMessages), ~CutShort'
  PROVE  RoomIInv'
  <1>1. /\ Drive /\ step = "submission" /\ ~CutShort /\ step' = "seal"
    <2>1. Drive /\ step = "submission"
      BY DEF Drive, Submission
    <2>2. QED
      BY <2>1, StepIs
  <1>2. InboxOK' /\ MailOK' /\ ~Drafts /\ ~Turn
    BY <1>1, NobodyAsked, NoneConcurs, DraftingPhases DEF Releases, BeforeAmend, Early,
       Joining
  <1> DEFINE filedOf(r, b) ==
               IF b \in receipts' THEN Announce(r, "submission", b, 1, Startup) ELSE r
             afterSec == filedOf(room, "sec")
             afterNis2 == filedOf(afterSec, "nis2")
             afterUk == filedOf(afterNis2, "uk")
  <1>3. /\ "submission" \in ChatTopics /\ Startup \in SUBSET Agents
        /\ {"sec", "nis2", "uk"} \subseteq Subjects
    BY Names DEF ChatTopics, Topics, TurnTopics, OrderedTopics, Subjects, Branches, Regulators
  <1>4. Sound(room) /\ UNCHANGED options /\ room' = afterUk
    BY DEF RoomIInv, Hears, SubmissionMessages
  <1>5. ASSUME NEW r, Sound(r), NEW b \in {"sec", "nis2", "uk"}
        PROVE  Chats(r, filedOf(r, b)) /\ Sound(filedOf(r, b))
    BY <1>3, <1>5, ChatsFacts
  <1>6. Chats(room, afterSec) /\ Sound(afterSec)
    BY <1>4, <1>5
  <1>7. Chats(afterSec, afterNis2) /\ Sound(afterNis2)
    BY <1>5, <1>6
  <1>8. Chats(afterNis2, afterUk)
    BY <1>5, <1>7
  <1> HIDE DEF afterSec, afterNis2, afterUk, filedOf
  <1>9. Chats(room, room')
    BY <1>4, <1>6, <1>7, <1>8, ChatsOn
  <1>10. QED
    BY <1>1, <1>2, <1>4, <1>9, ChatStep

\* A step that leaves the room alone, and everybody's mail.
LEMMA QuietInbox ==
  ASSUME IInv, Drive, ~CutShort', InboxOK, room' = room,
         step \in {"materiality", "reportability", "drafting"}
  PROVE  InboxOK'
  <1>1. \A b \in Startup : Undrafted(b)' => Inbox(room', b) # {}
    BY Forward DEF InboxOK
  <1>2. step' \notin {"propose", "cure"}
    BY StepIs
  <1>3. QED
    BY <1>1, <1>2 DEF InboxOK

LEMMA QuietMail ==
  ASSUME IInv, RoomIInv, Drive, ~CutShort', room' = room, step' # "concur",
         Amends /\ step' \in BeforeAmend \cup {"propose"} =>
           \A key \in Dues : Due(key)' => Due(key)
  PROVE  MailOK'
  <1>1. scenario' = scenario /\ MailOK /\ Sound(room)
    BY DriveFrame, StepIs DEF RoomIInv
  <1>2. Grows(room, room', {})
    BY <1>1, GrowsNothing
  <1>3. QED
    BY <1>1, <1>2, MailStays

LEMMA DraftingEnds ==
  ASSUME IInv, Drive, step = "drafting", step' # "drafting"
  PROVE  \A b : InTodo(b) => b = Head(todo)
  <1>1. NextBranch /\ ran' = ran
    BY ActionIs DEF Draft, SkipSuppressed, branchVars
  <1>2. FloorTypeOK /\ TodoOK /\ OnceEach(ran) /\ scenario \in Scenarios
    BY IInvParts DEF CutShort, FloorTypeOK
  <1>3. After(step) \in {"recruit_uk", "recruit_nydfs", "cross_border", "diff"}
    BY <1>2, AfterTable
  <1>4. After(step) \in Steps \ {"release"} /\ step \in Loops
    BY <1>3, StepsAre DEF PhaseNames, Loops
  <1>5. QED
    BY <1>1, <1>2, <1>4, NextBranchFacts

\* A turn that is not nis2's leaves nis2's as it was.
LEMMA DueOfOthers ==
  ASSUME IInv, Drive, ~CutShort', step = "drafting", Head(todo) # "nis2",
         NEW key \in Dues, Due(key)'
  PROVE  Due(key)
  <1>1. step' \in Early
    BY StepIs DEF Early, Joining
  <1>2. key = ToNis2("ack") /\ ~Undrafted("nis2")'
    BY <1>1 DEF Due, BeforeAmend
  <1>3. ~Undrafted("nis2")
    <2>1. CASE step' = "drafting"
      BY <1>2, <2>1, DraftingShrinks DEF Undrafted
    <2>2. CASE step' # "drafting"
      BY <2>2, DraftingEnds DEF Undrafted
    <2>3. QED
      BY <2>1, <2>2
  <1>4. QED
    BY <1>2, <1>3 DEF Due

LEMMA JudgeRoom ==
  ASSUME IInv, RoomIInv, Materiality \/ Reportability \/ SkipSuppressed, Quiet, ~CutShort'
  PROVE  RoomIInv'
  <1>1. Drive /\ step \in {"materiality", "reportability", "drafting"} /\ ~CutShort
    <2>1. Drive /\ step \in {"materiality", "reportability", "drafting"}
      BY DEF Drive, Materiality, Reportability, SkipSuppressed
    <2>2. QED
      BY <2>1, StepIs
  <1>2. room' = room /\ InboxOK /\ UNCHANGED options
    BY <1>1 DEF Quiet, RoomIInv
  <1>3. InboxOK'
    BY <1>1, <1>2, QuietInbox
  <1>4. ~Drafts /\ ~Turn
    BY <1>1, DraftingPhases
       DEF Drafts, Draft, Recruit, Resolve, SubmitAmendment, HighRisk, Cure, Turn,
           Releases, SkipSuppressed, Materiality, Reportability
  <1>5. MailOK'
    <2>1. LoopOK /\ RunOK /\ scenario' = scenario
      BY <1>1, IInvParts, DriveFrame DEF Running
    <2>2. CASE ~Amends
      BY <2>1, <2>2, NoneConcurs DEF Amends
    <2>3. CASE Amends /\ step = "materiality"
      <3>1. step' = "drafting" /\ Materiality
        BY <1>1, <2>3, StepIs, ActionIs
      <3>2. todo' = DRAFTER_ROLES
        BY <3>1 DEF Materiality, Proceed, Work
      <3>3. InTodo("nis2")'
        BY <3>2, WorkLists DEF InTodo, Drafters
      <3>4. \A key : ~Due(key)'
        BY <3>1, <3>3 DEF Due, Undrafted, Early, Joining, BeforeAmend
      <3>5. QED
        BY <1>1, <1>2, <3>1, <3>4, QuietMail
    <2>4. CASE Amends /\ step = "drafting"
      <3>1. SkipSuppressed
        BY <2>4 DEF SkipSuppressed, Materiality, Reportability
      <3>2. Head(todo) # "nis2"
        BY <2>1, <2>4, <3>1 DEF SkipSuppressed, RunOK, Amends, Regulators
      <3>3. step' # "concur"
        BY <1>1, <2>4, StepIs
      <3>4. QED
        BY <1>1, <1>2, <2>4, <3>2, <3>3, QuietMail, DueOfOthers
    <2>5. CASE Amends /\ step = "reportability"
      BY <2>1, <2>5 DEF LoopOK, Wanted, Amends
    <2>6. QED
      BY <1>1, <2>2, <2>3, <2>4, <2>5
  <1>6. step # "release"
    BY <1>1
  <1>7. QED
    BY <1>1, <1>3, <1>4, <1>5, <1>6, QuietStep

LEMMA BeginRoom ==
  ASSUME IInv, RoomIInv, BeginRelease \/ BeginRerelease, Quiet, ~CutShort'
  PROVE  RoomIInv'
  <1>1. /\ Drive /\ step' = step /\ todo' = todo /\ ~CutShort
        /\ step \in {"release", "amend_release"} /\ lock = "idle" /\ lock' = "signing"
    <2>1. /\ Drive /\ step' = step /\ todo' = todo /\ lock = "idle" /\ lock' = "signing"
          /\ step \in {"release", "amend_release"}
      BY DEF Drive, BeginRelease, BeginRerelease, AskSigners
    <2>2. QED
      BY <2>1, StepIs
  <1>2. room' = room /\ UNCHANGED options
    BY DEF Quiet
  <1>3. InboxOK'
    BY <1>1, NobodyAsked
  <1>4. ~Drafts /\ (step' = "release" \/ (step # "release" /\ ~Turn))
    BY <1>1 DEF Drafts, Draft, Recruit, Resolve, SubmitAmendment, HighRisk, Cure, Turn
  <1>5. MailOK'
    <2>1. \A key : Due(key)' <=> Due(key)
      BY <1>1 DEF Due, Undrafted, InTodo
    <2>2. QED
      BY <1>1, <1>2, <2>1, QuietMail
  <1>6. QED
    BY <1>1, <1>3, <1>4, <1>5, QuietStep

LEMMA SignKeyRoom ==
  ASSUME IInv, RoomIInv, SignKey, Hears(SignMessages), ~CutShort'
  PROVE  RoomIInv'
  <1>1. /\ Drive /\ step' = step /\ todo' = todo /\ ~CutShort
        /\ step \in Releases /\ lock = "signing" /\ lock' \in {"signing", "turned"}
    <2>1. /\ Drive /\ step' = step /\ todo' = todo /\ lock = "signing"
          /\ lock' \in {"signing", "turned"} /\ step \in Releases
      BY DEF Drive, SignKey
    <2>2. QED
      BY <2>1, StepIs
  <1>2. InboxOK'
    BY <1>1, NobodyAsked DEF Releases
  <1>3. ~Drafts /\ (step' = "release" \/ (step # "release" /\ ~Turn))
    BY <1>1 DEF Drafts, Draft, Recruit, Resolve, SubmitAmendment, HighRisk, Cure, Turn,
       Releases
  <1>4. CASE room' = room
    <2>1. \A key : Due(key)' <=> Due(key)
      BY <1>1 DEF Due, Undrafted, InTodo
    <2>2. MailOK'
      BY <1>1, <1>4, <2>1, QuietMail DEF Releases
    <2>3. Quiet
      BY <1>4 DEF Quiet, Hears
    <2>4. QED
      BY <1>1, <1>2, <1>3, <2>2, <2>3, QuietStep
  <1>5. CASE room' # room
    <2>1. PICK b, n : b = Head(todo) /\ n = Len(filed[b]) + 1
      OBVIOUS
    <2>2. step # "release" /\ room' = Announce(room, "key1", b, n, Told(b))
          /\ UNCHANGED options /\ Sound(room)
      BY <1>5, <2>1 DEF Hears, SignMessages, Narrated, RoomIInv
    <2>3. b \in Branches /\ n \in Nat
      <3>1. FloorTypeOK /\ TodoOK /\ step \in Loops
        BY <1>1, IInvParts DEF Releases, Loops
      <3>2. b \in Branches
        BY <2>1, <3>1, HeadFacts DEF TodoOK
      <3>3. filed[b] \in Seq(Claims)
        BY <3>1, <3>2 DEF FloorTypeOK
      <3>4. QED
        BY <2>1, <3>2, <3>3, LenProperties
    <2>4. Told(b) \in SUBSET Agents
      BY <2>3, Names DEF Told
    <2>5. PICK key, about : key = <<"key1", b, n>> /\ about = {b}
      OBVIOUS
    <2>6. Says(room, room', key, Told(b), about)
      <3>1. "key1" \in Topics /\ b \in Subjects
        BY <2>3, Names DEF Topics
      <3>2. Says(room, Announce(room, "key1", b, n, Told(b)), <<"key1", b, n>>, Told(b), {b})
        BY <2>2, <2>3, <2>4, <3>1, AnnounceAdds
      <3>3. QED
        BY <2>2, <2>5, <3>2
    <2>7. Timely(key)'
      <3>1. Before(key)' = {"open"}
        BY <2>3, <2>5, Names DEF Before, All
      <3>2. QED
        BY <1>1, <2>5, <3>1 DEF Timely, TurnTopics, Releases
    <2>8. MailOK'
      BY <1>1, <2>2, NoneConcurs DEF Releases, BeforeAmend, Early, Joining
    <2>9. key[1] \notin TurnTopics
      BY <2>5 DEF TurnTopics
    <2>10. QED
      BY <1>1, <1>2, <1>3, <2>2, <2>6, <2>7, <2>8, <2>9, OneMessage
  <1>6. QED
    BY <1>4, <1>5

LEMMA DiffRoom ==
  ASSUME IInv, RoomIInv, Diff, Hears(DiffMessages), ~CutShort'
  PROVE  RoomIInv'
  <1>1. Drive /\ step = "diff" /\ ~CutShort /\ step' \in {"resolve", "release"}
    <2>1. Drive /\ step = "diff"
      BY DEF Drive, Diff
    <2>2. QED
      BY <2>1, StepIs
  <1>2. /\ Sound(room) /\ TopicsOK /\ UNCHANGED options /\ IInv' /\ scenario' = scenario
        /\ Startup \in SUBSET Agents /\ "all" \in Subjects
    BY <1>1, NextIInv, DriveFrame, Names DEF RoomIInv, Hears, Next, Subjects
  <1>3. InboxOK'
    BY <1>1, NobodyAsked
  <1>4. ~Drafts /\ (step' = "release" \/ (step # "release" /\ ~Turn))
    BY <1>1, DraftingPhases DEF Releases
  <1>5. CASE Contradict(claims, Drafted)
    <2>1. step' = "resolve"
      BY <1>5 DEF Diff
    <2>2. ~Amends'
      BY <1>2, <2>1 DEF IInv, CutShort, LoopOK, Amends
    <2>3. MailOK'
      BY <2>2, NoneConcurs
    <2>4. Hears(Announce(room, "block", "all", 1, FirstConflict \cap Startup))
      BY <1>5 DEF DiffMessages
    <2>5. FirstConflict \cap Startup \in SUBSET Agents
      BY <1>2
    <2>6. "block" \in Topics \ (TurnTopics \cup OrderedTopics)
      BY DEF Topics, TurnTopics, OrderedTopics
    <2>7. QED
      BY <1>1, <1>2, <1>3, <1>4, <2>3, <2>4, <2>5, <2>6, OneAnnouncement
  <1>6. CASE ~Contradict(claims, Drafted)
    <2>1. step' = "release"
      <3>1. scenario \in Scenarios
        BY <1>1, IInvParts DEF FloorTypeOK
      <3>2. QED
        BY <1>1, <1>6, <3>1, AfterTable DEF Diff, Proceed
    <2>2. room' = Announce(room, "diff-green", "all", 1, Startup)
      BY <1>6 DEF Hears, DiffMessages
    <2>3. PICK key, about : key = All("diff-green") /\ about = {"all"}
      OBVIOUS
    <2>4. Says(room, room', key, Startup, about)
      <3>1. "diff-green" \in Topics
        BY DEF Topics
      <3>2. Says(room, Announce(room, "diff-green", "all", 1, Startup),
                 <<"diff-green", "all", 1>>, Startup, {"all"})
        BY <1>2, <3>1, AnnounceAdds
      <3>3. QED
        BY <2>2, <2>3, <3>2 DEF All
    <2>5. Timely(key)'
      BY <2>1, <2>3 DEF Timely, Before, All, Early, Joining, TurnTopics
    <2>6. MailOK'
      <3>1. PICK m \in Messages : Adds(room, room', {m}) /\ m.key = key /\ m.to = Startup
        <4>1. Startup \ {"warden"} = Startup /\ Startup # {}
          BY Names
        <4>2. QED
          BY <2>4, <4>1 DEF Says
      <3>2. ~Posted(room, key)
        <4>1. ~Timely(key)
          BY <1>1, <2>3 DEF Timely, Before, All, Early, Joining
        <4>2. QED
          BY <1>2, <4>1 DEF TopicsOK, Posted
      <3>3. \A other \in Dues : Due(other)' => Due(other) \/ other = key
        BY <1>1, <2>1, <2>3 DEF Due, Undrafted, Early, Joining, BeforeAmend
      <3>4. Due(key)'
        BY <2>1, <2>3 DEF Due, Early, Joining
      <3>5. \A i \in room'.marked["nis2"] : i \in room.marked["nis2"]
        BY <3>1 DEF Adds
      <3>6. "nis2" \in m.to
        BY <3>1, Names
      <3>7. Grows(room, room', {m}) /\ step' # "concur" /\ MailOK
        BY <1>1, <2>1, <3>1 DEF Adds, RoomIInv
      <3>8. \A n \in {m} : "nis2" \in n.to => Due(n.key)'
        BY <3>1, <3>4 DEF Due
      <3>9. \A other \in Dues : Due(other)' =>
              \/ Due(other)
              \/ /\ ~Posted(room, other) /\ \E n \in {m} : n.key = other
                 /\ \A n \in {m} : n.key = other => "nis2" \in n.to
        BY <3>1, <3>2, <3>3, <3>6
      <3>10. QED
        BY <1>1, <1>2, <3>5, <3>7, <3>8, <3>9, MailStays
    <2>7. key[1] \notin TurnTopics
      BY <2>3 DEF TurnTopics, All
    <2>8. QED
      BY <1>1, <1>2, <1>3, <1>4, <2>4, <2>5, <2>6, <2>7, OneMessage
  <1>7. QED
    BY <1>5, <1>6

\* What is new to an agent is in its inbox.
LEMMA NewMail ==
  ASSUME NEW r, Sound(r), NEW s, NEW M, Adds(r, s, M), NEW a \in Agents, NEW m \in M,
         a \in m.to, ~Posted(r, m.key), \A n \in M : n.key = m.key => n = m
  PROVE  Inbox(s, a) # {}
  <1>1. PICK i \in DOMAIN s.log : i > Len(r.log) /\ s.log[i] = m
    BY NewMessage DEF Adds
  <1>2. i \notin s.marked[a]
    <2>1. s.marked[a] \subseteq 1..Len(r.log) /\ Len(r.log) \in Nat
      BY LogFacts DEF Adds
    <2>2. i \notin 1..Len(r.log)
      BY <1>1, <2>1
    <2>3. QED
      BY <2>1, <2>2
  <1>3. QED
    BY <1>1, <1>2 DEF Inbox

LEMMA AmendRoom ==
  ASSUME IInv, RoomIInv, Amend, Hears(AmendMessages), ~CutShort'
  PROVE  RoomIInv'
  <1>1. Drive /\ step = "amend" /\ ~CutShort /\ step' = "propose"
    <2>1. Drive /\ step = "amend"
      BY DEF Drive, Amend
    <2>2. QED
      BY <2>1, StepIs
  <1> DEFINE pair == {"sec", "nis2"}
             amended == Post(room, Message(<<"amend", "all", 1>>, "triage", pair, pair))
  <1>2. /\ Sound(room) /\ TopicsOK /\ MailOK /\ UNCHANGED options /\ scenario' = scenario
        /\ room' = Announce(amended, "amend-block", "all", 1, pair)
    BY <1>1, DriveFrame DEF RoomIInv, Hears, AmendMessages
  <1>3. PICK asked : asked = All("amend")
    OBVIOUS
  <1>4. PICK blocked : blocked = All("amend-block")
    OBVIOUS
  <1>5. Tells(room, amended, asked, pair, pair)
    <2>1. asked \in DedupKeys /\ "triage" \in Agents /\ pair \in SUBSET Agents
          /\ "triage" \notin pair /\ pair \in SUBSET Subjects
      BY <1>3, Names DEF All, DedupKeys, Topics, Subjects
    <2>2. amended = Post(room, Message(asked, "triage", pair, pair))
      BY <1>3 DEF All
    <2> HIDE DEF amended, pair
    <2>3. QED
      BY <1>2, <2>1, <2>2, PostTells
  <1>6. PICK m \in Messages : Adds(room, amended, {m}) /\ m.key = asked /\ m.to = pair
    BY <1>5 DEF Tells
  <1> HIDE DEF amended
  <1>7. Sound(amended)
    BY <1>6 DEF Adds, Grows
  <1>8. Says(amended, room', blocked, pair, {"all"})
    <2>1. "amend-block" \in Topics /\ "all" \in Subjects /\ pair \in SUBSET Agents /\ 1 \in Nat
      BY Names DEF Topics, Subjects
    <2>2. Says(amended, Announce(amended, "amend-block", "all", 1, pair),
               <<"amend-block", "all", 1>>, pair, {"all"})
      BY <1>7, <2>1, AnnounceAdds
    <2>3. QED
      BY <1>2, <1>4, <2>2 DEF All
  <1>9. PICK n \in Messages : Adds(amended, room', {n}) /\ n.key = blocked /\ n.to = pair
    <2>1. pair \ {"warden"} = pair /\ pair # {}
      OBVIOUS
    <2>2. QED
      BY <1>8, <2>1 DEF Says
  <1> DEFINE M == {m} \cup {n}
  <1>10. Adds(room, room', M)
    BY <1>2, <1>6, <1>9, AddsOn
  <1>11. /\ asked # blocked
         /\ asked[1] = "amend" /\ blocked[1] = "amend-block"
         /\ asked \in Dues /\ blocked \in Dues
    BY <1>3, <1>4 DEF All, Dues
  <1>12. ~Posted(room, asked) /\ ~Posted(room, blocked)
    <2>1. ~Timely(asked) /\ ~Timely(blocked)
      BY <1>1, <1>3, <1>4 DEF Timely, Before, BeforeAmend, All
    <2>2. QED
      BY <1>2, <2>1 DEF TopicsOK, Posted
  <1>13. InboxOK'
    <2>1. Inbox(room', "sec") # {}
      <3>1. "sec" \in Agents /\ m \in M /\ "sec" \in m.to /\ ~Posted(room, m.key)
            /\ \A o \in M : o.key = m.key => o = m
        BY <1>6, <1>9, <1>11, <1>12, Names
      <3>2. QED
        BY <1>2, <1>10, <3>1, NewMail
    <2>2. Inbox(room, "sec")' # {}
      BY <2>1 DEF Inbox
    <2>3. QED
      BY <1>1, <2>2 DEF InboxOK
  <1>14. MailOK'
    <2>1. \A other \in Dues : Due(other)' => Due(other) \/ other \in {asked, blocked}
      BY <1>1, <1>3, <1>4 DEF Due, Undrafted, Early, Joining, BeforeAmend
    <2>2. Due(asked)' /\ Due(blocked)'
      BY <1>1, <1>3, <1>4 DEF Due, Early, Joining, BeforeAmend
    <2>3. \A i \in room'.marked["nis2"] : i \in room.marked["nis2"]
      BY <1>10 DEF Adds
    <2>4. "nis2" \in m.to /\ "nis2" \in n.to
      BY <1>6, <1>9
    <2>5. \A o \in M : "nis2" \in o.to => Due(o.key)'
      BY <1>6, <1>9, <2>2 DEF Due
    <2>6. \A other \in Dues : Due(other)' =>
            \/ Due(other)
            \/ /\ ~Posted(room, other) /\ \E o \in M : o.key = other
               /\ \A o \in M : o.key = other => "nis2" \in o.to
      BY <1>6, <1>9, <1>12, <2>1, <2>4
    <2>7. Grows(room, room', M)
      BY <1>10 DEF Adds
    <2> HIDE DEF M
    <2>8. QED
      BY <1>1, <1>2, <2>3, <2>5, <2>6, <2>7, MailStays
  <1>15. \A o \in M : Timely(o.key)'
    <2>1. Timely(asked)' /\ Timely(blocked)'
      BY <1>1, <1>3, <1>4 DEF Timely, Before, BeforeAmend, Early, Joining, All, TurnTopics
    <2>2. QED
      BY <1>6, <1>9, <2>1 DEF Timely
  <1>16. NoTurnKeys(M)
    BY <1>6, <1>9, <1>11 DEF NoTurnKeys, TurnTopics
  <1>17. ~Drafts /\ ~Turn
    BY <1>1, DraftingPhases DEF Releases
  <1>18. Grows(room, room', M)
    BY <1>10 DEF Adds
  <1> HIDE DEF M
  <1>19. QED
    BY <1>1, <1>2, <1>13, <1>14, <1>15, <1>16, <1>17, <1>18, PlainStep
       DEF Drafts, NoTurnKeys
-----------------------------------------------------------------------------
(***************************************************************************)
(* Draining.                                                               *)
(***************************************************************************)
LEMMA OldestIs ==
  ASSUME NEW S \in SUBSET Nat, S # {}
  PROVE  Oldest(S) \in S /\ \A j \in S : Oldest(S) <= j
  <1> DEFINE R == { pair \in Nat \X Nat : pair[1] < pair[2] }
  <1>1. PICK i \in S : \A j \in S : ~(<<j, i>> \in R)
    <2>1. IsWellFoundedOn(R, Nat) /\ S \subseteq Nat
      BY NatLessThanWellFounded, Zenon DEF OpToRel
    <2> HIDE DEF R
    <2>2. QED
      BY <2>1, WFMin
  <1>2. \A j \in S : i <= j
    <2>1. ASSUME NEW j \in S PROVE i <= j
      <3>1. i \in Nat /\ j \in Nat
        OBVIOUS
      <3>2. ~(j < i)
        BY <1>1, <3>1
      <3>3. QED
        BY <3>1, <3>2
    <2>2. QED
      BY <2>1
  <1>3. QED
    BY <1>1, <1>2 DEF Oldest

LEMMA InboxFacts ==
  ASSUME NEW r, Sound(r), NEW a \in Agents
  PROVE  /\ Inbox(r, a) \in SUBSET (1..Len(r.log)) /\ Inbox(r, a) \in SUBSET Nat
         /\ \A i \in Inbox(r, a) : a \in r.log[i].to /\ i \notin r.marked[a]
         /\ IsFiniteSet(Inbox(r, a))
         /\ Inbox(r, a) # {} => /\ Oldest(Inbox(r, a)) \in Inbox(r, a)
                                /\ \A i \in Inbox(r, a) : Oldest(Inbox(r, a)) <= i
  <1>1. Len(r.log) \in Nat /\ DOMAIN r.log = 1..Len(r.log)
    BY LogFacts
  <1>2. /\ Inbox(r, a) \in SUBSET (1..Len(r.log)) /\ Inbox(r, a) \in SUBSET Nat
        /\ \A i \in Inbox(r, a) : a \in r.log[i].to /\ i \notin r.marked[a]
    BY <1>1 DEF Inbox
  <1>3. IsFiniteSet(1..Len(r.log))
    BY <1>1, FS_Interval
  <1>4. IsFiniteSet(Inbox(r, a))
    BY <1>2, <1>3, FS_Subset
  <1>5. QED
    BY <1>2, <1>4, OldestIs

\* Up to a lag of five polls the oldest mention is served.
LEMMA AnswerFacts ==
  ASSUME NEW r, Sound(r), NEW a \in Agents, Inbox(r, a) # {}, lag \in Nat
  PROVE  LET i == Oldest(Inbox(r, a)) IN
         /\ i \in Inbox(r, a) /\ i \in 1..Len(r.log)
         /\ \/ Answer(r, a) = Mark(r, a, {i})
            \/ /\ Answer(r, a) = Starve(r) /\ i = Len(r.log)
               /\ lag >= MAX_LOOPS
  <1>1. Oldest(Inbox(r, a)) \in Inbox(r, a) /\ Oldest(Inbox(r, a)) \in 1..Len(r.log)
    BY InboxFacts
  <1>2. \/ Answer(r, a) = Mark(r, a, {Oldest(Inbox(r, a))})
        \/ /\ Answer(r, a) = Starve(r)
           /\ SeenAfter(r, Oldest(Inbox(r, a))) >= MAX_LOOPS
    BY DEF Answer
  <1>3. \A i : SeenAfter(r, i) >= MAX_LOOPS => i = Len(r.log) /\ lag >= MAX_LOOPS
    BY DEF SeenAfter, MAX_LOOPS
  <1>4. QED
    BY <1>1, <1>2, <1>3

LEMMA StarveFacts ==
  ASSUME NEW r, Sound(r)
  PROVE  /\ Starve(r).fault = "starved" /\ Starve(r).log = r.log
         /\ Starve(r).marked = r.marked
         /\ Sound(Starve(r))
  <1>1. r \in Rooms
    BY DEF Sound
  <1>2. /\ Starve(r).fault = "starved" /\ Starve(r).log = r.log
        /\ Starve(r).marked = r.marked /\ Starve(r).peers = r.peers /\ Starve(r) \in Rooms
    BY <1>1 DEF Starve, Rooms
  <1>3. QED
    BY <1>2 DEF Sound

LEMMA OpenRoom ==
  ASSUME IInv, RoomIInv, Open, Hears(OpenMessages), ~CutShort'
  PROVE  RoomIInv'
  <1>1. /\ Drive /\ step = "open" /\ ~CutShort
        /\ step' \in {"materiality", "reportability", "drafting"}
    <2>1. Drive /\ step = "open"
      BY DEF Drive, Open
    <2>2. QED
      BY <2>1, StepIs
  <1> DEFINE held == IF scenario.mode = "legal_hold"
                       THEN AnnounceAbout(room, <<"hold", "attached", 1>>, Startup, {})
                       ELSE room
  <1>2. /\ Sound(room) /\ TopicsOK /\ MailOK /\ UNCHANGED options /\ scenario' = scenario
        /\ room' = Post(held, Message(<<"factrecord", "all", 1>>, "triage", Startup, {}))
    BY <1>1, DriveFrame DEF RoomIInv, Hears, OpenMessages
  <1>3. PICK facts : facts = All("factrecord")
    OBVIOUS
  <1>4. PICK hold0 : hold0 = <<"hold", "attached", 1>>
    OBVIOUS
  <1>5. /\ facts \in DedupKeys /\ hold0 \in DedupKeys /\ "triage" \in Agents
        /\ Startup \in SUBSET Agents /\ "triage" \notin Startup /\ {} \in SUBSET Subjects
        /\ Startup \ {"warden"} = Startup /\ Startup # {} /\ "warden" \notin Startup
    BY <1>3, <1>4, Names DEF All, DedupKeys, Topics, Subjects
  <1>6. \E H : /\ Adds(room, held, H)
               /\ \A m \in H : m.key = hold0 /\ m.to = Startup
               /\ H # {} => scenario.mode = "legal_hold"
    <2>1. CASE scenario.mode = "legal_hold"
      <3>1. Says(room, AnnounceAbout(room, hold0, Startup, {}), hold0, Startup, {})
        BY <1>2, <1>5, SayAdds
      <3>2. PICK m \in Messages : Adds(room, held, {m}) /\ m.key = hold0 /\ m.to = Startup
        BY <1>4, <1>5, <2>1, <3>1 DEF Says
      <3>3. QED
        BY <2>1, <3>2
    <2>2. CASE scenario.mode # "legal_hold"
      BY <1>2, <2>2, AddsNothing
    <2>3. QED
      BY <2>1, <2>2
  <1>7. PICK H : /\ Adds(room, held, H)
                 /\ \A m \in H : m.key = hold0 /\ m.to = Startup
                 /\ H # {} => scenario.mode = "legal_hold"
    BY <1>6
  <1> HIDE DEF held
  <1>8. Sound(held)
    BY <1>7 DEF Adds, Grows
  <1>9. PICK f \in Messages : Adds(held, room', {f}) /\ f.key = facts /\ f.to = Startup
    <2>1. Tells(held, Post(held, Message(facts, "triage", Startup, {})), facts, Startup, {})
      BY <1>5, <1>8, PostTells
    <2>2. QED
      BY <1>2, <1>3, <2>1 DEF Tells, All
  <1> DEFINE M == H \cup {f}
  <1>10. Adds(room, room', M) /\ Grows(room, room', M)
    BY <1>2, <1>7, <1>9, AddsOn DEF Adds
  <1>11. \A m \in M : m.key[1] \notin TurnTopics \cup OrderedTopics /\ m.to = Startup
    BY <1>3, <1>4, <1>7, <1>9 DEF TurnTopics, OrderedTopics, All
  <1>12. DOMAIN room.log = {}
    <2>1. ASSUME NEW i \in DOMAIN room.log PROVE FALSE
      <3>1. Timely(room.log[i].key)
        BY <1>2 DEF TopicsOK
      <3>2. step \notin Before(room.log[i].key)
        BY <3>1 DEF Timely
      <3>3. QED
        BY <1>1, <3>2 DEF Before, Early, BeforeAmend
    <2>2. QED
      BY <2>1
  <1>13. \A i \in DOMAIN room'.log : room'.log[i] \in M
    BY <1>2, <1>10, <1>12, GrownLog
  <1>14. f \in M /\ \A m \in M : m.key = f.key => m = f
    <2>1. facts # hold0
      BY <1>3, <1>4 DEF All
    <2>2. QED
      BY <1>7, <1>9, <2>1
  <1> HIDE DEF M
  <1>15. InboxOK'
    <2>1. \A b \in Startup : Inbox(room', b) # {}
      <3>1. ~Posted(room, f.key)
        BY <1>12 DEF Posted
      <3>2. \A b \in Startup : b \in Agents /\ b \in f.to
        BY <1>5, <1>9
      <3>3. QED
        BY <1>2, <1>10, <1>14, <3>1, <3>2, NewMail
    <2>2. Inbox(room', "warden") = {}
      BY <1>5, <1>11, <1>13 DEF Inbox
    <2>3. \A b \in Startup : Undrafted(b)' => Inbox(room, b)' # {}
      BY <2>1 DEF Inbox
    <2>4. Inbox(room, "warden")' = {}
      BY <2>2 DEF Inbox
    <2>5. QED
      BY <1>1, <2>3, <2>4 DEF InboxOK
  <1>16. MailOK'
    <2>1. CASE ~Amends
      BY <1>2, <2>1, NoneConcurs DEF Amends
    <2>2. CASE Amends
      <3>1. M = {f}
        BY <1>7, <2>2 DEF Amends, M
      <3>2. Undrafted("nis2")'
        <4>1. CASE step' = "drafting"
          <5>1. todo' = DRAFTER_ROLES
            BY <1>1, <4>1, ActionIs DEF Open, Proceed, Work
          <5>2. InTodo("nis2")'
            BY <5>1, WorkLists DEF InTodo, Drafters
          <5>3. QED
            BY <4>1, <5>2 DEF Undrafted
        <4>2. CASE step' # "drafting"
          BY <1>1, <4>2 DEF Undrafted
        <4>3. QED
          BY <4>1, <4>2
      <3>3. \A key : ~Due(key)'
        BY <1>1, <3>2 DEF Due, Early, Joining, BeforeAmend
      <3>4. \A i \in room'.marked["nis2"] : i \in room.marked["nis2"]
        BY <1>10 DEF Adds
      <3>5. \A m \in M : m.key = All("factrecord")
        BY <1>3, <1>9, <3>1
      <3>6. step' # "concur"
        BY <1>1
      <3>7. QED
        BY <1>1, <1>2, <1>10, <3>3, <3>4, <3>5, <3>6, MailStays
    <2>3. QED
      BY <2>1, <2>2
  <1>17. ~Drafts /\ ~Turn
    BY <1>1, DraftingPhases DEF Releases
  <1>18. Chats(room, room')
    BY <1>10, <1>11 DEF Chats
  <1>19. QED
    BY <1>1, <1>2, <1>15, <1>16, <1>17, <1>18, ChatStep

LEMMA Ranks ==
  Rank("nis2") = 1 /\ Rank("sec") = 2 /\ Rank("dora") = 3 /\ Rank("uk") = 4
  /\ Rank("nydfs") = 5
  <1> DEFINE order == <<"nis2", "sec", "dora", "uk", "nydfs">>
  <1>1. /\ order[1] = "nis2" /\ order[2] = "sec" /\ order[3] = "dora" /\ order[4] = "uk"
        /\ order[5] = "nydfs"
    OBVIOUS
  <1>2. \A i \in 1..5 : i = 1 \/ i = 2 \/ i = 3 \/ i = 4 \/ i = 5
    OBVIOUS
  <1>3. Rank("nis2") = 1
    BY <1>1, <1>2 DEF Rank
  <1>4. Rank("sec") = 2
    BY <1>1, <1>2 DEF Rank
  <1>5. Rank("dora") = 3
    BY <1>1, <1>2 DEF Rank
  <1>6. Rank("uk") = 4
    BY <1>1, <1>2 DEF Rank
  <1>7. Rank("nydfs") = 5
    BY <1>1, <1>2 DEF Rank
  <1>8. QED
    BY <1>3, <1>4, <1>5, <1>6, <1>7

\* The SEC branch is one of the two that clash, and it is told of the other.
LEMMA PeerFacts ==
  ASSUME FloorTypeOK, Running, step = "resolve", "sec" \in Drafted
  PROVE  \E b \in Regulators \ {"sec"} :
           FirstConflict = {"sec", b} /\ (CHOOSE c \in FirstConflict : c # "sec") = b
  <1> DEFINE clash(p) == Contradict(claims, p)
             low(p)  == Rank(CHOOSE b \in p : \A c \in p : Rank(b) <= Rank(c))
             high(p) == Rank(CHOOSE b \in p : \A c \in p : Rank(b) >= Rank(c))
             pairs == { p \in { {a, b} : a, b \in Drafted } : clash(p) }
             First(p) == \A q \in pairs :
                           low(p) < low(q) \/ (low(p) = low(q) /\ high(p) <= high(q))
             best == {"sec", "nis2"}
  <1>1. /\ scenario.mode = "inject_contradiction"
        /\ claims["sec"] # CanonicalFacts
        /\ \A b \in Drafted : b # "sec" => claims[b] = CanonicalFacts
        /\ "nis2" \in Drafted /\ Drafted \subseteq Regulators
    <2>1. scenario.mode = "inject_contradiction"
      BY DEF Running, LoopOK
    <2>2. QED
      BY <2>1, DraftedAre, FactsDiffer
  <1>2. ASSUME NEW p \in pairs
        PROVE  \E b \in Drafted \ {"sec"} : p = {"sec", b}
    <2>1. PICK a \in Drafted, b \in Drafted : p = {a, b} /\ Contradict(claims, p)
      BY <1>2
    <2>2. claims[a] # claims[b]
      BY <2>1 DEF Contradict
    <2>3. QED
      BY <1>1, <2>1, <2>2
  <1>3. best \in pairs
    <2>1. best \in { {a, b} : a, b \in Drafted }
      BY <1>1
    <2>2. clash(best)
      BY <1>1 DEF Contradict
    <2>3. QED
      BY <2>1, <2>2
  <1>4. ASSUME NEW b \in Regulators \ {"sec"}
        PROVE  /\ low({"sec", b}) = IF b = "nis2" THEN 1 ELSE 2
               /\ high({"sec", b}) = IF b = "nis2" THEN 2 ELSE Rank(b)
    <2>1. b \in {"nis2", "dora", "uk", "nydfs"}
      BY DEF Regulators
    <2>2. CASE b = "nis2"
      <3>1. (CHOOSE x \in {"sec", b} : \A c \in {"sec", b} : Rank(x) <= Rank(c)) = "nis2"
        BY <2>2, Ranks
      <3>2. (CHOOSE x \in {"sec", b} : \A c \in {"sec", b} : Rank(x) >= Rank(c)) = "sec"
        BY <2>2, Ranks
      <3>3. QED
        BY <2>2, <3>1, <3>2, Ranks
    <2>3. CASE b # "nis2"
      <3>0. Rank(b) \in {3, 4, 5} /\ Rank("sec") = 2
        BY <2>1, <2>3, Ranks
      <3>1. (CHOOSE x \in {"sec", b} : \A c \in {"sec", b} : Rank(x) <= Rank(c)) = "sec"
        BY <3>0
      <3>2. (CHOOSE x \in {"sec", b} : \A c \in {"sec", b} : Rank(x) >= Rank(c)) = b
        BY <3>0
      <3>3. QED
        BY <2>3, <3>0, <3>1, <3>2
    <2>4. QED
      BY <2>2, <2>3
  <1> HIDE DEF low, high
  <1>5. First(best)
    <2>1. low(best) = 1 /\ high(best) = 2
      <3>1. "nis2" \in Regulators \ {"sec"}
        BY DEF Regulators
      <3>2. QED
        BY <1>4, <3>1
    <2>2. ASSUME NEW q \in pairs
          PROVE  low(best) < low(q) \/ (low(best) = low(q) /\ high(best) <= high(q))
      <3>1. PICK b \in Drafted \ {"sec"} : q = {"sec", b}
        BY <1>2
      <3>2. b \in Regulators \ {"sec"}
        BY <1>1, <3>1
      <3>3. /\ low(q) = IF b = "nis2" THEN 1 ELSE 2
            /\ b = "nis2" => high(q) = 2
        BY <1>4, <3>1, <3>2
      <3>4. QED
        BY <2>1, <3>3
    <2>3. QED
      BY <2>2
  <1>6. FirstConflict = CHOOSE p \in pairs : First(p)
    BY DEF FirstConflict, low, high
  <1> HIDE DEF pairs, First
  <1>7. FirstConflict \in pairs
    BY <1>3, <1>5, <1>6
  <1>8. PICK b \in Drafted \ {"sec"} : FirstConflict = {"sec", b}
    BY <1>2, <1>7
  <1>9. (CHOOSE c \in FirstConflict : c # "sec") = b
    BY <1>8
  <1>10. QED
    BY <1>1, <1>8, <1>9
-----------------------------------------------------------------------------
\* A step that drafts for one branch, and files nothing.
LEMMA DraftStep ==
  ASSUME IInv, RoomIInv, Drive, ~CutShort', UNCHANGED options,
         NEW M, Grows(room, room', M), \A m \in M : Timely(m.key)', NoTurnKeys(M),
         NEW b \in Branches,
         \A c \in Branches \ {b} : claims'[c] = claims[c] /\ Cured(c)' = Cured(c),
         (b = AffectedParty => apClient) =>
           \/ claims[b] # NoClaims /\ DraftNumber(b)' = DraftNumber(b)
           \/ \E m \in M : m.key = <<"draft", b, DraftNumber(b)'>>,
         step # "release", ~Turn, InboxOK', MailOK'
  PROVE  RoomIInv'
  <1>1. scenario' = scenario /\ filed' = filed
    BY DriveFrame, FiledGrows
  <1>2. ASSUME NEW c \in Branches, claims'[c] # NoClaims, c = AffectedParty => apClient
        PROVE  \/ claims[c] # NoClaims /\ DraftNumber(c)' = DraftNumber(c)
               \/ \E m \in M : m.key = <<"draft", c, DraftNumber(c)'>>
    <2>1. CASE c = b
      BY <1>2, <2>1
    <2>2. CASE c # b
      <3>1. claims'[c] = claims[c] /\ Cured(c)' = Cured(c)
        BY <2>2
      <3>2. QED
        BY <1>2, <3>1 DEF DraftNumber
    <2>3. QED
      BY <2>1, <2>2
  <1>3. step' # "release" =>
           \A c \in Branches : \A round \in DOMAIN filed'[c] :
             \/ step # "release" /\ round \in DOMAIN filed[c]
             \/ FilingIsTold(c, round)'
    BY <1>1
  <1>4. QED
    BY <1>1, <1>2, <1>3, StepKeepsRoom DEF NoTurnKeys

LEMMA SubmitAmendmentRoom ==
  ASSUME IInv, RoomIInv, SubmitAmendment, Hears(AmendedDraftMessages), ~CutShort'
  PROVE  RoomIInv'
  <1>1. /\ Drive /\ step = "amend_submit" /\ ~CutShort
        /\ step' \in {"amend_submit", "amend_diff"}
    <2>1. Drive /\ step = "amend_submit"
      BY DEF Drive, SubmitAmendment
    <2>2. QED
      BY <2>1, StepIs
  <1>2. FloorTypeOK /\ LoopOK /\ DutyOK /\ TodoOK
    BY <1>1, IInvParts DEF Running
  <1>3. PICK b : b = Head(todo)
    OBVIOUS
  <1>4. b \in {"sec", "nis2"} /\ b \in Branches /\ b # AffectedParty
    <2>1. todo # <<>>
      BY <1>1, <1>2 DEF TodoOK, Loops
    <2>2. b \in Visits(step)
      BY <1>2, <1>3, <2>1, HeadFacts
    <2>3. b \in {"sec", "nis2"}
      BY <1>1, <2>2, VisitsAre
    <2>4. QED
      BY <2>3, Names
  <1>5. CanSubmit
    BY <1>1, <1>2 DEF DutyOK, CanSubmit
  <1>6. claims' = [claims EXCEPT ![b] = AmendedFacts]
    BY <1>3, <1>5 DEF SubmitAmendment
  <1>7. /\ claims'[b] = AmendedFacts
        /\ \A c \in Branches \ {b} : claims'[c] = claims[c]
    BY <1>2, <1>4, <1>6 DEF FloorTypeOK
  <1>8. \A c \in Branches \ {b} : Cured(c)' = Cured(c)
    BY <1>1, CuredStays DEF Cure
  <1>9. DraftNumber(b)' = 2
    BY <1>4, <1>7 DEF DraftNumber, AmendedFacts
  <1>10. /\ Sound(room) /\ UNCHANGED options
         /\ room' = Tell(room, "draft", b, 2, b, {"warden"})
    BY <1>3, <1>5 DEF RoomIInv, Hears, AmendedDraftMessages, DraftFrom, AmendedRound
  <1>11. PICK key, about : key = <<"draft", b, 2>> /\ about = {b}
    OBVIOUS
  <1>12. Tells(room, room', key, {"warden"}, about)
    <2>1. /\ "draft" \in Topics /\ b \in Agents /\ {"warden"} \in SUBSET Agents
          /\ b \notin {"warden"} /\ 2 \in Nat
      BY <1>4, Names DEF Topics
    <2>2. Tells(room, Tell(room, "draft", b, 2, b, {"warden"}), <<"draft", b, 2>>,
                {"warden"}, {b})
      BY <1>4, <1>10, <2>1, TellAdds
    <2>3. QED
      BY <1>10, <1>11, <2>2
  <1>13. PICK m \in Messages : Grows(room, room', {m}) /\ m.key = key
    BY <1>12 DEF Tells, Adds
  <1>14. Timely(m.key)'
    BY <1>1, <1>11, <1>13 DEF Timely, Before, All, Undrafted
  <1>15. NoTurnKeys({m})
    BY <1>11, <1>13 DEF NoTurnKeys
  <1>16. InboxOK' /\ MailOK'
    BY <1>1, NobodyAsked, NoneConcurs DEF BeforeAmend, Early, Joining
  <1>17. ~Turn /\ step # "release"
    BY <1>1 DEF Turn, Releases
  <1>18. \E o \in {m} : o.key = <<"draft", b, DraftNumber(b)'>>
    BY <1>9, <1>11, <1>13
  <1>19. QED
    BY <1>1, <1>4, <1>7, <1>8, <1>10, <1>13, <1>14, <1>15, <1>16, <1>17, <1>18, DraftStep

LEMMA RecruitRoom ==
  ASSUME IInv, RoomIInv, Recruit, Hears(RecruitMessages(Head(todo))), ~CutShort'
  PROVE  RoomIInv'
  <1>1. /\ Drive /\ step \in {"recruit_uk", "recruit_nydfs"} /\ ~CutShort
        /\ step' \in {"recruit_nydfs", "cross_border", "diff"}
    <2>1. Drive /\ step \in {"recruit_uk", "recruit_nydfs"}
      BY DEF Drive, Recruit
    <2>2. QED
      BY <2>1, StepIs
  <1>2. FloorTypeOK /\ TodoOK
    BY <1>1, IInvParts
  <1>3. PICK b : b = Head(todo)
    OBVIOUS
  <1>4. /\ b \in {"uk", "nydfs"} /\ b \in Branches /\ b # AffectedParty /\ b \notin Startup
        /\ b \in Agents /\ b # "nis2" /\ b \in Subjects /\ b # "warden"
    <2>1. todo # <<>>
      BY <1>1, <1>2 DEF TodoOK, Loops
    <2>2. b \in Visits(step)
      BY <1>2, <1>3, <2>1, HeadFacts
    <2>3. b \in {"uk", "nydfs"}
      BY <1>1, <2>2, VisitsAre
    <2>4. b \in Branches
      BY <2>3 DEF Branches, Regulators
    <2>5. QED
      BY <2>3, <2>4, Names DEF AffectedParty
  <1>5. claims' = [claims EXCEPT ![b] = CanonicalFacts]
    BY <1>3 DEF Recruit, Joins
  <1>6. /\ claims'[b] = CanonicalFacts
        /\ \A c \in Branches \ {b} : claims'[c] = claims[c]
    BY <1>2, <1>4, <1>5 DEF FloorTypeOK
  <1>7. \A c : Cured(c)' = Cured(c)
    BY <1>1, CuredStays DEF Cure
  <1>8. DraftNumber(b)' = 1
    <2>1. ~Cured(b)'
      BY <1>4 DEF Cured
    <2>2. QED
      BY <1>6, <2>1 DEF DraftNumber, CanonicalFacts
  <1> DEFINE joined == Register(room, b)
             told == Announce(joined, "recruit", b, 1, {b})
  <1>9. /\ Sound(room) /\ UNCHANGED options /\ MailOK /\ scenario' = scenario
        /\ room' = Tell(told, "draft", b, 1, b, {"warden"})
    BY <1>1, <1>3, DriveFrame DEF RoomIInv, Hears, RecruitMessages, DraftFrom
  <1>10. /\ {"recruit", "draft"} \subseteq Topics /\ {b} \in SUBSET Agents
         /\ {"warden"} \in SUBSET Agents /\ b \notin {"warden"} /\ 1 \in Nat
         /\ {b} \ {"warden"} = {b} /\ {b} # {}
    BY <1>4, Names DEF Topics
  <1>11. Sound(joined) /\ Adds(room, joined, {})
    BY <1>4, <1>9, RegisterFacts
  <1> HIDE DEF joined
  <1>12. Says(joined, told, <<"recruit", b, 1>>, {b}, {b})
    BY <1>4, <1>10, <1>11, AnnounceAdds
  <1> HIDE DEF told
  <1>13. PICK m \in Messages :
           Adds(joined, told, {m}) /\ m.key = <<"recruit", b, 1>> /\ m.to = {b}
    BY <1>10, <1>12 DEF Says
  <1>14. Sound(told)
    BY <1>13 DEF Adds, Grows
  <1>15. Tells(told, Tell(told, "draft", b, 1, b, {"warden"}), <<"draft", b, 1>>,
               {"warden"}, {b})
    BY <1>4, <1>10, <1>14, TellAdds
  <1>16. PICK n \in Messages :
           Adds(told, room', {n}) /\ n.key = <<"draft", b, 1>> /\ n.to = {"warden"}
    BY <1>9, <1>15 DEF Tells
  <1> DEFINE M == ({} \cup {m}) \cup {n}
  <1>17. Adds(room, room', M)
    <2>1. Adds(room, told, {} \cup {m})
      BY <1>9, <1>11, <1>13, AddsOn
    <2>2. QED
      BY <1>9, <1>16, <2>1, AddsOn
  <1>18. \A o \in M : Timely(o.key)'
    <2>1. Timely(m.key)'
      BY <1>1, <1>13 DEF Timely, Before, All, TurnTopics
    <2>2. Timely(n.key)'
      BY <1>1, <1>4, <1>16 DEF Timely, Before, All
    <2>3. QED
      BY <2>1, <2>2
  <1>19. NoTurnKeys(M)
    BY <1>4, <1>13, <1>16 DEF NoTurnKeys
  <1>20. \E o \in M : o.key = <<"draft", b, DraftNumber(b)'>>
    BY <1>8, <1>16
  <1>21. Grows(room, room', M)
    BY <1>17 DEF Adds
  <1>22. MailOK'
    <2>1. \A i \in room'.marked["nis2"] : i \in room.marked["nis2"]
      BY <1>17 DEF Adds
    <2>2. \A o \in M : "nis2" \notin o.to
      BY <1>4, <1>13, <1>16
    <2>3. \A key \in Dues : Due(key)' => Due(key)
      BY <1>1 DEF Due, Undrafted, Early, Joining, BeforeAmend
    <2>4. step' # "concur"
      BY <1>1
    <2> HIDE DEF M
    <2>5. QED
      BY <1>1, <1>9, <1>21, <2>1, <2>2, <2>3, <2>4, MailStays
  <1>23. InboxOK' /\ ~Turn /\ step # "release"
    BY <1>1, NobodyAsked DEF Turn, Releases
  <1> HIDE DEF M
  <1>24. QED
    BY <1>1, <1>4, <1>6, <1>7, <1>9, <1>18, <1>19, <1>20, <1>21, <1>22, <1>23, DraftStep

LEMMA CureRoom ==
  ASSUME IInv, RoomIInv, Cure, Hears(CureMessages), ~CutShort'
  PROVE  RoomIInv'
  <1>1. /\ Drive /\ step = "cure" /\ step' = "cure" /\ ~CutShort /\ lock = "idle"
        /\ lock' = "signing"
    <2>1. Drive /\ step = "cure" /\ step' = "cure" /\ lock = "idle" /\ lock' = "signing"
      BY DEF Drive, Cure, AskSigners
    <2>2. QED
      BY <2>1, StepIs
  <1>2. FloorTypeOK /\ scenario' = scenario /\ scenario.mode = "deficiency"
    BY <1>1, IInvParts, DriveFrame DEF Running, LoopOK, Wanted
  <1>3. /\ Sound(room) /\ UNCHANGED options /\ InboxOK /\ room.fault = "none"
        /\ OptionsOK
    BY <1>1 DEF RoomIInv, Hears
  <1>4. "sec" \in Branches /\ "sec" \in Agents /\ "sec" # AffectedParty
    BY Names
  <1>5. PICK i \in 1..Len(room.log) :
          \/ Answer(room, "sec") = Mark(room, "sec", {i})
          \/ Answer(room, "sec") = Starve(room)
    <2>1. Inbox(room, "sec") # {}
      BY <1>1, <1>3 DEF InboxOK
    <2>2. QED
      BY <1>3, <1>4, <2>1, AnswerFacts DEF OptionsOK
  <1> DEFINE asked == Mark(room, "sec", {i})
  <1>6. Grows(room, asked, {}) /\ Sound(asked) /\ asked.fault = "none"
    BY <1>3, <1>4, MarkFacts
  <1>7. room' = Tell(asked, "draft", "sec", 2, "sec", {"warden"})
    <2>1. Answer(room, "sec") # Starve(room)
      BY <1>3, StarveFacts DEF Hears, CureMessages
    <2>2. Answer(room, "sec") = asked
      BY <1>5, <2>1
    <2>3. QED
      BY <1>6, <2>2 DEF Hears, CureMessages, DraftFrom
  <1> HIDE DEF asked
  <1>8. PICK m \in Messages : Adds(asked, room', {m}) /\ m.key = <<"draft", "sec", 2>>
    <2>1. "draft" \in Topics /\ {"warden"} \in SUBSET Agents /\ "sec" \notin {"warden"}
          /\ 2 \in Nat
      BY Names DEF Topics
    <2>2. Tells(asked, Tell(asked, "draft", "sec", 2, "sec", {"warden"}),
                <<"draft", "sec", 2>>, {"warden"}, {"sec"})
      BY <1>4, <1>6, <2>1, TellAdds
    <2>3. QED
      BY <1>7, <2>2 DEF Tells
  <1> DEFINE M == {} \cup {m}
  <1>9. Grows(room, room', M)
    BY <1>3, <1>6, <1>8, GrowsOn DEF Adds
  <1>10. \A o \in M : Timely(o.key)'
    BY <1>1, <1>8 DEF Timely, Before, All, Undrafted
  <1>11. NoTurnKeys(M)
    BY <1>8 DEF NoTurnKeys
  <1>12. \A c \in Branches \ {"sec"} : claims'[c] = claims[c] /\ Cured(c)' = Cured(c)
    <2>1. claims' = [claims EXCEPT !["sec"] = CanonicalFacts]
      BY DEF Cure
    <2>2. QED
      BY <1>2, <2>1 DEF FloorTypeOK, Cured
  <1>13. \E o \in M : o.key = <<"draft", "sec", DraftNumber("sec")'>>
    <2>1. Cured("sec")'
      BY <1>1, <1>2 DEF Cured
    <2>2. DraftNumber("sec")' = 2
      BY <1>4, <2>1 DEF DraftNumber
    <2>3. QED
      BY <1>8, <2>2
  <1>14. InboxOK' /\ MailOK' /\ ~Turn /\ step # "release"
    BY <1>1, NobodyAsked, NoneConcurs DEF Turn, Releases, BeforeAmend, Early, Joining
  <1> HIDE DEF M
  <1>15. QED
    BY <1>1, <1>3, <1>4, <1>9, <1>10, <1>11, <1>12, <1>13, <1>14, DraftStep

LEMMA ResolveRoom ==
  ASSUME IInv, RoomIInv, Resolve, Hears(ResolveMessages), ~CutShort'
  PROVE  RoomIInv'
  <1>1. Drive /\ step = "resolve" /\ ~CutShort /\ step' = "release" /\ step' # "raised"
    <2>1. Drive /\ step = "resolve"
      BY DEF Drive, Resolve
    <2>2. QED
      BY <2>1, StepIs
  <1>2. /\ FloorTypeOK /\ Running /\ scenario' = scenario
        /\ scenario.mode = "inject_contradiction"
    BY <1>1, IInvParts, DriveFrame DEF Running, LoopOK
  <1>3. Sound(room) /\ UNCHANGED options /\ "sec" \in Drafted
    BY <1>1 DEF RoomIInv, Hears, ClaimsOK
  <1>4. ContradictedBranch = "sec"
    BY <1>1, <1>2, ContradictedIsSec
  <1>5. PICK peer \in Regulators \ {"sec"} :
          (CHOOSE b \in FirstConflict : b # "sec") = peer
    BY <1>1, <1>2, <1>3, PeerFacts
  <1>6. /\ "sec" \in Branches /\ peer \in Branches /\ "sec" \in Startup
        /\ "sec" \in Agents /\ peer \in Agents /\ "warden" \in Agents
        /\ "sec" # "warden" /\ peer # "sec" /\ "all" \in Subjects
        /\ {"sec"} \cap Startup \in SUBSET Agents
        /\ {"reconcile", "redraft", "diff-resolved"} \subseteq ChatTopics
    BY Names DEF ChatTopics, Topics, TurnTopics, OrderedTopics, Subjects
  <1> DEFINE first == Tell(room, "reconcile", "sec", 1, "sec", {peer})
             asked == Tell(first, "reconcile", peer, 1, peer, {"sec"})
             spoken == IF {"sec", peer} \subseteq Startup THEN asked ELSE room
             refiled == Tell(spoken, "redraft", "sec", 2, "sec", {"warden"})
  <1>7. room' = Announce(refiled, "diff-resolved", "all", 1, {"sec"} \cap Startup)
    <2>1. PeerOf("sec") = peer
      BY <1>5 DEF PeerOf
    <2>2. step' # "raised" => ResolveMessages =
            Announce(refiled, "diff-resolved", "all", 1, {"sec"} \cap Startup)
      BY <1>4, <1>6, <2>1 DEF ResolveMessages
    <2>3. room' = ResolveMessages
      BY DEF Hears
    <2>4. QED
      BY <1>1, <2>2, <2>3
  <1>8. Chats(room, first) /\ Sound(first)
    <2>1. {peer} \in SUBSET (Agents \ {"sec"})
      BY <1>6
    <2>2. QED
      BY <1>3, <1>6, <2>1, ChatsFacts
  <1>9. Chats(first, asked)
    <2>1. {"sec"} \in SUBSET (Agents \ {peer})
      BY <1>6
    <2> HIDE DEF first
    <2>2. QED
      BY <1>6, <1>8, <2>1, ChatsFacts
  <1> HIDE DEF first, asked
  <1>10. Chats(room, spoken) /\ Sound(spoken)
    BY <1>3, <1>8, <1>9, ChatsOn, ChatsFacts
  <1> HIDE DEF spoken
  <1>11. Chats(spoken, refiled) /\ Sound(refiled)
    <2>1. {"warden"} \in SUBSET (Agents \ {"sec"})
      BY <1>6
    <2>2. QED
      BY <1>6, <1>10, <2>1, ChatsFacts
  <1> HIDE DEF refiled
  <1>12. Chats(refiled, room')
    BY <1>6, <1>7, <1>11, ChatsFacts
  <1>13. Chats(room, room')
    BY <1>3, <1>10, <1>11, <1>12, ChatsOn
  <1>14. PICK M : /\ Adds(room, room', M)
                  /\ \A m \in M : m.key[1] \notin TurnTopics \cup OrderedTopics
    BY <1>13 DEF Chats
  <1>15. (\A m \in M : Timely(m.key)') /\ NoTurnKeys(M) /\ Grows(room, room', M)
    BY <1>1, <1>14, ChatIsPlain DEF Adds
  <1>16. claims' = [claims EXCEPT !["sec"] = CanonicalFacts]
    BY <1>4 DEF Resolve
  <1>17. \A c : Cured(c)' = Cured(c) /\ ~Cured(c)
    BY <1>2 DEF Cured
  <1>18. /\ claims'["sec"] = CanonicalFacts
         /\ \A c \in Branches \ {"sec"} : claims'[c] = claims[c]
    BY <1>2, <1>6, <1>16 DEF FloorTypeOK
  <1>19. claims["sec"] # NoClaims /\ DraftNumber("sec")' = DraftNumber("sec")
    <2>1. claims["sec"].records = "old"
      BY <1>1, <1>2, <1>3, DraftedAre DEF ClaimFactsFor, CanonicalFacts
    <2>2. QED
      BY <1>3, <1>17, <1>18, <2>1 DEF DraftNumber, CanonicalFacts, Drafted
  <1>20. InboxOK' /\ MailOK' /\ ~Turn /\ step # "release"
    <2>1. ~Amends'
      BY <1>2 DEF Amends
    <2>2. QED
      BY <1>1, <2>1, NobodyAsked, NoneConcurs DEF Turn, Releases
  <1>21. QED
    BY <1>1, <1>3, <1>6, <1>15, <1>17, <1>18, <1>19, <1>20, DraftStep

LEMMA HighRiskRoom ==
  ASSUME IInv, RoomIInv, HighRisk, Hears(HighRiskMessages), ~CutShort'
  PROVE  RoomIInv'
  <1>1. /\ Drive /\ step = "affected_party" /\ step' = "affected_party" /\ ~CutShort
        /\ lock = "idle"
    <2>1. Drive /\ step = "affected_party" /\ step' = "affected_party" /\ lock = "idle"
      BY DEF Drive, HighRisk
    <2>2. QED
      BY <2>1, StepIs
  <1>2. FloorTypeOK /\ TodoOK /\ scenario' = scenario
        /\ scenario.mode = "affected_party"
    BY <1>1, IInvParts, DriveFrame DEF Running, LoopOK, Wanted
  <1>3. Sound(room) /\ UNCHANGED options /\ apClient \in BOOLEAN
    BY DEF RoomIInv, Hears, OptionsOK
  <1>4. Head(todo) = AffectedParty
    <2>1. todo # <<>>
      BY <1>1, <1>2 DEF TodoOK, Loops
    <2>2. Head(todo) \in Visits(step)
      BY <1>2, <2>1, HeadFacts
    <2>3. QED
      BY <1>1, <2>2, VisitsAre
  <1>5. PICK b : b = AffectedParty
    OBVIOUS
  <1>6. /\ b \in Branches /\ b \in Agents /\ b \notin Startup /\ "warden" \in Agents
        /\ b # "warden" /\ "yes" \in Subjects
        /\ {"art34", "draft"} \subseteq Topics /\ room.peers \in SUBSET Agents
    BY <1>3, <1>5, Names DEF Topics, Subjects, Sound, Rooms
  <1> DEFINE required == Announce(room, "art34", "yes", 1, room.peers)
             joined == Register(required, b)
  <1>7. room' = IF apClient THEN Tell(joined, "draft", b, 1, b, {"warden"}) ELSE required
    BY <1>5 DEF Hears, HighRiskMessages, DraftFrom
  <1>8. PICK m \in Messages : Adds(room, required, {m}) /\ m.key = <<"art34", "yes", 1>>
    <2>1. Says(room, required, <<"art34", "yes", 1>>, room.peers, {"yes"})
      BY <1>3, <1>6, AnnounceAdds
    <2>2. QED
      BY <2>1 DEF Says
  <1>9. Sound(required)
    BY <1>8 DEF Adds, Grows
  <1> HIDE DEF required
  <1>10. Adds(required, joined, {}) /\ Sound(joined)
    BY <1>6, <1>9, RegisterFacts
  <1> HIDE DEF joined
  <1>11. \E M : /\ Grows(room, room', M) /\ NoTurnKeys(M)
                /\ \A o \in M : Timely(o.key)'
                /\ apClient => \E o \in M : o.key = <<"draft", b, 1>>
    <2>1. Timely(m.key)' /\ NoTurnKeys({m})
      BY <1>1, <1>8 DEF Timely, Before, All, TurnTopics, NoTurnKeys
    <2>2. CASE ~apClient
      BY <1>7, <1>8, <2>1, <2>2 DEF Adds
    <2>3. CASE apClient
      <3>1. Tells(joined, Tell(joined, "draft", b, 1, b, {"warden"}), <<"draft", b, 1>>,
                  {"warden"}, {b})
        <4>1. {"warden"} \in SUBSET Agents /\ b \notin {"warden"} /\ 1 \in Nat
          BY <1>6
        <4>2. QED
          BY <1>6, <1>10, <4>1, TellAdds
      <3>2. PICK n \in Messages : Adds(joined, room', {n}) /\ n.key = <<"draft", b, 1>>
        BY <1>7, <2>3, <3>1 DEF Tells
      <3>3. Adds(room, room', ({m} \cup {}) \cup {n})
        <4>1. Adds(room, joined, {m} \cup {})
          BY <1>3, <1>8, <1>10, AddsOn
        <4>2. QED
          BY <1>3, <3>2, <4>1, AddsOn
      <3>4. Timely(n.key)' /\ NoTurnKeys({n})
        BY <1>1, <1>6, <3>2 DEF Timely, Before, All, NoTurnKeys
      <3>5. PICK M : M = ({m} \cup {}) \cup {n}
        OBVIOUS
      <3>6. /\ Grows(room, room', M) /\ NoTurnKeys(M)
            /\ \A o \in M : Timely(o.key)'
            /\ \E o \in M : o.key = <<"draft", b, 1>>
        BY <2>1, <3>2, <3>3, <3>4, <3>5 DEF Adds, NoTurnKeys
      <3>7. QED
        BY <3>6
    <2>4. QED
      BY <1>3, <2>2, <2>3
  <1>12. PICK M : /\ Grows(room, room', M) /\ NoTurnKeys(M)
                  /\ \A o \in M : Timely(o.key)'
                  /\ apClient => \E o \in M : o.key = <<"draft", b, 1>>
    BY <1>11
  <1>13. \A c \in Branches \ {b} : claims'[c] = claims[c] /\ Cured(c)' = Cured(c)
    BY <1>2, <1>4, <1>5 DEF HighRisk, FloorTypeOK, Cured
  <1>14. DraftNumber(b)' = 1
    BY <1>5 DEF DraftNumber
  <1>15. InboxOK' /\ MailOK' /\ ~Turn /\ step # "release"
    BY <1>1, NobodyAsked, NoneConcurs DEF Turn, BeforeAmend, Early, Joining
  <1>16. (b = AffectedParty => apClient) =>
           \E o \in M : o.key = <<"draft", b, DraftNumber(b)'>>
    BY <1>5, <1>12, <1>14
  <1>17. QED
    BY <1>1, <1>3, <1>6, <1>12, <1>13, <1>15, <1>16, DraftStep
-----------------------------------------------------------------------------
(***************************************************************************)
(* The releases.                                                           *)
(***************************************************************************)
\* What is filed when the loop over the released branches ends.
LEMMA LoopIsOver ==
  ASSUME IInv, Drive, ~CutShort', LoopEnds, NextBranch, claims' = claims
  PROVE  /\ step' \notin Early \cup {"release", "propose", "concur", "cure"}
         /\ Amends <=> step' = "amend"
         /\ \A b \in Branches : filed'[b] # <<>> =>
              /\ b \in Regulators /\ DOMAIN filed'[b] = {1}
              /\ claims[b] = CanonicalFacts
         /\ Amends => filed'["nis2"] # <<>>
  <1>1. step = "release" /\ step' = After("release") /\ ~CutShort
    BY StepIs DEF LoopEnds, NextBranch, Proceed
  <1>2. /\ FloorTypeOK' /\ RunOK' /\ LiveOK' /\ CustomersOK'
        /\ scenario' = scenario /\ scenario \in Scenarios
    <2>1. IInv'
      BY NextIInv DEF Next
    <2>2. QED
      BY <1>1, <2>1, IInvParts, DriveFrame DEF IInv, FloorTypeOK
  <1>3. /\ step' \in {"amend", "deficiency", "lift_hold", "submission", "seal"}
        /\ Amends <=> step' = "amend"
        /\ step' = "seal" => scenario.mode # "deficiency"
    BY <1>1, <1>2, AfterTable DEF Amends
  <1>4. step' \notin Early \cup {"release", "propose", "concur", "cure"}
    BY <1>3 DEF Early, Joining
  <1>5. filed'[AffectedParty] = <<>>
    <2>1. ~Joined(AffectedParty)'
      BY <1>2, <1>3 DEF CustomersOK, Ending, Amends
    <2>2. QED
      BY <1>2, <2>1 DEF CustomersOK
  <1>6. ASSUME NEW b \in Regulators, Live(b)'
        PROVE  Len(filed'[b]) = 1 /\ claims'[b] = CanonicalFacts
    <2>1. claims'[b] = Asserts(b)' /\ Len(filed'[b]) = Versions(b)'
      BY <1>2, <1>6 DEF LiveOK
    <2>2. Asserts(b)' = CanonicalFacts
      BY <1>2, <1>3 DEF Asserts, Joining, Ending, Amends
    <2>3. Versions(b)' = 1
      BY <1>2, <1>3 DEF Versions, Early, Joining, Ending, Amends
    <2>4. QED
      BY <2>1, <2>2, <2>3
  <1>7. ASSUME NEW b \in Branches, filed'[b] # <<>>
        PROVE  b \in Regulators /\ DOMAIN filed'[b] = {1} /\ claims[b] = CanonicalFacts
    <2>1. b \in Regulators
      BY <1>5, <1>7 DEF Branches
    <2>2. Live(b)'
      BY <1>2, <1>7, <2>1 DEF RunOK
    <2>3. Len(filed'[b]) = 1 /\ claims'[b] = CanonicalFacts
      BY <1>6, <2>1, <2>2
    <2>4. filed'[b] \in Seq(Claims)
      BY <1>2, <1>7 DEF FloorTypeOK
    <2>5. DOMAIN filed'[b] = 1..1
      BY <2>3, <2>4, LenProperties
    <2>6. QED
      BY <2>1, <2>3, <2>5
  <1>8. Amends => filed'["nis2"] # <<>>
    <2>1. ASSUME Amends PROVE filed'["nis2"] # <<>>
      <3>1. Joined("nis2")' /\ state'["nis2"] # "suppressed"
        BY <1>2, <1>3, <2>1 DEF RunOK, Regulators, Drafters, Amends
      <3>2. Len(filed'["nis2"]) = 1
        BY <1>6, <3>1, Names DEF Live
      <3>3. QED
        BY <3>2
    <2>2. QED
      BY <2>1
  <1>9. QED
    BY <1>3, <1>4, <1>7, <1>8

LEMMA LoopEndsRoom ==
  ASSUME IInv, RoomIInv, Drive, ~CutShort', LoopEnds, NextBranch, claims' = claims,
         UNCHANGED options, room' = KeysForAll
  PROVE  RoomIInv'
  <1> DEFINE released == { b \in Branches : filed'[b] # <<>> }
  <1>1. /\ step = "release" /\ ~CutShort /\ scenario' = scenario
        /\ Sound(room) /\ TopicsOK /\ DraftsPosted /\ MailOK
    BY StepIs, DriveFrame DEF LoopEnds, RoomIInv
  <1>2. /\ step' \notin Early \cup {"release", "propose", "concur", "cure"}
        /\ Amends <=> step' = "amend"
        /\ \A b \in released : b \in Regulators /\ DOMAIN filed'[b] = {1}
                               /\ claims[b] = CanonicalFacts
        /\ Amends => "nis2" \in released
    BY LoopIsOver, Names
  <1>3. InboxOK'
    BY <1>2, NobodyAsked DEF Early
  <1>4. \A b \in Branches : \A round \in DOMAIN filed'[b] : round = 1 /\ b \in released
    <2>1. ASSUME NEW b \in Branches, filed'[b] = <<>> PROVE DOMAIN filed'[b] = {}
      BY <2>1
    <2>2. QED
      BY <1>2, <2>1
  <1>5. \A b \in Branches : claims'[b] # NoClaims /\ (b = AffectedParty => apClient) =>
          claims[b] # NoClaims /\ DraftNumber(b)' = DraftNumber(b)
    <2>1. \A b : ~Cured(b) /\ ~Cured(b)'
      <3>1. step' \in Ending => scenario.mode # "deficiency"
        BY <1>1, <1>2, StepIs, AfterTable, IInvParts DEF Ending, LoopEnds, NextBranch, Proceed,
           FloorTypeOK, Amends
      <3>2. QED
        BY <1>1, <1>2, <3>1 DEF Cured, Ending
    <2>2. QED
      BY <2>1 DEF DraftNumber
  <1>6. CASE released = {}
    <2>1. room' = room
      BY <1>6 DEF KeysForAll
    <2>2. Grows(room, room', {})
      BY <1>1, <2>1, GrowsNothing
    <2>3. MailOK'
      BY <1>1, <1>2, <1>6, NoneConcurs DEF Amends
    <2>4. \A b \in Branches : \A round \in DOMAIN filed'[b] : FALSE
      BY <1>4, <1>6
    <2>5. QED
      BY <1>1, <1>3, <1>5, <2>2, <2>3, <2>4, StepKeepsRoom
  <1>7. CASE released # {}
    <2> DEFINE first == AnnounceAbout(room, <<"key1", "all", 1>>, Startup, released)
    <2>1. room' = AnnounceAbout(first, <<"released", "all", 1>>, Startup, released)
      BY <1>7 DEF KeysForAll
    <2>2. /\ released \in SUBSET Subjects /\ Startup \in SUBSET Agents
          /\ Startup \ {"warden"} = Startup /\ Startup # {} /\ "nis2" \in Startup
      BY Names
    <2>3. /\ All("key1") \in DedupKeys /\ All("released") \in DedupKeys
          /\ All("key1") = <<"key1", "all", 1>>
          /\ All("released") = <<"released", "all", 1>>
      BY DEF All, DedupKeys, Topics, Subjects
    <2> HIDE DEF released
    <2>4. PICK m \in Messages : /\ Adds(room, first, {m}) /\ m.key = All("key1")
                                /\ m.to = Startup
      <3>1. Says(room, first, <<"key1", "all", 1>>, Startup, released)
        BY <1>1, <2>2, <2>3, SayAdds
      <3>2. QED
        BY <2>2, <2>3, <3>1 DEF Says
    <2>5. Sound(first)
      BY <2>4 DEF Adds, Grows
    <2> HIDE DEF first
    <2>6. PICK n \in Messages : /\ Adds(first, room', {n}) /\ n.key = All("released")
                                /\ n.to = Startup /\ n.about = released
      <3>1. Says(first, AnnounceAbout(first, <<"released", "all", 1>>, Startup, released),
                 <<"released", "all", 1>>, Startup, released)
        BY <2>2, <2>3, <2>5, SayAdds
      <3>2. QED
        BY <2>1, <2>2, <2>3, <3>1 DEF Says
    <2>7. PICK M : M = {m} \cup {n}
      OBVIOUS
    <2>8. Adds(room, room', M)
      BY <1>1, <2>4, <2>6, <2>7, AddsOn
    <2>9. \A o \in M : o.key \in {All("key1"), All("released")} /\ o.to = Startup
      BY <2>4, <2>6, <2>7
    <2>10. ~Posted(room, All("key1")) /\ ~Posted(room, All("released"))
      <3>1. ~Timely(All("key1")) /\ ~Timely(All("released"))
        BY <1>1 DEF Timely, Before, All
      <3>2. QED
        BY <1>1, <3>1 DEF TopicsOK, Posted
    <2>11. (\A o \in M : Timely(o.key)') /\ NoTurnKeys(M)
      BY <1>2, <2>9, Names DEF Timely, Before, All, TurnTopics, NoTurnKeys
    <2>12. \A b \in Branches : \A round \in DOMAIN filed'[b] : FilingIsTold(b, round)'
      <3>1. ~Posted(first, n.key)
        <4>1. ~Posted(first, All("released")) <=> ~Posted(room, All("released"))
          <5>1. \A o \in {m} : o.key # All("released")
            BY <2>3, <2>4
          <5>2. Grows(room, first, {m})
            BY <2>4 DEF Adds
          <5>3. QED
            BY <1>1, <5>1, <5>2, OldPlaces
        <4>2. QED
          BY <2>6, <2>10, <4>1
      <3>2. PICK i \in DOMAIN room'.log : i > Len(first.log) /\ room'.log[i] = n
        <4>1. Grows(first, room', {n})
          BY <2>6 DEF Adds
        <4>2. QED
          BY <2>5, <3>1, <4>1, NewMessage
      <3>3. ASSUME NEW b \in Branches, NEW round \in DOMAIN filed'[b],
                   NEW key, key = <<"draft", b, round>>
            PROVE  \E told \in ReleasesOf(b, round)' : \E drafted \in At(key)' : drafted < told
        <4>1. round = 1 /\ b \in released /\ b \in Regulators /\ claims[b] = CanonicalFacts
          BY <1>2, <1>4, <3>3
        <4>2. i \in ReleasesOf(b, round)'
          BY <2>3, <2>6, <3>2, <4>1 DEF ReleasesOf
        <4>3. Posted(room, key)
          <5>1. DraftNumber(b) = 1 /\ b # AffectedParty /\ claims[b] # NoClaims
            BY <1>1, <4>1, Names, FactsDiffer
               DEF DraftNumber, Cured, CanonicalFacts, Ending
          <5>2. QED
            BY <1>1, <3>3, <4>1, <5>1 DEF DraftsPosted
        <4>4. PICK j \in DOMAIN room.log : room.log[j].key = key
          BY <4>3 DEF Posted
        <4>5. j \in DOMAIN room'.log /\ room'.log[j] = room.log[j]
          <5>1. Grows(room, room', M)
            BY <2>8 DEF Adds
          <5>2. QED
            BY <1>1, <5>1, GrownLog
        <4>6. j <= Len(first.log) /\ Len(first.log) \in Nat /\ j \in Nat
          <5>1. Grows(room, first, {m})
            BY <2>4 DEF Adds
          <5>2. QED
            BY <1>1, <5>1, GrownLog
        <4>7. j \in At(key)'
          BY <4>4, <4>5 DEF At
        <4>8. i \in Nat
          BY <2>8, GrownLog, <1>1 DEF Adds
        <4>9. QED
          BY <3>2, <4>2, <4>6, <4>7, <4>8
      <3>4. QED
        BY <3>3 DEF FilingIsTold
    <2>13. MailOK'
      <3>1. CASE ~Amends
        BY <1>1, <3>1, NoneConcurs DEF Amends
      <3>2. CASE Amends
        <4>1. step' = "amend" /\ step' # "concur"
          BY <1>2, <3>2
        <4>2. \A o \in M : Due(o.key)'
          BY <2>9, <4>1 DEF Due, Early, Joining
        <4>3. \A key \in Dues : Due(key)' => Due(key) \/ key \in {All("key1"), All("released")}
          BY <1>1, <4>1 DEF Due, Dues, All, ToNis2, Undrafted, BeforeAmend, Early, Joining
        <4>4. \A key \in {All("key1"), All("released")} :
                ~Posted(room, key) /\ \E o \in M : o.key = key
          BY <2>4, <2>6, <2>7, <2>10
        <4>5. \A o \in M : "nis2" \in o.to
          BY <2>2, <2>9
        <4>6. \A i \in room'.marked["nis2"] : i \in room.marked["nis2"]
          BY <2>8 DEF Adds
        <4>7. Grows(room, room', M)
          BY <2>8 DEF Adds
        <4>8. QED
          BY <1>1, <4>1, <4>2, <4>3, <4>4, <4>5, <4>6, <4>7, MailStays
      <3>3. QED
        BY <3>1, <3>2
    <2>14. Grows(room, room', M)
      BY <2>8 DEF Adds
    <2>15. QED
      BY <1>1, <1>3, <1>5, <2>11, <2>12, <2>13, <2>14, StepKeepsRoom DEF NoTurnKeys
  <1>8. QED
    BY <1>6, <1>7

\* The release loop goes on, or is over.
LEMMA ReleaseRoom ==
  ASSUME IInv, RoomIInv, Drive, ~CutShort', step = "release", NextBranch,
         claims' = claims, Hears(KeysForAll)
  PROVE  RoomIInv'
  <1>1. room' = KeysForAll /\ UNCHANGED options /\ ~CutShort
    BY StepIs DEF Hears
  <1>2. CASE LoopEnds
    BY <1>1, <1>2, LoopEndsRoom
  <1>3. CASE ~LoopEnds
    <2>1. step' = "release" /\ room' = room
      <3>1. Len(todo) # 1
        BY <1>3 DEF LoopEnds
      <3>2. todo # <<>> /\ todo \in Seq(Branches)
        BY <1>1, IInvParts DEF TodoOK, Loops, FloorTypeOK
      <3>3. Len(todo) > 1
        BY <3>1, <3>2
      <3>4. QED
        BY <1>1, <1>3, <3>3 DEF NextBranch, KeysForAll
    <2>2. InboxOK'
      BY <2>1, NobodyAsked
    <2>3. MailOK'
      <3>1. \A key \in Dues : Due(key)' => Due(key)
        BY <2>1 DEF Due, Undrafted, Early, Joining, BeforeAmend
      <3>2. QED
        BY <1>1, <2>1, <3>1, QuietMail
    <2>4. Grows(room, room', {})
      BY <1>1, <2>1, GrowsNothing DEF RoomIInv
    <2>5. \A b : Cured(b)' = Cured(b) /\ scenario' = scenario
      BY <2>1, DriveFrame DEF Cured, Ending
    <2>6. \A b \in Branches : DraftNumber(b)' = DraftNumber(b)
      BY <2>5 DEF DraftNumber
    <2>7. scenario' = scenario
      BY DriveFrame
    <2>8. QED
      BY <1>1, <2>1, <2>2, <2>3, <2>4, <2>6, <2>7, StepKeepsRoom
  <1>4. QED
    BY <1>2, <1>3

LEMMA SkipUncheckedRoom ==
  ASSUME IInv, RoomIInv, SkipUnchecked, Hears(KeysForAll), ~CutShort'
  PROVE  RoomIInv'
  <1>1. Drive /\ step = "release" /\ NextBranch /\ claims' = claims
    BY DEF Drive, SkipUnchecked, branchVars
  <1>2. QED
    BY <1>1, ReleaseRoom

\* What a release after the loop files.
LEMMA LaterFiling ==
  ASSUME IInv, RoomIInv, Turn, ~CutShort', step # "release", NEW b, b = Head(todo),
         NEW n, n = Len(filed[b]) + 1
  PROVE  /\ b \in Branches /\ n \in Nat /\ NextBranch /\ claims' = claims
         /\ step \in {"amend_release", "affected_party", "cure"}
         /\ step' \in {"amend_release", "affected_party", "seal"}
         /\ step = "cure" => b = "sec"
         /\ \A c \in Branches : \A round \in DOMAIN filed'[c] :
              round \in DOMAIN filed[c] \/ (c = b /\ round = n)
         /\ Len(filed'[b]) = n
         /\ (b = AffectedParty => apClient) =>
              claims[b] # NoClaims /\ DraftNumber(b) = n
  <1>1. /\ Drive /\ ~CutShort /\ step \in Releases /\ step \in Loops
        /\ step \in {"amend_release", "affected_party", "cure"}
    <2>1. Drive /\ step \in {"amend_release", "affected_party", "cure"}
      BY DEF Drive, Turn, Releases
    <2>2. QED
      BY <2>1, StepIs DEF Releases, Loops
  <1>2. /\ FloorTypeOK /\ Running /\ TodoOK /\ LoopOK /\ RunOK /\ LiveOK /\ CustomersOK
        /\ OnceEach(ran) /\ scenario \in Scenarios
    BY <1>1, IInvParts DEF Running, FloorTypeOK
  <1>3. Admits(state[b], "human_released", "human_owner")
    BY DEF Turn, Raise, CutShort
  <1>4. /\ lock = "turned" /\ NextBranch /\ b \in Branches /\ InTodo(b)
        /\ b \in Visits(step) /\ Signing(b) /\ state[b] = "awaiting_human_signoff"
        /\ filed' = [filed EXCEPT ![b] = Append(@, claims[b])] /\ claims' = claims
    BY <1>2, <1>3, TurnFacts
  <1>5. filed \in [Branches -> Seq(Claims)] /\ Len(filed[b]) \in Nat /\ n \in Nat
    <2>1. filed \in [Branches -> Seq(Claims)]
      BY <1>2 DEF FloorTypeOK
    <2>2. QED
      BY <1>4, <2>1, LenProperties
  <1>6. filed'[b] = Append(filed[b], claims[b]) /\ \A c \in Branches \ {b} : filed'[c] = filed[c]
    BY <1>4, <1>5
  <1>7. Len(filed'[b]) = n /\ DOMAIN filed'[b] = 1..n /\ DOMAIN filed[b] = 1..(n - 1)
    BY <1>4, <1>5, <1>6
  <1>8. \A c \in Branches : \A round \in DOMAIN filed'[c] :
          round \in DOMAIN filed[c] \/ (c = b /\ round = n)
    BY <1>5, <1>6, <1>7
  <1>9. step' \in {"amend_release", "affected_party", "seal"}
    <2>1. CASE step = "cure"
      <3>1. After(step) = "seal"
        BY <1>2, <2>1, AfterTable DEF LoopOK, Wanted
      <3>2. QED
        BY <1>2, <1>4, <2>1, <3>1, SingleVisit, StepsAre DEF PhaseNames
    <2>2. QED
      BY <1>1, <2>1, StepIs
  <1>10. step = "cure" => b = "sec"
    BY <1>4, VisitsAre
  <1>11. (b = AffectedParty => apClient) => claims[b] # NoClaims /\ DraftNumber(b) = n
    <2>1. CASE step = "affected_party"
      <3>1. b = AffectedParty
        BY <1>4, <2>1, VisitsAre
      <3>2. claims[b] # NoClaims /\ filed[b] = <<>>
        BY <1>2, <1>4, <2>1, <3>1 DEF CustomersOK, Ending
      <3>3. Len(filed[b]) = 0
        BY <3>2
      <3>4. QED
        BY <3>1, <3>2, <3>3 DEF DraftNumber
    <2>2. CASE step \in {"amend_release", "cure"}
      <3>1. b \in {"sec", "nis2"} /\ (step = "cure" => b = "sec")
        BY <1>4, <2>2, VisitsAre
      <3>2. b \in Regulators /\ b # AffectedParty /\ Live(b)
        BY <1>1, <1>2, <1>4, <3>1, Names DEF RunOK, Drafters, Live
      <3>3. claims[b] = Asserts(b) /\ Len(filed[b]) = Versions(b) /\ Amended(b)
        BY <1>2, <3>1, <3>2, WorkLists DEF LiveOK
      <3>4. Versions(b) = 1
        BY <1>4, <2>2, <3>3 DEF Versions, Early, Joining, Ending
      <3>5. claims[b] # NoClaims /\ DraftNumber(b) = 2
        <4>1. CASE step = "amend_release"
          <5>1. claims[b] = AmendedFacts
            BY <3>3, <4>1 DEF Asserts, Joining
          <5>2. QED
            BY <3>2, <5>1, FactsDiffer DEF DraftNumber, AmendedFacts
        <4>2. CASE step = "cure"
          <5>1. claims[b] = CanonicalFacts
            BY <3>3, <4>2 DEF Asserts, Joining, Ending
          <5>2. Cured(b)
            BY <1>2, <1>4, <3>1, <4>2 DEF Cured, LoopOK, Wanted
          <5>3. QED
            BY <3>2, <5>1, <5>2, FactsDiffer DEF DraftNumber
        <4>3. QED
          BY <2>2, <4>1, <4>2
      <3>6. QED
        BY <3>3, <3>4, <3>5
    <2>3. QED
      BY <1>1, <2>1, <2>2
  <1>12. QED
    BY <1>1, <1>4, <1>5, <1>7, <1>8, <1>9, <1>10, <1>11

LEMMA LaterTurnRoom ==
  ASSUME IInv, RoomIInv, Turn, Hears(TurnMessages), ~CutShort', step # "release"
  PROVE  RoomIInv'
  <1>1. PICK b, n : b = Head(todo) /\ n = Len(filed[b]) + 1
    OBVIOUS
  <1>2. /\ b \in Branches /\ n \in Nat /\ NextBranch /\ claims' = claims
        /\ step \in {"amend_release", "affected_party", "cure"}
        /\ step' \in {"amend_release", "affected_party", "seal"}
        /\ step = "cure" => b = "sec"
        /\ \A c \in Branches : \A round \in DOMAIN filed'[c] :
             round \in DOMAIN filed[c] \/ (c = b /\ round = n)
        /\ Len(filed'[b]) = n
        /\ (b = AffectedParty => apClient) =>
             claims[b] # NoClaims /\ DraftNumber(b) = n
    BY <1>1, LaterFiling
  <1>3. /\ Drive /\ ~CutShort /\ scenario' = scenario /\ UNCHANGED options
        /\ Sound(room) /\ TopicsOK /\ DraftsPosted
    <2>1. Drive
      BY DEF Drive
    <2>2. QED
      BY <2>1, StepIs, DriveFrame DEF RoomIInv, Hears
  <1> DEFINE first == Announce(room, "released", b, n, Told(b))
  <1>4. room' = IF step = "cure" THEN Announce(first, "accepted", b, 1, {b}) ELSE first
    BY <1>1, <1>2 DEF Hears, TurnMessages, Narrated, Releases
  <1>5. /\ b \in Subjects /\ b \in Agents /\ Told(b) \in SUBSET Agents /\ {b} \in SUBSET Agents
        /\ "released" \in Topics /\ "accepted" \in Topics /\ 1 \in Nat /\ b # "all"
    BY <1>2, Names DEF Topics, Told
  <1>6. PICK key : key = <<"released", b, n>>
    OBVIOUS
  <1>7. PICK m \in Messages : Adds(room, first, {m}) /\ m.key = key /\ m.about = {b}
    <2>1. Says(room, first, <<"released", b, n>>, Told(b), {b})
      BY <1>2, <1>3, <1>5, AnnounceAdds
    <2>2. QED
      BY <1>6, <2>1 DEF Says
  <1>8. Sound(first)
    BY <1>7 DEF Adds, Grows
  <1> HIDE DEF first
  <1>9. PICK M : Adds(first, room', M) /\ \A o \in M : o.key = <<"accepted", b, 1>>
    <2>1. CASE step # "cure"
      BY <1>4, <1>8, <2>1, AddsNothing
    <2>2. CASE step = "cure"
      <3>1. Says(first, Announce(first, "accepted", b, 1, {b}), <<"accepted", b, 1>>, {b}, {b})
        BY <1>5, <1>8, AnnounceAdds
      <3>2. PICK o \in Messages : Adds(first, room', {o}) /\ o.key = <<"accepted", b, 1>>
        BY <1>4, <2>2, <3>1 DEF Says
      <3>3. QED
        BY <3>2
    <2>3. QED
      BY <2>1, <2>2
  <1>10. PICK N : N = {m} \cup M
    OBVIOUS
  <1>11. Adds(room, room', N)
    BY <1>3, <1>7, <1>9, <1>10, AddsOn
  <1>12. (\A o \in N : Timely(o.key)') /\ NoTurnKeys(N)
    <2>1. Timely(key)'
      <3>1. Before(key)' = {"open"}
        BY <1>5, <1>6 DEF Before, All
      <3>2. QED
        BY <1>2, <1>6, <3>1 DEF Timely, TurnTopics
    <2>2. \A o \in M : Timely(o.key)'
      <3>1. ASSUME NEW o \in M PROVE Timely(o.key)'
        <4>1. o.key[1] \notin TurnTopics \cup OrderedTopics /\ step' # "open"
          BY <1>2, <1>9 DEF TurnTopics, OrderedTopics
        <4>2. QED
          BY <4>1, TimelyElse
      <3>2. QED
        BY <3>1
    <2>3. \A o \in N : o.key[1] \in {"released", "accepted"}
      BY <1>6, <1>7, <1>9, <1>10
    <2>4. NoTurnKeys(N)
      BY <2>3 DEF NoTurnKeys, TurnTopics
    <2>5. QED
      BY <1>7, <1>10, <2>1, <2>2, <2>4
  <1>13. ~Posted(room, key)
    <2>1. ~Timely(key)
      <3>1. filed \in [Branches -> Seq(Claims)]
        BY <1>3, IInvParts DEF FloorTypeOK
      <3>2. Len(filed[b]) \in Nat
        BY <1>2, <3>1, LenProperties
      <3>3. ~(n <= Len(filed[b]))
        BY <1>1, <3>2
      <3>4. QED
        BY <1>2, <1>6, <3>3 DEF Timely
    <2>2. QED
      BY <1>3, <2>1 DEF TopicsOK, Posted
  <1>14. FilingIsTold(b, n)'
    <2>1. Grows(room, first, {m}) /\ Grows(first, room', M)
      BY <1>7, <1>9 DEF Adds
    <2>2. PICK i \in DOMAIN first.log : i > Len(room.log) /\ first.log[i] = m
      BY <1>3, <1>7, <1>13, <2>1, NewMessage
    <2>3. i \in DOMAIN room'.log /\ room'.log[i] = m /\ i \in Nat
      BY <1>8, <2>1, <2>2, GrownLog
    <2>4. i \in ReleasesOf(b, n)'
      BY <1>6, <1>7, <2>3 DEF ReleasesOf
    <2>5. CASE b = AffectedParty /\ ~apClient
      BY <1>3, <2>4, <2>5 DEF FilingIsTold, options
    <2>6. CASE b = AffectedParty => apClient
      <3>1. PICK text : text = <<"draft", b, n>>
        OBVIOUS
      <3>2. Posted(room, text)
        BY <1>2, <1>3, <2>6, <3>1 DEF DraftsPosted
      <3>3. PICK j \in DOMAIN room.log : room.log[j].key = text
        BY <3>2 DEF Posted
      <3>4. j \in DOMAIN room'.log /\ room'.log[j] = room.log[j]
        BY <1>3, <1>11, GrownLog DEF Adds
      <3>5. j <= Len(room.log) /\ Len(room.log) \in Nat /\ j \in Nat
        BY <1>3, LogFacts
      <3>6. j \in At(text)' /\ j < i
        BY <2>2, <2>3, <3>3, <3>4, <3>5 DEF At
      <3>7. QED
        BY <2>4, <3>1, <3>6 DEF FilingIsTold
    <2>7. QED
      BY <2>5, <2>6
  <1>15. \A c \in Branches : claims'[c] # NoClaims /\ (c = AffectedParty => apClient) =>
           claims[c] # NoClaims /\ DraftNumber(c)' = DraftNumber(c)
    <2>1. \A c : Cured(c)' = Cured(c)
      <3>1. ~Cure
        BY DEF Turn, Cure
      <3>2. QED
        BY <1>3, <3>1, CuredStays
    <2>2. QED
      BY <1>2, <2>1 DEF DraftNumber
  <1>16. \A c \in Branches : \A round \in DOMAIN filed'[c] :
           \/ step # "release" /\ round \in DOMAIN filed[c]
           \/ FilingIsTold(c, round)'
    BY <1>2, <1>14
  <1>17. InboxOK' /\ MailOK'
    BY <1>2, NobodyAsked, NoneConcurs DEF BeforeAmend, Early, Joining
  <1>18. Grows(room, room', N)
    BY <1>11 DEF Adds
  <1>19. QED
    BY <1>3, <1>12, <1>15, <1>16, <1>17, <1>18, StepKeepsRoom DEF NoTurnKeys

LEMMA TurnRoom ==
  ASSUME IInv, RoomIInv, Turn, Hears(TurnMessages), ~CutShort'
  PROVE  RoomIInv'
  <1>1. CASE step = "release"
    <2>1. Drive /\ claims' = claims
      BY DEF Drive, Turn
    <2>2. NextBranch
      BY DEF Turn, Raise, CutShort
    <2>3. Hears(KeysForAll)
      BY <1>1 DEF TurnMessages, Narrated
    <2>4. QED
      BY <1>1, <2>1, <2>2, <2>3, ReleaseRoom
  <1>2. QED
    BY <1>1, LaterTurnRoom
-----------------------------------------------------------------------------
(***************************************************************************)
(* The two envelopes of the amendment.                                     *)
(***************************************************************************)
LEMMA ProposeRoom ==
  ASSUME IInv, RoomIInv, Propose, Hears(ProposeMessages), ~CutShort'
  PROVE  RoomIInv'
  <1>1. /\ Drive /\ step = "propose" /\ step' = "concur" /\ ~CutShort
    <2>1. Drive /\ step = "propose"
      BY DEF Drive, Propose
    <2>2. QED
      BY <2>1, StepIs
  <1>2. /\ Sound(room) /\ UNCHANGED options /\ InboxOK /\ room.fault = "none"
        /\ OptionsOK /\ TopicsOK /\ MailOK /\ scenario' = scenario
    BY <1>1, DriveFrame DEF RoomIInv, Hears
  <1>3. /\ "sec" \in Branches /\ "sec" \in Agents /\ "nis2" \in Agents
        /\ {"nis2"} \in SUBSET Agents /\ "sec" \notin {"nis2"} /\ 1 \in Nat
        /\ "propose" \in Topics
    BY Names DEF Topics
  <1>4. PICK i \in 1..Len(room.log) :
          \/ Answer(room, "sec") = Mark(room, "sec", {i})
          \/ Answer(room, "sec") = Starve(room)
    <2>1. Inbox(room, "sec") # {}
      BY <1>1, <1>2 DEF InboxOK
    <2>2. QED
      BY <1>2, <1>3, <2>1, AnswerFacts DEF OptionsOK
  <1> DEFINE asked == Mark(room, "sec", {i})
  <1>5. /\ Grows(room, asked, {}) /\ Sound(asked) /\ asked.fault = "none"
        /\ asked.log = room.log /\ asked.marked["nis2"] = room.marked["nis2"]
    BY <1>2, <1>3, MarkFacts
  <1>6. room' = Tell(asked, "propose", "sec", 1, "sec", {"nis2"})
    <2>1. Answer(room, "sec") # Starve(room)
      BY <1>2, StarveFacts DEF Hears, ProposeMessages
    <2>2. Answer(room, "sec") = asked
      BY <1>4, <2>1
    <2>3. QED
      BY <1>5, <2>2 DEF Hears, ProposeMessages
  <1> HIDE DEF asked
  <1>7. PICK m \in Messages :
          /\ Adds(asked, room', {m}) /\ room' = Post(asked, m)
          /\ m.key = TheProposal /\ m.to = {"nis2"}
    <2>1. Tells(asked, Tell(asked, "propose", "sec", 1, "sec", {"nis2"}),
                <<"propose", "sec", 1>>, {"nis2"}, {"sec"})
      BY <1>3, <1>5, TellAdds
    <2>2. QED
      BY <1>6, <2>1 DEF Tells, TheProposal
  <1> DEFINE M == {} \cup {m}
  <1>8. Grows(room, room', M)
    BY <1>2, <1>5, <1>7, GrowsOn DEF Adds
  <1>9. \A o \in M : Timely(o.key)'
    BY <1>1, <1>7 DEF Timely, Before, All, TheProposal, TurnTopics, BeforeAmend, Early,
       Joining
  <1>10. NoTurnKeys(M)
    BY <1>7 DEF NoTurnKeys, TheProposal, TurnTopics
  <1>11. InboxOK'
    BY <1>1, NobodyAsked
  <1>12. ~Drafts /\ step # "release" /\ ~Turn
    BY <1>1, DraftingPhases DEF Releases, Turn
  <1>13. /\ room'.log = Append(room.log, m)
    <2>1. ~Posted(room, TheProposal)
      <3>1. ~Timely(TheProposal)
        BY <1>1 DEF Timely, Before, TheProposal, All
      <3>2. QED
        BY <1>2, <3>1 DEF TopicsOK, Posted
    <2>2. room'.log = Append(asked.log, m)
      <3>1. PICK key : key = TheProposal
        OBVIOUS
      <3>2. ~Posted(asked, key)
        BY <1>5, <2>1, <3>1 DEF Posted
      <3>3. ~Posted(asked, m.key)
        BY <1>7, <3>1, <3>2
      <3>4. room'.fault = "none" /\ asked \in Rooms
        BY <1>5, <1>7 DEF Adds, Sound
      <3>5. [asked EXCEPT !.fault = "refused"].fault = "refused"
        BY <3>4 DEF Rooms
      <3>6. room' = [asked EXCEPT !.log = Append(asked.log, m)]
        BY <1>7, <3>3, <3>4, <3>5 DEF Post
      <3>7. QED
        BY <3>4, <3>6 DEF Rooms
    <2>3. QED
      BY <1>5, <2>2
  <1>14. /\ room.log \in Seq(Messages) /\ DOMAIN room.log = 1..Len(room.log)
         /\ Len(room.log) \in Nat /\ room.marked["nis2"] \subseteq 1..Len(room.log)
    BY <1>2, <1>3, LogFacts
  <1>15. /\ Len(room'.log) = Len(room.log) + 1 /\ room'.log[Len(room.log) + 1] = m
         /\ DOMAIN room'.log = 1..(Len(room.log) + 1)
         /\ \A j \in 1..Len(room.log) : room'.log[j] = room.log[j]
    BY <1>7, <1>13, <1>14
  <1>16. \A key : Due(key)' <=> Due(key)
    BY <1>1 DEF Due, Undrafted, BeforeAmend, Early, Joining
  <1>17. ~Undrafted("nis2")'
    BY <1>1 DEF Undrafted
  <1>18. MailOK'
    <2>1. CASE ~Amends
      BY <1>2, <2>1, NoneConcurs DEF Amends
    <2>2. CASE Amends
      <3>1. ASSUME NEW j \in DOMAIN room'.log, "nis2" \in room'.log[j].to,
                   NEW key, key = room'.log[j].key
            PROVE  \/ Due(key)' \/ key = All("factrecord")
                   \/ key = ToNis2("challenge") \/ key = TheProposal
        <4>1. CASE j \in 1..Len(room.log)
          <5>1. room'.log[j] = room.log[j] /\ j \in DOMAIN room.log
            BY <1>14, <1>15, <4>1
          <5>2. "nis2" \in room.log[j].to /\ key = room.log[j].key
            BY <3>1, <5>1
          <5>3. \/ Due(key) \/ key = All("factrecord")
                \/ key = ToNis2("challenge") \/ key = TheProposal
            BY <1>1, <1>2, <2>2, <5>1, <5>2 DEF MailOK
          <5>4. QED
            BY <1>16, <5>3
        <4>2. CASE j = Len(room.log) + 1
          BY <1>7, <1>15, <3>1, <4>2
        <4>3. QED
          BY <1>14, <1>15, <3>1, <4>1, <4>2
      <3>2. \A j \in room'.marked["nis2"] : room'.log[j].key = All("factrecord")
        <4>1. room'.marked["nis2"] = room.marked["nis2"]
          BY <1>5, <1>7 DEF Adds
        <4>2. \A j \in room.marked["nis2"] : room.log[j].key = All("factrecord")
          BY <1>1, <1>2, <2>2 DEF MailOK
        <4>3. QED
          BY <1>14, <1>15, <4>1, <4>2
      <3>3. ASSUME NEW key \in Dues, Due(key)'
            PROVE  \E j \in DOMAIN room'.log : room'.log[j].key = key /\ "nis2" \in room'.log[j].to
        <4>1. Due(key)
          BY <1>16, <3>3
        <4>2. PICK j \in DOMAIN room.log : room.log[j].key = key /\ "nis2" \in room.log[j].to
          BY <1>1, <1>2, <2>2, <3>3, <4>1 DEF MailOK
        <4>3. j \in DOMAIN room'.log /\ room'.log[j] = room.log[j]
          BY <1>14, <1>15, <4>2
        <4>4. QED
          BY <4>2, <4>3
      <3>4. Asked'
        <4>1. room'.log # <<>>
          BY <1>14, <1>15
        <4>2. QED
          BY <1>7, <1>15, <4>1 DEF Asked, TheProposal
      <3>5. Dues' = Dues
        BY DEF Dues, ToNis2, All
      <3>6. \A j \in DOMAIN room'.log : "nis2" \in room'.log[j].to =>
              \/ Due(room.log[j].key)' \/ room'.log[j].key = All("factrecord")
              \/ room'.log[j].key = ToNis2("challenge") \/ room'.log[j].key = TheProposal
        <4>1. ASSUME NEW j \in DOMAIN room'.log, "nis2" \in room'.log[j].to
              PROVE \/ Due(room.log[j].key)' \/ room'.log[j].key = All("factrecord")
                    \/ room'.log[j].key = ToNis2("challenge")
                    \/ room'.log[j].key = TheProposal
          <5>1. PICK key : key = room'.log[j].key
            OBVIOUS
          <5>2. \/ Due(key)' \/ key = All("factrecord")
                \/ key = ToNis2("challenge") \/ key = TheProposal
            BY <3>1, <4>1, <5>1
          <5>3. QED
            BY <5>1, <5>2 DEF Due
        <4>2. QED
          BY <4>1
      <3>7. QED
        BY <1>1, <1>17, <3>2, <3>3, <3>4, <3>5, <3>6 DEF MailOK, All, ToNis2, TheProposal
    <2>3. QED
      BY <2>1, <2>2
  <1> HIDE DEF M
  <1>19. QED
    BY <1>1, <1>2, <1>8, <1>9, <1>10, <1>11, <1>12, <1>18, PlainStep
       DEF NoTurnKeys, Drafts

LEMMA ConcurRoom ==
  ASSUME IInv, RoomIInv, Concur, Hears(ConcurMessages), ~CutShort'
  PROVE  RoomIInv'
  <1>1. /\ Drive /\ step = "concur" /\ step' = "amend_submit" /\ ~CutShort
    <2>1. Drive /\ step = "concur"
      BY DEF Drive, Concur
    <2>2. QED
      BY <2>1, StepIs
  <1>2. /\ Sound(room) /\ UNCHANGED options /\ room.fault = "none" /\ OptionsOK
    BY <1>1 DEF RoomIInv, Hears
  <1>3. /\ "nis2" \in Branches /\ "nis2" \in Agents /\ "sec" \in Agents
        /\ {"sec"} \in SUBSET Agents /\ "nis2" \notin {"sec"} /\ 1 \in Nat
        /\ "concur" \in Topics
    BY Names DEF Topics
  <1> DEFINE inbox == Inbox(room, "nis2")
             envelopes == { i \in inbox : IsEnvelope(room.log[i]) }
             swept == { i \in inbox : i < Oldest(envelopes) }
             after == Mark(room, "nis2", swept)
  <1>4. inbox \in SUBSET (1..Len(room.log))
    BY <1>2, <1>3, InboxFacts
  <1>5. /\ \A S \in SUBSET (1..Len(room.log)) :
             Starve(Mark(room, "nis2", S)).fault = "starved"
        /\ Sound(after) /\ Grows(room, after, {}) /\ after.log = room.log
        /\ after.fault = "none"
    <2>1. swept \in SUBSET (1..Len(room.log))
      BY <1>4
    <2> HIDE DEF swept
    <2>2. QED
      BY <1>2, <1>3, <2>1, MarkFacts, StarveFacts
  <1>6. /\ AnswerEnvelope(room, "nis2").fault # "starved"
        /\ AnswerEnvelope(room, "nis2") = Answer(after, "nis2")
    <2>1. swept \in SUBSET (1..Len(room.log))
      BY <1>4
    <2>2. AnswerEnvelope(room, "nis2").fault # "starved"
      BY DEF Hears, ConcurMessages
    <2>3. \/ AnswerEnvelope(room, "nis2") = Starve(Mark(room, "nis2", inbox))
          \/ AnswerEnvelope(room, "nis2") = Starve(Mark(room, "nis2", swept))
          \/ AnswerEnvelope(room, "nis2") = Answer(after, "nis2")
      BY DEF AnswerEnvelope
    <2> HIDE DEF swept, inbox, after
    <2>4. QED
      BY <1>4, <1>5, <2>1, <2>2, <2>3
  <1> HIDE DEF after
  <1>7. PICK i \in 1..Len(room.log) : AnswerEnvelope(room, "nis2") = Mark(after, "nis2", {i})
    <2>1. Inbox(after, "nis2") # {}
      BY <1>5, <1>6, StarveFacts DEF Answer
    <2>2. PICK i \in 1..Len(after.log) :
            Answer(after, "nis2") = Mark(after, "nis2", {i})
            \/ Answer(after, "nis2") = Starve(after)
      BY <1>2, <1>3, <1>5, <2>1, AnswerFacts DEF OptionsOK
    <2>3. QED
      BY <1>5, <1>6, <2>2, StarveFacts
  <1> DEFINE asked == Mark(after, "nis2", {i})
  <1>8. Grows(after, asked, {}) /\ Sound(asked) /\ asked.fault = "none"
    BY <1>3, <1>5, <1>7, MarkFacts
  <1>9. Grows(room, asked, {})
    <2>1. {} \cup {} = {}
      OBVIOUS
    <2>2. Grows(room, asked, {} \cup {})
      BY <1>2, <1>5, <1>8, GrowsOn
    <2>3. QED
      BY <2>1, <2>2
  <1>10. room' = Tell(asked, "concur", "nis2", 1, "nis2", {"sec"})
    BY <1>7, <1>8 DEF Hears, ConcurMessages
  <1> HIDE DEF asked
  <1>11. PICK m \in Messages : Adds(asked, room', {m}) /\ m.key = <<"concur", "nis2", 1>>
    <2>1. Tells(asked, Tell(asked, "concur", "nis2", 1, "nis2", {"sec"}),
                <<"concur", "nis2", 1>>, {"sec"}, {"nis2"})
      BY <1>3, <1>8, TellAdds
    <2>2. QED
      BY <1>10, <2>1 DEF Tells
  <1> DEFINE M == {} \cup {m}
  <1>12. Grows(room, room', M)
    BY <1>2, <1>9, <1>11, GrowsOn DEF Adds
  <1>13. \A o \in M : Timely(o.key)'
    BY <1>1, <1>11 DEF Timely, Before, All, TurnTopics, BeforeAmend, Early, Joining
  <1>14. NoTurnKeys(M)
    BY <1>11 DEF NoTurnKeys, TurnTopics
  <1>15. InboxOK' /\ MailOK'
    BY <1>1, NobodyAsked, NoneConcurs DEF BeforeAmend, Early, Joining
  <1>16. ~Drafts /\ step # "release" /\ ~Turn
    BY <1>1, DraftingPhases DEF Releases, Turn
  <1> HIDE DEF M
  <1>17. QED
    BY <1>1, <1>2, <1>12, <1>13, <1>14, <1>15, <1>16, PlainStep DEF NoTurnKeys, Drafts
-----------------------------------------------------------------------------
(***************************************************************************)
(* The turn of a drafter, and its watchdog.                                *)
(***************************************************************************)
LEMMA PostShape ==
  ASSUME NEW r, Sound(r), NEW m \in Messages, NEW s, s = Post(r, m), Sound(s)
  PROVE  s.clock = r.clock /\ s.watch = r.watch
  <1>1. r \in Rooms /\ s.fault # "refused"
    BY DEF Sound, Rooms
  <1>2. [r EXCEPT !.fault = "refused"].fault = "refused"
    BY <1>1 DEF Rooms
  <1>3. s = r \/ s = [r EXCEPT !.log = Append(r.log, m)]
    BY <1>1, <1>2 DEF Post
  <1>4. QED
    BY <1>1, <1>3 DEF Rooms

LEMMA StarvedGrows ==
  ASSUME NEW r, NEW s, NEW M, Sound(r), Grows(r, s, M)
  PROVE  Sound(Starve(r)) /\ Grows(Starve(r), Starve(s), M)
  <1>1. Sound(s)
    BY DEF Grows
  <1>2. /\ Starve(r).log = r.log /\ Starve(s).log = s.log
        /\ Starve(r).fault = "starved" /\ Starve(s).fault = "starved"
        /\ Sound(Starve(s)) /\ Sound(Starve(r))
    BY <1>1, StarveFacts
  <1>3. QED
    BY <1>2 DEF Grows, Posted

\* The room after the watchdog looked at its clock or at a drafter.
Idles(r, s) == Adds(r, s, {}) /\ Sound(s) /\ s.log = r.log

LEMMA WatchSet ==
  ASSUME NEW r, Sound(r), NEW n \in Nat,
         NEW w \in [Branches -> [last : Nat, liveness : {"healthy", "dead", "recovered"}]],
         NEW s, s = [log |-> r.log, marked |-> r.marked, peers |-> r.peers,
                     fault |-> r.fault, clock |-> n, watch |-> w]
  PROVE  Idles(r, s) /\ s.clock = n /\ s.watch = w
  <1>1. r \in Rooms
    BY DEF Sound
  <1>2. /\ s.log = r.log /\ s.marked = r.marked /\ s.fault = r.fault
        /\ s.peers = r.peers /\ s \in Rooms /\ s.clock = n /\ s.watch = w
    BY <1>1 DEF Rooms
  <1>3. Sound(s)
    BY <1>2 DEF Sound
  <1>4. Grows(r, s, {})
    BY <1>2, <1>3, LogFacts DEF Grows
  <1>5. QED
    BY <1>2, <1>3, <1>4 DEF Adds, Idles

Died(r, b) == [r EXCEPT !.watch[b].liveness = "dead"]
Revived(r, b) == [r EXCEPT !.watch[b] = [last |-> r.clock, liveness |-> "recovered"]]

LEMMA WatchFacts ==
  ASSUME NEW r, Sound(r), NEW b \in Branches
  PROVE  /\ r.clock \in Nat /\ r.watch[b].last \in Nat
         /\ Idles(r, Tick(r)) /\ Tick(r).clock = r.clock + 1 /\ Tick(r).watch = r.watch
         /\ Idles(r, Heartbeat(r, b)) /\ Heartbeat(r, b).clock = r.clock
         /\ Heartbeat(r, b).watch[b].last = r.clock
         /\ Heartbeat(r, b).watch[b].liveness = r.watch[b].liveness
         /\ Idles(r, WatchedFrom(r, b)) /\ WatchedFrom(r, b).clock = r.clock
         /\ WatchedFrom(r, b).watch[b].last = r.clock
         /\ WatchedFrom(r, b).watch[b].liveness = "healthy"
         /\ Idles(r, Died(r, b)) /\ Died(r, b).watch[b].liveness = "dead"
         /\ Idles(r, Revived(r, b))
  <1> DEFINE Watch == [last : Nat, liveness : {"healthy", "dead", "recovered"}]
  <1>1. /\ r.clock \in Nat /\ r.clock + 1 \in Nat /\ r.watch \in [Branches -> Watch]
        /\ r.watch[b] \in Watch
    BY DEF Sound, Rooms
  <1>2. r = [log |-> r.log, marked |-> r.marked, peers |-> r.peers,
             fault |-> r.fault, clock |-> r.clock, watch |-> r.watch]
    BY LogFacts
  <1>3. Idles(r, Tick(r)) /\ Tick(r).clock = r.clock + 1 /\ Tick(r).watch = r.watch
    <2>1. Tick(r) = [log |-> r.log, marked |-> r.marked, peers |-> r.peers,
                     fault |-> r.fault, clock |-> r.clock + 1, watch |-> r.watch]
      BY <1>2 DEF Tick
    <2>2. QED
      BY <1>1, <2>1, WatchSet
  <1>4. ASSUME NEW v \in Watch, NEW s, s = [r EXCEPT !.watch[b] = v]
        PROVE  Idles(r, s) /\ s.clock = r.clock /\ s.watch[b] = v
    <2>1. PICK w : w = [r.watch EXCEPT ![b] = v]
      OBVIOUS
    <2>2. w \in [Branches -> Watch] /\ w[b] = v
      BY <1>1, <2>1
    <2>3. s = [log |-> r.log, marked |-> r.marked, peers |-> r.peers,
               fault |-> r.fault, clock |-> r.clock, watch |-> w]
      BY <1>2, <1>4, <2>1
    <2>4. Idles(r, s) /\ s.clock = r.clock /\ s.watch = w
      BY <1>1, <2>2, <2>3, WatchSet
    <2>5. QED
      BY <2>2, <2>4
  <1>5. /\ Idles(r, Heartbeat(r, b)) /\ Heartbeat(r, b).clock = r.clock
        /\ Heartbeat(r, b).watch[b].last = r.clock
        /\ Heartbeat(r, b).watch[b].liveness = r.watch[b].liveness
    <2>1. PICK v : v = [last |-> r.clock, liveness |-> r.watch[b].liveness]
      OBVIOUS
    <2>2. v \in Watch /\ v.last = r.clock /\ v.liveness = r.watch[b].liveness
      BY <1>1, <2>1
    <2>3. Heartbeat(r, b) = [r EXCEPT !.watch[b] = v]
      BY <1>1, <2>1 DEF Heartbeat
    <2>4. QED
      BY <1>4, <2>2, <2>3
  <1>6. /\ Idles(r, WatchedFrom(r, b)) /\ WatchedFrom(r, b).clock = r.clock
        /\ WatchedFrom(r, b).watch[b].last = r.clock
        /\ WatchedFrom(r, b).watch[b].liveness = "healthy"
    <2>1. PICK v : v = [last |-> r.clock, liveness |-> "healthy"]
      OBVIOUS
    <2>2. v \in Watch /\ v.last = r.clock /\ v.liveness = "healthy"
      BY <1>1, <2>1
    <2>3. WatchedFrom(r, b) = [r EXCEPT !.watch[b] = v]
      BY <2>1 DEF WatchedFrom
    <2>4. QED
      BY <1>4, <2>2, <2>3
  <1>7. Idles(r, Died(r, b)) /\ Died(r, b).watch[b].liveness = "dead"
    <2>1. PICK v : v = [last |-> r.watch[b].last, liveness |-> "dead"]
      OBVIOUS
    <2>2. v \in Watch /\ v.liveness = "dead"
      BY <1>1, <2>1
    <2>3. Died(r, b) = [r EXCEPT !.watch[b] = v]
      BY <1>1, <2>1 DEF Died
    <2>4. QED
      BY <1>4, <2>2, <2>3
  <1>8. Idles(r, Revived(r, b))
    <2>1. PICK v : v = [last |-> r.clock, liveness |-> "recovered"]
      OBVIOUS
    <2>2. v \in Watch
      BY <1>1, <2>1
    <2>3. Revived(r, b) = [r EXCEPT !.watch[b] = v]
      BY <2>1 DEF Revived
    <2>4. QED
      BY <1>4, <2>2, <2>3
  <1>9. QED
    BY <1>1, <1>3, <1>5, <1>6, <1>7, <1>8

\* s is r and one message.
Sends(r, s, key, to) == \E m \in Messages : Adds(r, s, {m}) /\ m.key = key /\ m.to = to

LEMMA SendsFacts ==
  ASSUME NEW r, Sound(r), NEW s, NEW key, NEW to, Sends(r, s, key, to)
  PROVE  /\ Sound(s) /\ Posted(s, key) /\ s.fault = r.fault /\ s.marked = r.marked
         /\ \A other : other # key => (Posted(s, other) <=> Posted(r, other))
         /\ ~Posted(r, key) => \E i \in DOMAIN s.log : i > Len(r.log) /\ s.log[i].key = key
  <1>1. PICK m \in Messages : Adds(r, s, {m}) /\ m.key = key /\ m.to = to
    BY DEF Sends
  <1>2. Grows(r, s, {m}) /\ Sound(s) /\ s.fault = r.fault /\ s.marked = r.marked
    BY <1>1 DEF Adds, Grows
  <1>3. Posted(s, key)
    BY <1>1, <1>2 DEF Grows
  <1>4. ASSUME NEW other, other # key PROVE Posted(s, other) <=> Posted(r, other)
    <2>1. \A n \in {m} : n.key # other
      BY <1>1, <1>4
    <2>2. QED
      BY <1>2, <2>1, OldPlaces
  <1>5. ASSUME ~Posted(r, key)
        PROVE  \E i \in DOMAIN s.log : i > Len(r.log) /\ s.log[i].key = key
    BY <1>1, <1>2, <1>5, NewMessage
  <1>6. QED
    BY <1>2, <1>3, <1>4, <1>5

LEMMA SendsOf ==
  ASSUME NEW r, Sound(r), NEW s, NEW t, NEW key, NEW to, NEW about
  PROVE  /\ Tells(s, t, key, to, about) => Sends(s, t, key, to)
         /\ Says(s, t, key, to, about) /\ "warden" \notin to /\ to # {} =>
              Sends(s, t, key, to)
         /\ Idles(r, s) /\ Sends(s, t, key, to) => Sends(r, t, key, to)
         /\ Sends(r, s, key, to) /\ Idles(s, t) => Sends(r, t, key, to)
  <1>1. Tells(s, t, key, to, about) => Sends(s, t, key, to)
    BY DEF Tells, Sends
  <1>2. Says(s, t, key, to, about) /\ "warden" \notin to /\ to # {} => Sends(s, t, key, to)
    <2>1. "warden" \notin to => to \ {"warden"} = to
      OBVIOUS
    <2>2. QED
      BY <2>1 DEF Says, Sends
  <1>3. ASSUME NEW m \in Messages, Adds(r, s, {}), Adds(s, t, {m})
        PROVE  Adds(r, t, {m})
    <2>1. Adds(r, t, {} \cup {m}) /\ {} \cup {m} = {m}
      BY <1>3, AddsOn
    <2>2. QED
      BY <2>1
  <1>4. ASSUME NEW m \in Messages, Adds(r, s, {m}), Adds(s, t, {})
        PROVE  Adds(r, t, {m})
    <2>1. Adds(r, t, {m} \cup {}) /\ {m} \cup {} = {m}
      BY <1>4, AddsOn
    <2>2. QED
      BY <2>1
  <1>5. Idles(r, s) /\ Sends(s, t, key, to) => Sends(r, t, key, to)
    BY <1>3 DEF Idles, Sends
  <1>6. Sends(r, s, key, to) /\ Idles(s, t) => Sends(r, t, key, to)
    BY <1>4 DEF Idles, Sends
  <1>7. QED
    BY <1>1, <1>2, <1>5, <1>6

LEMMA WarnFacts ==
  ASSUME NEW r, Sound(r), NEW topic \in Topics, NEW b \in Startup
  PROVE  /\ Sends(r, Announce(r, topic, b, 1, {b}), <<topic, b, 1>>, {b})
         /\ Announce(r, topic, b, 1, {b}).watch = r.watch
  <1>1. b \in Subjects /\ 1 \in Nat /\ {b} \in SUBSET Agents /\ "warden" \notin {b} /\ {b} # {}
    BY Names
  <1>2. Says(r, Announce(r, topic, b, 1, {b}), <<topic, b, 1>>, {b}, {b})
    BY <1>1, AnnounceAdds
  <1>3. Announce(r, topic, b, 1, {b}).watch = r.watch
    <2>1. PICK s : s = Announce(r, topic, b, 1, {b})
      OBVIOUS
    <2>2. PICK m \in Messages : Adds(r, s, {m}) /\ s = Post(r, m)
      BY <1>2, <2>1 DEF Says
    <2>3. s.watch = r.watch
      BY <2>2, PostShape DEF Adds, Grows
    <2>4. QED
      BY <2>1, <2>3
  <1>4. QED
    BY <1>1, <1>2, <1>3, SendsOf

LEMMA WatchdogFacts ==
  ASSUME NEW r, Sound(r), NEW b \in Startup
  PROVE  /\ r.watch[b].liveness # "dead" /\ r.watch[b].last = r.clock =>
              /\ Sends(r, Killed(r, b), <<"dead", b, 1>>, {b})
              /\ Killed(r, b).watch[b].liveness = "dead"
         /\ r.watch[b].liveness = "dead" =>
              Sends(r, Recover(r, b), <<"recovered", b, 1>>, {b})
  <1>1. b \in Branches /\ "dead" \in Topics /\ "recovered" \in Topics
    BY Names DEF Topics
  <1>2. ASSUME r.watch[b].liveness # "dead", r.watch[b].last = r.clock
        PROVE  /\ Sends(r, Killed(r, b), <<"dead", b, 1>>, {b})
               /\ Killed(r, b).watch[b].liveness = "dead"
    <2>1. PICK t : t = Tick(r)
      OBVIOUS
    <2>2. PICK u : u = Tick(t)
      OBVIOUS
    <2>3. Idles(r, t) /\ Sound(t) /\ t.clock = r.clock + 1 /\ t.watch = r.watch
      BY <1>1, <2>1, WatchFacts DEF Idles
    <2>4. Idles(t, u) /\ Sound(u) /\ u.clock = t.clock + 1 /\ u.watch = t.watch
      BY <1>1, <2>2, <2>3, WatchFacts DEF Idles
    <2>5. r.clock \in Nat
      BY <1>1, WatchFacts
    <2>6. u.clock - u.watch[b].last > 1 /\ u.watch[b].liveness # "dead"
      BY <1>2, <2>3, <2>4, <2>5
    <2>7. Killed(r, b) = Announce(Died(u, b), "dead", b, 1, {b})
      BY <2>1, <2>2, <2>6 DEF Killed, Check, IsStalled, STALL_THRESHOLD, Died
    <2>8. PICK d : d = Died(u, b)
      OBVIOUS
    <2>9. Idles(u, d) /\ d.watch[b].liveness = "dead" /\ Sound(d)
      BY <1>1, <2>4, <2>8, WatchFacts DEF Idles
    <2>10. PICK s : s = Announce(d, "dead", b, 1, {b})
      OBVIOUS
    <2>11. Sends(d, s, <<"dead", b, 1>>, {b}) /\ s.watch = d.watch
      BY <1>1, <2>9, <2>10, WarnFacts
    <2>12. Sends(u, s, <<"dead", b, 1>>, {b})
      BY <2>4, <2>9, <2>11, SendsOf
    <2>13. Sends(t, s, <<"dead", b, 1>>, {b})
      BY <2>3, <2>4, <2>12, SendsOf
    <2>14. Sends(r, s, <<"dead", b, 1>>, {b})
      BY <2>3, <2>13, SendsOf
    <2>15. QED
      BY <2>7, <2>8, <2>9, <2>10, <2>11, <2>14
  <1>3. ASSUME r.watch[b].liveness = "dead"
        PROVE  Sends(r, Recover(r, b), <<"recovered", b, 1>>, {b})
    <2>1. PICK d : d = Revived(r, b)
      OBVIOUS
    <2>2. Recover(r, b) = Announce(d, "recovered", b, 1, {b})
      BY <1>3, <2>1 DEF Recover, Revived
    <2>3. Idles(r, d) /\ Sound(d)
      BY <1>1, <2>1, WatchFacts DEF Idles
    <2>4. Sends(d, Recover(r, b), <<"recovered", b, 1>>, {b})
      BY <1>1, <2>2, <2>3, WarnFacts
    <2>5. QED
      BY <2>3, <2>4, SendsOf
  <1>4. QED
    BY <1>2, <1>3

\* The draft is posted, and the watchdog hears of it.
LEMMA StartedFacts ==
  ASSUME NEW r, Sound(r), NEW b \in Startup, NEW started, started = Tick(WatchedFrom(r, b)),
         NEW drafted, drafted = Heartbeat(DraftFrom(started, b, 1), b)
  PROVE  /\ Idles(r, started)
         /\ Sends(r, drafted, <<"draft", b, 1>>, {"warden"})
         /\ drafted.watch[b].last = drafted.clock /\ drafted.watch[b].liveness = "healthy"
  <1>1. /\ b \in Branches /\ b \in Agents /\ 1 \in Nat /\ {"warden"} \in SUBSET Agents
        /\ b \notin {"warden"} /\ "draft" \in Topics
    BY Names DEF Topics
  <1>2. PICK t : t = WatchedFrom(r, b)
    OBVIOUS
  <1>3. Idles(r, t) /\ Sound(t) /\ t.watch[b].liveness = "healthy" /\ t.log = r.log
    BY <1>1, <1>2, WatchFacts DEF Idles
  <1>4. Idles(t, started) /\ Sound(started) /\ started.watch = t.watch
    BY <1>1, <1>2, <1>3, WatchFacts DEF Idles
  <1>5. Idles(r, started)
    <2>1. Adds(r, started, {} \cup {}) /\ {} \cup {} = {}
      BY <1>3, <1>4, AddsOn DEF Idles
    <2>2. QED
      BY <1>3, <1>4, <2>1 DEF Idles
  <1>6. PICK p : p = DraftFrom(started, b, 1)
    OBVIOUS
  <1>7. Tells(started, p, <<"draft", b, 1>>, {"warden"}, {b})
    BY <1>1, <1>4, <1>6, TellAdds DEF DraftFrom
  <1>8. Sends(started, p, <<"draft", b, 1>>, {"warden"})
    BY <1>4, <1>7, SendsOf
  <1>9. Sound(p) /\ p.watch = started.watch
    <2>1. PICK m \in Messages : Adds(started, p, {m}) /\ p = Post(started, m)
      BY <1>7 DEF Tells
    <2>2. QED
      BY <1>4, <2>1, PostShape DEF Adds, Grows
  <1>10. Sends(r, p, <<"draft", b, 1>>, {"warden"})
    BY <1>4, <1>5, <1>8, SendsOf
  <1>11. /\ Idles(p, drafted) /\ drafted.clock = p.clock
         /\ drafted.watch[b].last = p.clock
         /\ drafted.watch[b].liveness = p.watch[b].liveness
    BY <1>1, <1>6, <1>9, WatchFacts
  <1>12. QED
    BY <1>3, <1>4, <1>5, <1>9, <1>10, <1>11, SendsOf

Chaos(b) == scenario.mode = "chaos" /\ b = "sec"
OwnKey(b, key) == \E topic \in TurnTopics \ {"ack"} : key = <<topic, b, 1>>

\* The turn ends with the draft in the room and the mention marked, and after a
\* kill with all the Warden has to say of it in between...
TurnGoes(r, s, b) ==
  \E M : \E d \in DOMAIN s.log :
    /\ Grows(r, s, M) /\ \A a \in Agents \ {b} : s.marked[a] = r.marked[a]
    /\ \A m \in M : /\ OwnKey(b, m.key)
                    /\ m.to = IF m.key = <<"draft", b, 1>> THEN {"warden"} ELSE {b}
    /\ d > Len(r.log) /\ s.log[d].key = <<"draft", b, 1>>
    /\ ~Chaos(b) => /\ \A m \in M : m.key = <<"draft", b, 1>>
                    /\ s.marked[b] \subseteq r.marked[b] \cup Inbox(r, b)
    /\ Chaos(b) => \E x, y, z \in DOMAIN s.log :
                     /\ d < x /\ x < y /\ y < z
                     /\ s.log[x].key = <<"dead", b, 1>>
                     /\ s.log[y].key = <<"dedup", b, 1>>
                     /\ s.log[z].key = <<"recovered", b, 1>>

\* ...or a mention takes twelve polls to show.
TurnStarves(r, s, b) ==
  /\ s.fault = "starved" /\ lag >= MAX_LOOPS
  /\ \E M : Grows(Starve(r), s, M) /\ \A m \in M : OwnKey(b, m.key)

LEMMA AnswerIs ==
  ASSUME NEW r, Sound(r), NEW b \in Agents, Inbox(r, b) # {}, lag \in Nat
  PROVE  \/ \E i \in Inbox(r, b) : /\ i \in 1..Len(r.log)
                                   /\ Answer(r, b) = Mark(r, b, {i})
         \/ Answer(r, b) = Starve(r) /\ lag >= MAX_LOOPS
  BY AnswerFacts

LEMMA PlainTurn ==
  ASSUME NEW r, Sound(r), r.fault = "none", NEW b \in Startup, Inbox(r, b) # {},
         lag \in Nat, ~Posted(r, <<"draft", b, 1>>), ~Chaos(b),
         NEW drafted, Sends(r, drafted, <<"draft", b, 1>>, {"warden"}),
         NEW s, s = Answer(drafted, b)
  PROVE  TurnGoes(r, s, b) \/ TurnStarves(r, s, b)
  <1>1. PICK m \in Messages : /\ Adds(r, drafted, {m}) /\ m.key = <<"draft", b, 1>>
                              /\ m.to = {"warden"}
    BY DEF Sends
  <1>2. /\ Grows(r, drafted, {m}) /\ Sound(drafted) /\ drafted.marked = r.marked
        /\ drafted.fault = "none" /\ b \in Agents /\ b # "warden"
    BY <1>1, Names DEF Adds, Grows
  <1>3. OwnKey(b, m.key)
    BY <1>1 DEF OwnKey, TurnTopics
  <1>4. PICK d \in DOMAIN drafted.log :
          d > Len(r.log) /\ drafted.log[d].key = <<"draft", b, 1>>
    BY SendsFacts
  <1>5. Inbox(drafted, b) # {}
    BY <1>2, InboxStays
  <1>6. \A i \in Inbox(drafted, b) : i \in Inbox(r, b)
    <2>1. ASSUME NEW i \in Inbox(drafted, b) PROVE i \in Inbox(r, b)
      <3>1. i \in DOMAIN drafted.log /\ b \in drafted.log[i].to /\ i \notin r.marked[b]
        BY <1>2, <2>1 DEF Inbox
      <3>2. i \in DOMAIN r.log \/ drafted.log[i] \in {m}
        BY <1>2, <3>1, GrownLog
      <3>3. i \in DOMAIN r.log /\ drafted.log[i] = r.log[i]
        BY <1>1, <1>2, <3>1, <3>2, GrownLog
      <3>4. QED
        BY <3>1, <3>3 DEF Inbox
    <2>2. QED
      BY <2>1
  <1>7. CASE s = Starve(drafted) /\ lag >= MAX_LOOPS
    <2>1. s.fault = "starved"
      BY <1>2, <1>7, StarveFacts
    <2>2. Grows(Starve(r), s, {m})
      BY <1>2, <1>7, StarvedGrows
    <2>3. QED
      BY <1>3, <1>7, <2>1, <2>2 DEF TurnStarves
  <1>8. ASSUME NEW i \in Inbox(drafted, b), i \in 1..Len(drafted.log),
               s = Mark(drafted, b, {i})
        PROVE  TurnGoes(r, s, b)
    <2>1. /\ Grows(drafted, s, {}) /\ s.log = drafted.log
          /\ s.marked[b] = drafted.marked[b] \cup {i}
          /\ \A a \in Agents \ {b} : s.marked[a] = drafted.marked[a]
      BY <1>2, <1>8, MarkFacts
    <2>2. Grows(r, s, {m} \cup {}) /\ {m} \cup {} = {m}
      BY <1>2, <2>1, GrowsOn
    <2>3. Grows(r, s, {m})
      BY <2>2
    <2>4. s.marked[b] \subseteq r.marked[b] \cup Inbox(r, b)
      BY <1>2, <1>6, <1>8, <2>1
    <2>5. d \in DOMAIN s.log /\ d > Len(r.log) /\ s.log[d].key = <<"draft", b, 1>>
      BY <1>4, <2>1
    <2>6. \A n \in {m} : /\ OwnKey(b, n.key) /\ n.key = <<"draft", b, 1>>
                         /\ n.to = {"warden"}
      BY <1>1, <1>3
    <2>7. \A a \in Agents \ {b} : s.marked[a] = r.marked[a]
      BY <1>2, <2>1
    <2>8. PICK M : M = {m}
      OBVIOUS
    <2>9. \A n \in M : /\ OwnKey(b, n.key) /\ n.key = <<"draft", b, 1>>
                        /\ n.to = IF n.key = <<"draft", b, 1>> THEN {"warden"} ELSE {b}
      BY <2>6, <2>8
    <2>10. QED
      BY <2>3, <2>4, <2>5, <2>7, <2>8, <2>9 DEF TurnGoes
  <1>9. QED
    BY <1>2, <1>5, <1>7, <1>8, AnswerIs

\* The room in which a mention was answered, or not.
Answered(r, b, s) ==
  \/ \E i \in Inbox(r, b) : i \in 1..Len(r.log) /\ s = Mark(r, b, {i})
  \/ s = Starve(r)

LEMMA AnswerKeeps ==
  ASSUME NEW r, Sound(r), NEW b \in Agents, NEW s, Answered(r, b, s)
  PROVE  /\ Sound(s) /\ s.log = r.log /\ s.watch = r.watch
         /\ \A a \in Agents \ {b} : s.marked[a] = r.marked[a]
         /\ s.fault = r.fault \/ s = Starve(r)
         /\ s.fault = r.fault => Grows(r, s, {})
         /\ s = Starve(r) => s.fault = "starved" /\ Grows(Starve(r), s, {})
  <1>1. ASSUME NEW i \in 1..Len(r.log), s = Mark(r, b, {i})
        PROVE  /\ Sound(s) /\ s.log = r.log /\ s.watch = r.watch
               /\ \A a \in Agents \ {b} : s.marked[a] = r.marked[a]
               /\ s.fault = r.fault /\ Grows(r, s, {})
    BY <1>1, MarkFacts
  <1>2. ASSUME s = Starve(r)
        PROVE  /\ Sound(s) /\ s.log = r.log /\ s.watch = r.watch
               /\ \A a \in Agents \ {b} : s.marked[a] = r.marked[a]
               /\ s.fault = "starved" /\ Grows(Starve(r), s, {})
               /\ s.fault = r.fault => Grows(r, s, {})
    <2>1. Sound(s) /\ s.log = r.log /\ s.marked = r.marked /\ s.fault = "starved"
      BY <1>2, StarveFacts
    <2>2. s.watch = r.watch
      BY <1>2 DEF Starve, Sound, Rooms
    <2>3. Grows(Starve(r), s, {})
      BY <1>2, <2>1, GrowsNothing
    <2>4. s.fault = r.fault => Grows(r, s, {})
      BY <2>1, GrowsNothing DEF Grows, Posted
    <2>5. QED
      BY <2>1, <2>2, <2>3, <2>4
  <1>3. CASE \E i \in Inbox(r, b) : i \in 1..Len(r.log) /\ s = Mark(r, b, {i})
    <2>1. PICK i \in 1..Len(r.log) : s = Mark(r, b, {i})
      BY <1>3
    <2>2. /\ Sound(s) /\ s.log = r.log /\ s.watch = r.watch
          /\ \A a \in Agents \ {b} : s.marked[a] = r.marked[a]
          /\ s.fault = r.fault /\ Grows(r, s, {})
      BY <1>1, <2>1
    <2>3. s = Starve(r) => s.fault = "starved" /\ Grows(Starve(r), s, {})
      BY <1>2
    <2>4. QED
      BY <2>2, <2>3
  <1>4. QED
    BY <1>2, <1>3 DEF Answered

LEMMA ChaosTurn ==
  ASSUME NEW r, Sound(r), r.fault = "none", NEW b \in Startup, Inbox(r, b) # {},
         lag \in Nat, \A topic \in TurnTopics : ~Posted(r, <<topic, b, 1>>), Chaos(b),
         NEW drafted, Sends(r, drafted, <<"draft", b, 1>>, {"warden"}),
         NEW killed, Sends(drafted, killed, <<"dead", b, 1>>, {b}),
         NEW noted, Sends(killed, noted, <<"dedup", b, 1>>, {b}),
         NEW answered, answered = Answer(noted, b),
         NEW s, Sends(answered, s, <<"recovered", b, 1>>, {b})
  PROVE  TurnGoes(r, s, b) \/ TurnStarves(r, s, b)
  <1>1. PICK m1 \in Messages : /\ Adds(r, drafted, {m1}) /\ m1.key = <<"draft", b, 1>>
                               /\ m1.to = {"warden"}
    BY DEF Sends
  <1>2. PICK m2 \in Messages : /\ Adds(drafted, killed, {m2}) /\ m2.key = <<"dead", b, 1>>
                               /\ m2.to = {b}
    BY DEF Sends
  <1>3. PICK m3 \in Messages : /\ Adds(killed, noted, {m3}) /\ m3.key = <<"dedup", b, 1>>
                               /\ m3.to = {b}
    BY DEF Sends
  <1>4. PICK m4 \in Messages : /\ Adds(answered, s, {m4}) /\ m4.key = <<"recovered", b, 1>>
                               /\ m4.to = {b}
    BY DEF Sends
  <1>5. b \in Agents
    BY Names
  <1>6. /\ Sound(drafted) /\ Sound(killed) /\ Sound(noted)
        /\ Grows(r, drafted, {m1}) /\ Grows(drafted, killed, {m2})
        /\ Grows(killed, noted, {m3}) /\ Grows(answered, s, {m4})
        /\ noted.marked = r.marked /\ noted.fault = "none"
    BY <1>1, <1>2, <1>3, <1>4 DEF Adds, Grows
  <1>7. Adds(r, noted, ({m1} \cup {m2}) \cup {m3})
    <2>1. Adds(r, killed, {m1} \cup {m2})
      BY <1>1, <1>2, AddsOn
    <2>2. QED
      BY <1>3, <2>1, AddsOn
  <1>8. PICK N : N = ({m1} \cup {m2}) \cup {m3}
    OBVIOUS
  <1>9. Grows(r, noted, N)
    BY <1>7, <1>8 DEF Adds
  <1>10. \/ \E i \in Inbox(noted, b) : /\ i \in 1..Len(noted.log)
                                       /\ answered = Mark(noted, b, {i})
         \/ answered = Starve(noted) /\ lag >= MAX_LOOPS
    <2>1. Inbox(noted, b) # {}
      BY <1>6, <1>9, InboxStays
    <2>2. QED
      BY <1>5, <1>6, <2>1, AnswerIs
  <1>11. /\ Sound(answered) /\ answered.log = noted.log
         /\ \A a \in Agents \ {b} : answered.marked[a] = noted.marked[a]
         /\ answered.fault = noted.fault \/ answered = Starve(noted)
         /\ answered.fault = noted.fault => Grows(noted, answered, {})
         /\ answered = Starve(noted) => /\ answered.fault = "starved"
                                        /\ Grows(Starve(noted), answered, {})
    <2>1. Answered(noted, b, answered)
      BY <1>10 DEF Answered
    <2>2. QED
      BY <1>5, <1>6, <2>1, AnswerKeeps
  <1>12. \A n \in N : n.key \in {<<"draft", b, 1>>, <<"dead", b, 1>>, <<"dedup", b, 1>>}
    <2>1. \A n \in N : n = m1 \/ n = m2 \/ n = m3
      BY <1>8
    <2>2. QED
      BY <1>1, <1>2, <1>3, <2>1
  <1>13. PICK M : M = N \cup {m4}
    OBVIOUS
  <1>14. \A m \in M : OwnKey(b, m.key)
    BY <1>4, <1>12, <1>13 DEF OwnKey, TurnTopics
  <1>15. CASE answered = Starve(noted)
    <2>1. lag >= MAX_LOOPS
      <3>1. \A i \in 1..Len(noted.log) : Mark(noted, b, {i}).fault = "none"
        BY <1>5, <1>6, MarkFacts
      <3>2. answered.fault = "starved"
        BY <1>11, <1>15
      <3>3. QED
        BY <1>10, <3>1, <3>2
    <2>2. Grows(Starve(r), answered, N) /\ Sound(Starve(r))
      BY <1>9, <1>15, StarvedGrows
    <2>3. Grows(Starve(r), s, M)
      BY <1>6, <1>13, <2>2, GrowsOn
    <2>4. s.fault = "starved"
      BY <1>4, <1>11, <1>15 DEF Adds
    <2>5. QED
      BY <1>14, <2>1, <2>3, <2>4 DEF TurnStarves
  <1>16. CASE answered # Starve(noted)
    <2>1. Grows(noted, answered, {}) /\ answered.marked = answered.marked
      BY <1>11, <1>16
    <2>2. Grows(r, answered, N)
      <3>1. Grows(r, answered, N \cup {}) /\ N \cup {} = N
        BY <1>9, <2>1, GrowsOn
      <3>2. QED
        BY <3>1
    <2>3. Grows(r, s, M)
      BY <1>6, <1>13, <2>2, GrowsOn
    <2>4. \A a \in Agents \ {b} : s.marked[a] = r.marked[a]
      BY <1>4, <1>6, <1>11 DEF Adds
    <2>5. \A m \in M : m.to = IF m.key = <<"draft", b, 1>> THEN {"warden"} ELSE {b}
      <3>1. \A m \in M : m = m1 \/ m = m2 \/ m = m3 \/ m = m4
        BY <1>8, <1>13
      <3>2. /\ m1.key = <<"draft", b, 1>> /\ m2.key # <<"draft", b, 1>>
            /\ m3.key # <<"draft", b, 1>> /\ m4.key # <<"draft", b, 1>>
        BY <1>1, <1>2, <1>3, <1>4
      <3>3. QED
        BY <1>1, <1>2, <1>3, <1>4, <3>1, <3>2
    <2>6. /\ ~Posted(r, <<"draft", b, 1>>) /\ ~Posted(r, <<"dead", b, 1>>)
          /\ ~Posted(r, <<"dedup", b, 1>>) /\ ~Posted(r, <<"recovered", b, 1>>)
      BY DEF TurnTopics
    <2>7. PICK d \in DOMAIN drafted.log :
            d > Len(r.log) /\ drafted.log[d].key = <<"draft", b, 1>>
      BY <2>6, SendsFacts
    <2>8. PICK x \in DOMAIN killed.log :
            x > Len(drafted.log) /\ killed.log[x].key = <<"dead", b, 1>>
      <3>1. PICK key, other : key = <<"dead", b, 1>> /\ other = <<"draft", b, 1>>
        OBVIOUS
      <3>2. ~Posted(drafted, key)
        BY <2>6, <3>1, SendsFacts
      <3>3. QED
        BY <1>6, <3>1, <3>2, SendsFacts
    <2>9. PICK y \in DOMAIN noted.log :
            y > Len(killed.log) /\ noted.log[y].key = <<"dedup", b, 1>>
      <3>1. PICK key : key = <<"dedup", b, 1>>
        OBVIOUS
      <3>2. key # <<"draft", b, 1>> /\ key # <<"dead", b, 1>>
        BY <3>1
      <3>3. ~Posted(drafted, key)
        BY <2>6, <3>1, <3>2, SendsFacts
      <3>4. ~Posted(killed, key)
        BY <1>6, <3>2, <3>3, SendsFacts
      <3>5. QED
        BY <1>6, <3>1, <3>4, SendsFacts
    <2>10. PICK z \in DOMAIN s.log :
            z > Len(answered.log) /\ s.log[z].key = <<"recovered", b, 1>>
      <3>1. PICK key : key = <<"recovered", b, 1>>
        OBVIOUS
      <3>2. /\ key # <<"draft", b, 1>> /\ key # <<"dead", b, 1>>
            /\ key # <<"dedup", b, 1>>
        BY <3>1
      <3>3. ~Posted(drafted, key)
        BY <2>6, <3>1, <3>2, SendsFacts
      <3>4. ~Posted(killed, key)
        BY <1>6, <3>2, <3>3, SendsFacts
      <3>5. ~Posted(noted, key)
        BY <1>6, <3>2, <3>4, SendsFacts
      <3>6. ~Posted(answered, key)
        BY <1>11, <3>5 DEF Posted
      <3>7. QED
        BY <1>11, <3>1, <3>6, SendsFacts
    <2>11. /\ d \in DOMAIN killed.log /\ killed.log[d] = drafted.log[d]
           /\ d <= Len(drafted.log) /\ d \in Nat /\ Len(drafted.log) \in Nat
      BY <1>6, <2>7, GrownLog
    <2>12. /\ d \in DOMAIN noted.log /\ noted.log[d] = killed.log[d]
           /\ x \in DOMAIN noted.log /\ noted.log[x] = killed.log[x]
           /\ x <= Len(killed.log) /\ x \in Nat /\ Len(killed.log) \in Nat
      BY <1>6, <2>8, <2>11, GrownLog
    <2>13. y <= Len(noted.log) /\ y \in Nat /\ Len(noted.log) \in Nat
      BY <1>6, <2>9, GrownLog
    <2>14. \A i \in DOMAIN noted.log : i \in DOMAIN s.log /\ s.log[i] = noted.log[i]
      BY <1>6, <1>11, GrownLog
    <2>15. z \in Nat
      BY <1>6, <1>11, <2>10, GrownLog
    <2>16. d < x /\ x < y /\ y < z
      BY <1>11, <2>8, <2>9, <2>10, <2>11, <2>12, <2>13, <2>15
    <2>17. /\ d \in DOMAIN s.log /\ s.log[d].key = <<"draft", b, 1>>
           /\ x \in DOMAIN s.log /\ s.log[x].key = <<"dead", b, 1>>
           /\ y \in DOMAIN s.log /\ s.log[y].key = <<"dedup", b, 1>>
      BY <2>7, <2>8, <2>9, <2>11, <2>12, <2>14
    <2>18. \A m \in M : /\ OwnKey(b, m.key)
                        /\ m.to = IF m.key = <<"draft", b, 1>> THEN {"warden"} ELSE {b}
      BY <1>14, <2>5
    <2>19. \E x0, y0, z0 \in DOMAIN s.log :
             /\ d < x0 /\ x0 < y0 /\ y0 < z0
             /\ s.log[x0].key = <<"dead", b, 1>>
             /\ s.log[y0].key = <<"dedup", b, 1>>
             /\ s.log[z0].key = <<"recovered", b, 1>>
      BY <2>10, <2>16, <2>17
    <2>20. d \in DOMAIN s.log /\ d > Len(r.log) /\ s.log[d].key = <<"draft", b, 1>>
      BY <2>7, <2>17
    <2>21. QED
      BY <2>3, <2>4, <2>18, <2>19, <2>20 DEF TurnGoes
  <1>17. QED
    BY <1>15, <1>16

\* A drafter whose inbox holds a mention drafts, or starves.
LEMMA DrafterTurnEnds ==
  ASSUME NEW r, Sound(r), r.fault = "none", NEW b \in Startup, Inbox(r, b) # {},
         lag \in Nat, \A topic \in TurnTopics : ~Posted(r, <<topic, b, 1>>),
         NEW s, s = DrafterTurn(r, b)
  PROVE  Sound(s) /\ (TurnGoes(r, s, b) \/ TurnStarves(r, s, b))
  <1>1. b \in Agents /\ b \in Branches /\ "dedup" \in Topics
    BY Names DEF Topics
  <1>2. PICK started : started = Tick(WatchedFrom(r, b))
    OBVIOUS
  <1>3. PICK drafted : drafted = Heartbeat(DraftFrom(started, b, 1), b)
    OBVIOUS
  <1>4. /\ Idles(r, started)
        /\ Sends(r, drafted, <<"draft", b, 1>>, {"warden"})
        /\ drafted.watch[b].last = drafted.clock /\ drafted.watch[b].liveness = "healthy"
    BY <1>2, <1>3, StartedFacts
  <1>5. /\ Sound(started) /\ started.log = r.log /\ started.marked = r.marked
        /\ started.fault = r.fault /\ Sound(drafted)
    BY <1>4, SendsFacts DEF Idles, Adds
  <1>6. Inbox(started, b) # {}
    BY <1>5 DEF Inbox
  <1>7. PICK first : first = Answer(started, b)
    OBVIOUS
  <1>8. \/ \E i \in Inbox(started, b) : i \in 1..Len(started.log)
                                        /\ first = Mark(started, b, {i})
        \/ first = Starve(started) /\ lag >= MAX_LOOPS
    BY <1>1, <1>5, <1>6, <1>7, AnswerIs
  <1>9. s = IF first.fault # "none" THEN first
            ELSE IF Chaos(b)
              THEN Recover(Answer(Announce(Killed(drafted, b), "dedup", b, 1, {b}), b), b)
              ELSE Answer(drafted, b)
    BY <1>2, <1>3, <1>7 DEF DrafterTurn, Chaos
  <1>10. CASE first.fault # "none"
    <2>1. \A i \in 1..Len(started.log) : Mark(started, b, {i}).fault = "none"
      BY <1>1, <1>5, MarkFacts
    <2>2. s = Starve(started) /\ lag >= MAX_LOOPS
      BY <1>8, <1>9, <1>10, <2>1
    <2>3. s.fault = "starved"
      BY <1>5, <2>2, StarveFacts
    <2>4. Grows(r, started, {})
      BY <1>4 DEF Idles, Adds
    <2>5. Grows(Starve(r), s, {})
      BY <2>2, <2>4, StarvedGrows
    <2>6. Sound(s)
      BY <2>5 DEF Grows
    <2>7. QED
      BY <2>2, <2>3, <2>5, <2>6 DEF TurnStarves
  <1>11. CASE first.fault = "none" /\ ~Chaos(b)
    <2>1. s = Answer(drafted, b)
      BY <1>9, <1>11
    <2>2. ~Posted(r, <<"draft", b, 1>>)
      BY DEF TurnTopics
    <2>3. TurnGoes(r, s, b) \/ TurnStarves(r, s, b)
      BY <1>4, <1>11, <2>1, <2>2, PlainTurn
    <2>4. QED
      BY <2>3 DEF TurnGoes, TurnStarves, Grows
  <1>12. CASE first.fault = "none" /\ Chaos(b)
    <2>1. PICK killed : killed = Killed(drafted, b)
      OBVIOUS
    <2>2. /\ Sends(drafted, killed, <<"dead", b, 1>>, {b})
          /\ killed.watch[b].liveness = "dead"
      BY <1>4, <1>5, <2>1, WatchdogFacts
    <2>3. Sound(killed)
      BY <1>5, <2>2, SendsFacts
    <2>4. PICK noted : noted = Announce(killed, "dedup", b, 1, {b})
      OBVIOUS
    <2>5. Sends(killed, noted, <<"dedup", b, 1>>, {b}) /\ noted.watch = killed.watch
      BY <1>1, <2>3, <2>4, WarnFacts
    <2>6. Sound(noted)
      BY <2>3, <2>5, SendsFacts
    <2>7. PICK answered : answered = Answer(noted, b)
      OBVIOUS
    <2>8. Answered(noted, b, answered)
      <3>1. Inbox(noted, b) # {}
        <4>1. PICK m1 \in Messages : Adds(r, drafted, {m1})
          BY <1>4 DEF Sends
        <4>2. PICK m2 \in Messages : Adds(drafted, killed, {m2})
          BY <2>2 DEF Sends
        <4>3. PICK m3 \in Messages : Adds(killed, noted, {m3})
          BY <2>5 DEF Sends
        <4>4. Inbox(drafted, b) # {}
          BY <1>1, <4>1, InboxStays DEF Adds
        <4>5. Inbox(killed, b) # {}
          BY <1>1, <1>5, <4>2, <4>4, InboxStays DEF Adds
        <4>6. QED
          BY <1>1, <2>3, <4>3, <4>5, InboxStays DEF Adds
      <3>2. QED
        BY <1>1, <2>6, <2>7, <3>1, AnswerIs DEF Answered
    <2>9. Sound(answered) /\ answered.watch = noted.watch
      BY <1>1, <2>6, <2>8, AnswerKeeps
    <2>10. s = Recover(answered, b)
      BY <1>9, <1>12, <2>1, <2>4, <2>7
    <2>11. Sends(answered, s, <<"recovered", b, 1>>, {b})
      BY <2>2, <2>5, <2>9, <2>10, WatchdogFacts
    <2>12. TurnGoes(r, s, b) \/ TurnStarves(r, s, b)
      BY <1>4, <1>12, <2>2, <2>5, <2>7, <2>11, ChaosTurn
    <2>13. QED
      BY <2>12 DEF TurnGoes, TurnStarves, Grows
  <1>13. QED
    BY <1>10, <1>11, <1>12

\* The Warden's loop reads the draft and all its mail, and answers the drafter...
Acknowledges(s, o, b) ==
  /\ \E m \in Messages : Grows(s, o, {m}) /\ m.key = <<"ack", b, 1>> /\ m.to = {b}
  /\ \A a \in Agents \ {"warden"} : o.marked[a] = s.marked[a]
  /\ Inbox(o, "warden") = {}

\* ...or the draft takes six polls to show.
Overlooks(s, o) ==
  lag >= IDLE_BREAKS /\ o.fault = "starved" /\ o.log = s.log /\ Sound(o)

LEMMA PairIsSmall ==
  ASSUME NEW x, NEW y, NEW S \in SUBSET {x, y}
  PROVE  Cardinality(S) \in Nat /\ Cardinality(S) <= 2
  <1>1. IsFiniteSet({x}) /\ Cardinality({x}) = 1
    BY FS_Singleton
  <1>2. IsFiniteSet({x} \cup {y}) /\ Cardinality({x} \cup {y}) \in {1, 2}
    BY <1>1, FS_AddElement
  <1>3. S \subseteq {x} \cup {y}
    OBVIOUS
  <1>4. IsFiniteSet(S) /\ Cardinality(S) <= Cardinality({x} \cup {y})
    BY <1>2, <1>3, FS_Subset
  <1>5. Cardinality(S) \in Nat
    BY <1>4, FS_CardinalityType
  <1>6. QED
    BY <1>2, <1>4, <1>5

LEMMA ObserveEnds ==
  ASSUME NEW r, Sound(r), r.fault = "none", NEW b \in Startup, lag \in Nat,
         \A i \in Inbox(r, "warden") : i = Len(r.log) /\ r.log[i].key[1] # "draft",
         NEW s, TurnGoes(r, s, b), NEW o, o = Observe(s, b)
  PROVE  Acknowledges(s, o, b) \/ Overlooks(s, o)
  <1>1. PICK M : \E d \in DOMAIN s.log :
          /\ Grows(r, s, M) /\ \A a \in Agents \ {b} : s.marked[a] = r.marked[a]
          /\ \A m \in M : /\ OwnKey(b, m.key)
                          /\ m.to = IF m.key = <<"draft", b, 1>> THEN {"warden"} ELSE {b}
          /\ d > Len(r.log) /\ s.log[d].key = <<"draft", b, 1>>
    BY DEF TurnGoes
  <1>2. PICK d \in DOMAIN s.log :
          /\ Grows(r, s, M) /\ \A a \in Agents \ {b} : s.marked[a] = r.marked[a]
          /\ \A m \in M : /\ OwnKey(b, m.key)
                          /\ m.to = IF m.key = <<"draft", b, 1>> THEN {"warden"} ELSE {b}
          /\ d > Len(r.log) /\ s.log[d].key = <<"draft", b, 1>>
    BY <1>1
  <1>3. /\ "warden" \in Agents /\ b \in Agents /\ b # "warden" /\ "ack" \in Topics
        /\ Sound(s) /\ s.fault = "none" /\ s.marked["warden"] = r.marked["warden"]
    BY <1>2, Names DEF Grows, Topics
  <1>4. /\ Len(r.log) \in Nat /\ Len(s.log) \in Nat /\ DOMAIN s.log = 1..Len(s.log)
        /\ DOMAIN r.log = 1..Len(r.log)
    BY <1>2, GrownLog
  <1> DEFINE inbox == Inbox(s, "warden")
             last == Len(r.log)
             seen == { i \in inbox : SeenAfter(s, i) < IDLE_BREAKS }
             drafts == { i \in seen : s.log[i].key[1] = "draft" }
  <1>5. \A i \in inbox : i = d \/ (i = last /\ s.log[i].key[1] # "draft")
    <2>1. ASSUME NEW i \in inbox PROVE i = d \/ (i = last /\ s.log[i].key[1] # "draft")
      <3>1. i \in DOMAIN s.log /\ "warden" \in s.log[i].to /\ i \notin r.marked["warden"]
        BY <1>3 DEF Inbox
      <3>2. CASE i \in DOMAIN r.log
        <4>1. s.log[i] = r.log[i]
          BY <1>2, <3>2, GrownLog
        <4>2. i \in Inbox(r, "warden")
          BY <3>1, <3>2, <4>1 DEF Inbox
        <4>3. QED
          BY <4>1, <4>2
      <3>3. CASE i \notin DOMAIN r.log
        <4>1. s.log[i] \in M
          BY <1>2, <3>1, <3>3, GrownLog
        <4>2. s.log[i].key = <<"draft", b, 1>>
          BY <1>2, <1>3, <3>1, <4>1
        <4>3. i = d
          BY <1>2, <1>3, <3>1, <4>2 DEF Sound
        <4>4. QED
          BY <4>3
      <3>4. QED
        BY <3>2, <3>3
    <2>2. QED
      BY <2>1
  <1>6. d \in inbox /\ s.log[d].key[1] = "draft" /\ d \in Nat
    <2>1. s.log[d] \in M
      BY <1>2, <1>4, GrownLog
    <2>2. "warden" \in s.log[d].to
      BY <1>2, <2>1
    <2>3. d \notin r.marked["warden"]
      BY <1>2, <1>3, <1>4 DEF Sound
    <2>4. QED
      BY <1>2, <1>3, <1>4, <2>2, <2>3 DEF Inbox
  <1>7. seen \in SUBSET {last, d} /\ seen \in SUBSET (1..Len(s.log))
    BY <1>4, <1>5 DEF Inbox
  <1>8. Cardinality(seen) \in Nat /\ Cardinality(seen) <= 2
    BY <1>7, PairIsSmall
  <1>9. o = IF drafts = {} \/ Cardinality(seen) > MAX_LOOPS
              THEN Starve(Mark(s, "warden", seen))
              ELSE Announce(Mark(s, "warden", seen), "ack", b, 1, {b})
    BY DEF Observe
  <1> HIDE DEF inbox, seen
  <1>10. CASE d \notin seen
    <2>1. lag >= IDLE_BREAKS
      BY <1>4, <1>6, <1>10 DEF seen, SeenAfter, IDLE_BREAKS
    <2>2. drafts = {}
      BY <1>5, <1>10 DEF seen
    <2>3. PICK t : t = Mark(s, "warden", seen)
      OBVIOUS
    <2>4. Sound(t) /\ t.log = s.log
      BY <1>3, <1>7, <2>3, MarkFacts
    <2>5. o = Starve(t)
      BY <1>9, <2>2, <2>3
    <2>6. QED
      BY <2>1, <2>4, <2>5, StarveFacts DEF Overlooks
  <1>11. CASE d \in seen
    <2>1. drafts # {}
      BY <1>6, <1>11
    <2>2. seen = inbox
      <3>1. ASSUME NEW i \in inbox PROVE i \in seen
        <4>1. CASE i = d
          BY <1>11, <4>1
        <4>2. CASE i = last
          <5>1. i # Len(s.log)
            BY <1>2, <1>4, <1>6, <4>2
          <5>2. SeenAfter(s, i) = 0
            BY <5>1 DEF SeenAfter
          <5>3. QED
            BY <3>1, <5>2 DEF seen, IDLE_BREAKS
        <4>3. QED
          BY <1>5, <3>1, <4>1, <4>2
      <3>2. QED
        BY <3>1 DEF seen
    <2>3. PICK t : t = Mark(s, "warden", seen)
      OBVIOUS
    <2>4. /\ Sound(t) /\ t.log = s.log /\ Grows(s, t, {})
          /\ t.marked["warden"] = s.marked["warden"] \cup seen
          /\ \A a \in Agents \ {"warden"} : t.marked[a] = s.marked[a]
      BY <1>3, <1>7, <2>3, MarkFacts
    <2>5. o = Announce(t, "ack", b, 1, {b})
      BY <1>8, <1>9, <2>1, <2>3 DEF MAX_LOOPS
    <2>6. PICK m \in Messages : Adds(t, o, {m}) /\ m.key = <<"ack", b, 1>> /\ m.to = {b}
      <3>1. Sends(t, o, <<"ack", b, 1>>, {b})
        BY <1>3, <2>4, <2>5, WarnFacts
      <3>2. QED
        BY <3>1 DEF Sends
    <2>7. Grows(s, o, {m})
      <3>1. Grows(s, o, {} \cup {m}) /\ {} \cup {m} = {m}
        BY <1>3, <2>4, <2>6, GrowsOn DEF Adds
      <3>2. QED
        BY <3>1
    <2>8. o.marked = t.marked
      BY <2>6 DEF Adds
    <2>9. Inbox(o, "warden") = {}
      <3>1. ASSUME NEW i \in Inbox(o, "warden") PROVE FALSE
        <4>1. i \in DOMAIN o.log /\ "warden" \in o.log[i].to /\ i \notin t.marked["warden"]
          BY <2>8, <3>1 DEF Inbox
        <4>2. CASE i \in DOMAIN s.log
          <5>1. o.log[i] = s.log[i]
            BY <1>3, <2>7, <4>2, GrownLog
          <5>2. i \in inbox
            BY <2>4, <4>1, <4>2, <5>1 DEF Inbox, inbox
          <5>3. QED
            BY <2>2, <2>4, <4>1, <5>2
        <4>3. CASE i \notin DOMAIN s.log
          <5>1. o.log[i] \in {m}
            BY <1>3, <2>7, <4>1, <4>3, GrownLog
          <5>2. QED
            BY <1>3, <2>6, <4>1, <5>1
        <4>4. QED
          BY <4>2, <4>3
      <3>2. QED
        BY <3>1
    <2>10. QED
      BY <2>4, <2>6, <2>7, <2>8, <2>9 DEF Acknowledges
  <1>12. QED
    BY <1>10, <1>11

\* The Challenger's objection, and the answer to it.
Objection(b, m) ==
  \/ m.key = <<"challenge", b, 1>> /\ m.to = {b}
  \/ m.key = <<"challenge-reply", b, 1>> /\ m.to = {"challenger", "warden"}

Objects(o, e, b) ==
  /\ \E M : Adds(o, e, M) /\ \A m \in M : Objection(b, m)
  /\ \A i \in Inbox(e, "warden") :
       i = Len(e.log) /\ e.log[i].key[1] = "challenge-reply"

LEMMA ChallengedAdds ==
  ASSUME NEW o, Sound(o), Inbox(o, "warden") = {}, NEW b \in Startup,
         NEW e, e = Challenged(o, b)
  PROVE  Objects(o, e, b)
  <1>1. /\ b \in Branches /\ b \in Agents /\ b # "warden" /\ b # "challenger" /\ 1 \in Nat
        /\ "warden" \in Agents /\ "challenger" \in Agents /\ "challenger" \notin {b}
        /\ {b} \in SUBSET Agents /\ {"challenger", "warden"} \in SUBSET Agents
        /\ b \notin {"challenger", "warden"}
        /\ "challenge" \in Topics /\ "challenge-reply" \in Topics
    BY Names DEF Topics
  <1>2. CASE ~challenge
    <2>1. e = o /\ Adds(o, e, {})
      BY <1>2, AddsNothing DEF Challenged
    <2>2. PICK M : M = {}
      OBVIOUS
    <2>3. \A m \in M : Objection(b, m)
      BY <2>2
    <2>4. QED
      BY <2>1, <2>2, <2>3 DEF Objects
  <1>3. CASE challenge
    <2>1. PICK t : t = Tell(o, "challenge", b, 1, "challenger", {b})
      OBVIOUS
    <2>2. e = Tell(t, "challenge-reply", b, 1, b, {"challenger", "warden"})
      BY <1>3, <2>1 DEF Challenged
    <2>3. Tells(o, t, <<"challenge", b, 1>>, {b}, {b})
      BY <1>1, <2>1, TellAdds
    <2>4. PICK m \in Messages : Adds(o, t, {m}) /\ m.key = <<"challenge", b, 1>> /\ m.to = {b}
      BY <2>3 DEF Tells
    <2>5. Sound(t) /\ Grows(o, t, {m}) /\ t.marked = o.marked
      BY <2>4 DEF Adds, Grows
    <2>6. Tells(t, e, <<"challenge-reply", b, 1>>, {"challenger", "warden"}, {b})
      BY <1>1, <2>2, <2>5, TellAdds
    <2>7. PICK n \in Messages : /\ Adds(t, e, {n}) /\ n.key = <<"challenge-reply", b, 1>>
                                /\ n.to = {"challenger", "warden"}
      BY <2>6 DEF Tells
    <2>8. PICK M : M = {m} \cup {n}
      OBVIOUS
    <2>9. Adds(o, e, M)
      BY <2>4, <2>7, <2>8, AddsOn
    <2>10. \A k \in M : Objection(b, k)
      <3>1. \A k \in M : k = m \/ k = n
        BY <2>8
      <3>2. QED
        BY <2>4, <2>7, <3>1 DEF Objection
    <2>11. ASSUME NEW i \in Inbox(e, "warden")
           PROVE  i = Len(e.log) /\ e.log[i].key[1] = "challenge-reply"
      <3>1. /\ i \in DOMAIN e.log /\ "warden" \in e.log[i].to
            /\ i \notin o.marked["warden"]
        BY <2>5, <2>7, <2>11 DEF Inbox, Adds
      <3>2. Grows(t, e, {n})
        BY <2>7 DEF Adds
      <3>3. i \notin DOMAIN t.log
        <4>1. ASSUME i \in DOMAIN t.log PROVE FALSE
          <5>1. e.log[i] = t.log[i]
            BY <2>5, <3>2, <4>1, GrownLog
          <5>2. CASE i \in DOMAIN o.log
            <6>1. t.log[i] = o.log[i]
              BY <2>5, <5>2, GrownLog
            <6>2. i \in Inbox(o, "warden")
              BY <3>1, <5>1, <5>2, <6>1 DEF Inbox
            <6>3. QED
              BY <6>2
          <5>3. CASE i \notin DOMAIN o.log
            <6>1. t.log[i] \in {m}
              BY <2>5, <4>1, <5>3, GrownLog
            <6>2. QED
              BY <1>1, <2>4, <3>1, <5>1, <6>1
          <5>4. QED
            BY <5>2, <5>3
        <4>2. QED
          BY <4>1
      <3>4. /\ i > Len(t.log) /\ e.log[i] \in {n} /\ i \in Nat
            /\ i <= Len(e.log) /\ Len(e.log) \in Nat /\ Len(t.log) \in Nat
            /\ DOMAIN e.log = 1..Len(e.log) /\ DOMAIN t.log = 1..Len(t.log) /\ Sound(e)
        BY <2>5, <3>1, <3>2, <3>3, GrownLog
      <3>5. Len(e.log) \in DOMAIN e.log /\ Len(e.log) \notin DOMAIN t.log
        BY <3>4
      <3>6. e.log[Len(e.log)] \in {n}
        BY <2>5, <3>2, <3>5, GrownLog
      <3>7. e.log[i] = e.log[Len(e.log)]
        BY <3>4, <3>6
      <3>8. i = Len(e.log)
        BY <3>1, <3>4, <3>5, <3>7 DEF Sound
      <3>9. e.log[i].key[1] = "challenge-reply"
        BY <2>7, <3>4
      <3>10. QED
        BY <3>8, <3>9
    <2>12. QED
      BY <2>9, <2>10, <2>11 DEF Objects
  <1>4. QED
    BY <1>2, <1>3

\* The whole turn: the draft, what the watchdog said, the Warden's ack, and what
\* the Challenger had to say.
TurnMessage(b, m) ==
  \/ m.key = <<"draft", b, 1>> /\ m.to = {"warden"}
  \/ OwnKey(b, m.key) /\ m.key # <<"draft", b, 1>> /\ m.to = {b}
  \/ m.key = <<"ack", b, 1>> /\ m.to = {b}
  \/ Objection(b, m)

ToldInOrder(r, e, b) ==
  \E d, a \in DOMAIN e.log :
    /\ Len(r.log) < d /\ d < a
    /\ e.log[d].key = <<"draft", b, 1>> /\ e.log[a].key = <<"ack", b, 1>>
    /\ Chaos(b) => \E x, y, z \in DOMAIN e.log :
                     /\ d < x /\ x < y /\ y < z /\ z < a
                     /\ e.log[x].key = <<"dead", b, 1>>
                     /\ e.log[y].key = <<"dedup", b, 1>>
                     /\ e.log[z].key = <<"recovered", b, 1>>

TurnWritten(r, e, b) ==
  \E M :
    /\ Grows(r, e, M) /\ \A m \in M : TurnMessage(b, m)
    /\ \A a \in Agents \ {b, "warden"} : e.marked[a] = r.marked[a]
    /\ ~Chaos(b) => /\ \A m \in M : m.key[1] \notin {"dead", "dedup", "recovered"}
                    /\ e.marked[b] \subseteq r.marked[b] \cup Inbox(r, b)
    /\ \A i \in Inbox(e, "warden") : i = Len(e.log) /\ e.log[i].key[1] # "draft"
    /\ ToldInOrder(r, e, b)

LEMMA TurnIsWritten ==
  ASSUME NEW r, Sound(r), NEW b \in Startup, NEW s, TurnGoes(r, s, b),
         ~Posted(r, <<"ack", b, 1>>), NEW o, Acknowledges(s, o, b),
         NEW e, e = Challenged(o, b)
  PROVE  TurnWritten(r, e, b)
  <1>1. PICK M : \E d \in DOMAIN s.log :
          /\ Grows(r, s, M) /\ \A a \in Agents \ {b} : s.marked[a] = r.marked[a]
          /\ \A m \in M : /\ OwnKey(b, m.key)
                          /\ m.to = IF m.key = <<"draft", b, 1>> THEN {"warden"} ELSE {b}
          /\ d > Len(r.log) /\ s.log[d].key = <<"draft", b, 1>>
          /\ ~Chaos(b) => /\ \A m \in M : m.key = <<"draft", b, 1>>
                          /\ s.marked[b] \subseteq r.marked[b] \cup Inbox(r, b)
          /\ Chaos(b) => \E x, y, z \in DOMAIN s.log :
                           /\ d < x /\ x < y /\ y < z
                           /\ s.log[x].key = <<"dead", b, 1>>
                           /\ s.log[y].key = <<"dedup", b, 1>>
                           /\ s.log[z].key = <<"recovered", b, 1>>
    BY DEF TurnGoes
  <1>2. PICK d \in DOMAIN s.log :
          /\ Grows(r, s, M) /\ \A a \in Agents \ {b} : s.marked[a] = r.marked[a]
          /\ \A m \in M : /\ OwnKey(b, m.key)
                          /\ m.to = IF m.key = <<"draft", b, 1>> THEN {"warden"} ELSE {b}
          /\ d > Len(r.log) /\ s.log[d].key = <<"draft", b, 1>>
          /\ ~Chaos(b) => /\ \A m \in M : m.key = <<"draft", b, 1>>
                          /\ s.marked[b] \subseteq r.marked[b] \cup Inbox(r, b)
          /\ Chaos(b) => \E x, y, z \in DOMAIN s.log :
                           /\ d < x /\ x < y /\ y < z
                           /\ s.log[x].key = <<"dead", b, 1>>
                           /\ s.log[y].key = <<"dedup", b, 1>>
                           /\ s.log[z].key = <<"recovered", b, 1>>
    BY <1>1
  <1>3. PICK k \in Messages : Grows(s, o, {k}) /\ k.key = <<"ack", b, 1>> /\ k.to = {b}
    BY DEF Acknowledges
  <1>4. /\ \A a \in Agents \ {"warden"} : o.marked[a] = s.marked[a]
        /\ Inbox(o, "warden") = {} /\ Sound(o) /\ Sound(s)
    BY <1>2, <1>3 DEF Acknowledges, Grows
  <1>5. Objects(o, e, b)
    BY <1>4, ChallengedAdds
  <1>6. PICK C : Adds(o, e, C) /\ \A m \in C : Objection(b, m)
    BY <1>5 DEF Objects
  <1>7. \A i \in Inbox(e, "warden") : i = Len(e.log) /\ e.log[i].key[1] = "challenge-reply"
    BY <1>5 DEF Objects
  <1>8. PICK N : N = (M \cup {k}) \cup C
    OBVIOUS
  <1>9. Grows(r, o, M \cup {k}) /\ Grows(o, e, C) /\ e.marked = o.marked
    BY <1>2, <1>3, <1>6, GrowsOn DEF Adds
  <1>10. Grows(r, e, N)
    BY <1>8, <1>9, GrowsOn
  <1>11. \A m \in N : m \in M \/ m = k \/ m \in C
    BY <1>8
  <1>12. \A m \in N : TurnMessage(b, m)
    BY <1>2, <1>3, <1>6, <1>11 DEF TurnMessage
  <1>13. b \in Agents /\ b # "warden"
    BY Names
  <1>14. \A a \in Agents \ {b, "warden"} : e.marked[a] = r.marked[a]
    BY <1>2, <1>4, <1>9
  <1>15. ~Chaos(b) => /\ \A m \in N : m.key[1] \notin {"dead", "dedup", "recovered"}
                      /\ e.marked[b] \subseteq r.marked[b] \cup Inbox(r, b)
    <2>1. \A m \in C : m.key[1] \notin {"dead", "dedup", "recovered"}
      BY <1>6 DEF Objection
    <2>2. k.key[1] \notin {"dead", "dedup", "recovered"}
      BY <1>3
    <2>3. e.marked[b] = s.marked[b]
      BY <1>4, <1>9, <1>13
    <2>4. ~Chaos(b) => \A m \in M : m.key[1] \notin {"dead", "dedup", "recovered"}
      BY <1>2
    <2>5. QED
      BY <1>2, <1>11, <2>1, <2>2, <2>3, <2>4
  <1>16. \A i \in Inbox(e, "warden") : i = Len(e.log) /\ e.log[i].key[1] # "draft"
    BY <1>7
  <1>17. ToldInOrder(r, e, b)
    <2>1. ~Posted(s, k.key)
      <3>1. PICK key : key = <<"ack", b, 1>>
        OBVIOUS
      <3>2. \A m \in M : m.key # key
        BY <1>2, <3>1 DEF OwnKey
      <3>3. ~Posted(s, key)
        BY <1>2, <3>1, <3>2, OldPlaces
      <3>4. QED
        BY <1>3, <3>1, <3>3
    <2>2. PICK a \in DOMAIN o.log : a > Len(s.log) /\ o.log[a] = k
      BY <1>3, <1>4, <2>1, NewMessage
    <2>3. /\ a \in DOMAIN e.log /\ e.log[a].key = <<"ack", b, 1>> /\ a \in Nat
      BY <1>3, <1>4, <1>9, <2>2, GrownLog
    <2>4. \A i \in DOMAIN s.log : i \in DOMAIN e.log /\ e.log[i] = s.log[i]
      BY <1>3, <1>4, <1>9, GrownLog
    <2>5. \A i \in DOMAIN s.log : i < a
      BY <1>3, <1>4, <2>2, <2>3, GrownLog
    <2>6. d \in DOMAIN e.log /\ e.log[d].key = <<"draft", b, 1>> /\ Len(r.log) < d /\ d < a
      BY <1>2, <1>4, <2>4, <2>5, GrownLog
    <2>7. ASSUME Chaos(b)
          PROVE  \E x, y, z \in DOMAIN e.log :
                     /\ d < x /\ x < y /\ y < z /\ z < a
                     /\ e.log[x].key = <<"dead", b, 1>>
                     /\ e.log[y].key = <<"dedup", b, 1>>
                     /\ e.log[z].key = <<"recovered", b, 1>>
      <3>1. PICK x \in DOMAIN s.log, y \in DOMAIN s.log, z \in DOMAIN s.log :
                           /\ d < x /\ x < y /\ y < z
                           /\ s.log[x].key = <<"dead", b, 1>>
                           /\ s.log[y].key = <<"dedup", b, 1>>
                           /\ s.log[z].key = <<"recovered", b, 1>>
        BY <1>2, <2>7
      <3>2. QED
        BY <2>4, <2>5, <3>1
    <2>8. QED
      BY <2>3, <2>6, <2>7 DEF ToldInOrder
  <1>18. QED
    BY <1>10, <1>12, <1>14, <1>15, <1>16, <1>17 DEF TurnWritten

RecoveryOf(b) ==
  LET Once(topic) == Cardinality(At(<<topic, b, 1>>)) = 1
      Where(topic) == Oldest(At(<<topic, b, 1>>))
  IN  IF scenario.mode = "chaos" /\ b = "sec" /\ Once("ack")
        THEN /\ Once("draft") /\ Once("dead") /\ Once("dedup") /\ Once("recovered")
             /\ Where("draft") < Where("dead") /\ Where("dead") < Where("dedup")
             /\ Where("dedup") < Where("recovered")
             /\ Where("recovered") < Where("ack")
        ELSE Once("ack") => At(<<"dead", b, 1>>) = {}

LEMMA RecoveryIs == RecoveryIsTold <=> \A b \in Startup : RecoveryOf(b)
  BY DEF RecoveryIsTold, RecoveryOf

\* The turn of a drafter says nothing of the others.
LEMMA RecoveryOfOthers ==
  ASSUME RecoveryIsTold, scenario' = scenario, NEW b \in Startup,
         \A c \in Startup \ {b} : \A topic \in TurnTopics :
           Places(room', <<topic, c, 1>>) = Places(room, <<topic, c, 1>>),
         RecoveryOf(b)'
  PROVE  RecoveryIsTold'
  <1>1. \A c \in Startup : RecoveryOf(c)
    BY RecoveryIs
  <1>2. ASSUME NEW c \in Startup \ {b} PROVE RecoveryOf(c)'
    <2>1. \A topic \in TurnTopics : At(<<topic, c, 1>>)' = At(<<topic, c, 1>>)
      BY DEF At, Places
    <2>2. QED
      BY <1>1, <2>1 DEF RecoveryOf, TurnTopics
  <1>3. \A c \in Startup : RecoveryOf(c)'
    BY <1>2
  <1>4. QED
    BY <1>3 DEF RecoveryIsTold, RecoveryOf

LEMMA TurnRecovery ==
  ASSUME scenario' = scenario, NEW b \in Startup, Sound(room), Sound(room'),
         ToldInOrder(room, room', b),
         ~Chaos(b) => ~Posted(room', <<"dead", b, 1>>)
  PROVE  RecoveryOf(b)'
  <1>1. PICK d \in DOMAIN room'.log, a \in DOMAIN room'.log :
          /\ d < a
          /\ room'.log[d].key = <<"draft", b, 1>> /\ room'.log[a].key = <<"ack", b, 1>>
          /\ Chaos(b) => \E x, y, z \in DOMAIN room'.log :
                           /\ d < x /\ x < y /\ y < z /\ z < a
                           /\ room'.log[x].key = <<"dead", b, 1>>
                           /\ room'.log[y].key = <<"dedup", b, 1>>
                           /\ room'.log[z].key = <<"recovered", b, 1>>
    BY DEF ToldInOrder
  <1>2. \A key : At(key)' = Places(room', key)
    BY DEF At, Places
  <1>3. ASSUME NEW i \in DOMAIN room'.log, NEW key, room'.log[i].key = key
        PROVE  Cardinality(At(key)') = 1 /\ Oldest(At(key)') = i
    BY <1>2, <1>3, OnePlace
  <1>4. CASE Chaos(b)
    <2>1. PICK x \in DOMAIN room'.log, y \in DOMAIN room'.log, z \in DOMAIN room'.log :
            /\ d < x /\ x < y /\ y < z /\ z < a
            /\ room'.log[x].key = <<"dead", b, 1>>
            /\ room'.log[y].key = <<"dedup", b, 1>>
            /\ room'.log[z].key = <<"recovered", b, 1>>
      BY <1>1, <1>4
    <2>2. /\ Cardinality(At(<<"draft", b, 1>>)') = 1 /\ Oldest(At(<<"draft", b, 1>>)') = d
          /\ Cardinality(At(<<"dead", b, 1>>)') = 1 /\ Oldest(At(<<"dead", b, 1>>)') = x
          /\ Cardinality(At(<<"dedup", b, 1>>)') = 1 /\ Oldest(At(<<"dedup", b, 1>>)') = y
          /\ Cardinality(At(<<"recovered", b, 1>>)') = 1
          /\ Oldest(At(<<"recovered", b, 1>>)') = z
          /\ Oldest(At(<<"ack", b, 1>>)') = a
      BY <1>1, <1>3, <2>1
    <2>3. scenario'.mode = "chaos" /\ b = "sec"
      BY <1>4 DEF Chaos
    <2>4. QED
      BY <2>1, <2>2, <2>3 DEF RecoveryOf
  <1>5. CASE ~Chaos(b)
    <2>1. ~(scenario'.mode = "chaos" /\ b = "sec")
      BY <1>5 DEF Chaos
    <2>2. At(<<"dead", b, 1>>)' = {}
      BY <1>5 DEF At, Posted
    <2>3. QED
      BY <2>1, <2>2 DEF RecoveryOf
  <1>6. QED
    BY <1>4, <1>5

\* A turn that was not acknowledged promises nothing yet.
LEMMA NoRecovery ==
  ASSUME NEW b \in Startup, Sound(room'), ~Posted(room', <<"ack", b, 1>>)
  PROVE  RecoveryOf(b)'
  <1>1. At(<<"ack", b, 1>>)' = Places(room', <<"ack", b, 1>>)
    BY DEF At, Places
  <1>2. ~(Cardinality(At(<<"ack", b, 1>>)') = 1)
    BY <1>1, PlacedOnce
  <1>3. QED
    BY <1>2 DEF RecoveryOf
-----------------------------------------------------------------------------
\* Whose turn it is: its mention is there, and nothing was said of it.
LEMMA TurnStarts ==
  ASSUME IInv, RoomIInv, ~CutShort, step = "drafting", NEW b, b = Head(todo)
  PROVE  /\ b \in Startup /\ b \in Branches /\ Undrafted(b)
         /\ Sound(room) /\ room.fault = "none" /\ lag \in Nat
         /\ Inbox(room, b) # {}
         /\ \A i \in Inbox(room, "warden") :
              i = Len(room.log) /\ room.log[i].key[1] # "draft"
         /\ \A topic \in TurnTopics : ~Posted(room, <<topic, b, 1>>)
  <1>1. FloorTypeOK /\ TodoOK /\ todo # <<>>
    BY IInvParts DEF TodoOK, Loops
  <1>2. b \in Branches /\ InTodo(b) /\ b \in Drafters
    BY <1>1, HeadFacts, VisitsAre
  <1>3. b \in Startup /\ Undrafted(b)
    BY <1>2, Names DEF Drafters, Undrafted
  <1>4. Sound(room) /\ room.fault = "none" /\ lag \in Nat /\ InboxOK /\ TopicsOK
    BY DEF RoomIInv, OptionsOK
  <1>5. ASSUME NEW topic \in TurnTopics, Posted(room, <<topic, b, 1>>) PROVE FALSE
    <2>1. PICK i \in DOMAIN room.log : room.log[i].key = <<topic, b, 1>>
      BY <1>5 DEF Posted
    <2>2. Timely(room.log[i].key)
      BY <1>4 DEF TopicsOK
    <2>3. QED
      BY <1>3, <2>1, <2>2 DEF Timely
  <1>6. QED
    BY <1>2, <1>3, <1>4, <1>5 DEF InboxOK

\* The turn of a drafter that is served.
LEMMA TurnServed ==
  ASSUME IInv, RoomIInv, ~CutShort, step = "drafting", NEW b, b = Head(todo),
         NEW s, s = DraftMessages(b)
  PROVE  \/ TurnWritten(room, s, b)
         \/ /\ s.fault = "starved" /\ lag >= IDLE_BREAKS
            /\ \E M : Grows(Starve(room), s, M) /\ \A m \in M : OwnKey(b, m.key)
  <1>1. /\ b \in Startup /\ Sound(room) /\ room.fault = "none" /\ lag \in Nat
        /\ Inbox(room, b) # {}
        /\ \A i \in Inbox(room, "warden") :
             i = Len(room.log) /\ room.log[i].key[1] # "draft"
        /\ \A topic \in TurnTopics : ~Posted(room, <<topic, b, 1>>)
    BY TurnStarts
  <1>2. PICK turned : turned = DrafterTurn(room, b)
    OBVIOUS
  <1>3. PICK observed : observed = Observe(turned, b)
    OBVIOUS
  <1>4. s = IF turned.fault # "none" THEN turned
            ELSE IF observed.fault # "none" THEN observed ELSE Challenged(observed, b)
    BY <1>2, <1>3 DEF DraftMessages
  <1>5. Sound(turned) /\ (TurnGoes(room, turned, b) \/ TurnStarves(room, turned, b))
    BY <1>1, <1>2, DrafterTurnEnds
  <1>6. CASE TurnStarves(room, turned, b)
    <2>1. s = turned /\ s.fault = "starved"
      BY <1>4, <1>6 DEF TurnStarves
    <2>2. lag >= IDLE_BREAKS
      BY <1>1, <1>6 DEF TurnStarves, MAX_LOOPS, IDLE_BREAKS
    <2>3. QED
      BY <1>6, <2>1, <2>2 DEF TurnStarves
  <1>7. CASE TurnGoes(room, turned, b)
    <2>1. turned.fault = "none"
      BY <1>1, <1>7 DEF TurnGoes, Grows
    <2>2. Acknowledges(turned, observed, b) \/ Overlooks(turned, observed)
      BY <1>1, <1>3, <1>7, ObserveEnds
    <2>3. CASE Acknowledges(turned, observed, b)
      <3>1. observed.fault = "none"
        BY <2>1, <2>3 DEF Acknowledges, Grows
      <3>2. s = Challenged(observed, b)
        BY <1>4, <2>1, <3>1
      <3>3. ~Posted(room, <<"ack", b, 1>>)
        BY <1>1 DEF TurnTopics
      <3>4. QED
        BY <1>1, <1>7, <2>3, <3>2, <3>3, TurnIsWritten
    <2>4. CASE Overlooks(turned, observed)
      <3>1. /\ observed.fault = "starved" /\ lag >= IDLE_BREAKS
            /\ observed.log = turned.log /\ Sound(observed)
        BY <2>4 DEF Overlooks
      <3>2. s = observed
        BY <1>4, <2>1, <3>1
      <3>3. PICK M : Grows(room, turned, M) /\ \A m \in M : OwnKey(b, m.key)
        BY <1>7 DEF TurnGoes
      <3>4. Grows(Starve(room), Starve(turned), M)
        BY <1>1, <3>3, StarvedGrows
      <3>5. Starve(turned).log = turned.log /\ Starve(turned).fault = "starved"
        BY <1>5, StarveFacts
      <3>6. Grows(Starve(room), observed, M)
        BY <3>1, <3>4, <3>5 DEF Grows, Posted
      <3>7. QED
        BY <3>1, <3>2, <3>3, <3>6
    <2>5. QED
      BY <2>2, <2>3, <2>4
  <1>8. QED
    BY <1>5, <1>6, <1>7

\* Once it has drafted a branch does not draft again.
LEMMA TurnIsOver ==
  ASSUME IInv, Drive, ~CutShort', step = "drafting", NEW b, b = Head(todo)
  PROVE  ~Undrafted(b)' /\ step' \in Early \ {"open", "materiality", "reportability"}
  <1>1. step' \in {"drafting", "recruit_uk", "recruit_nydfs", "cross_border", "diff"}
    BY StepIs
  <1>2. ~Undrafted(b)'
    <2>1. CASE step' = "drafting"
      <3>1. ~InTodo(b)'
        BY <2>1, DraftingShrinks
      <3>2. QED
        BY <2>1, <3>1 DEF Undrafted
    <2>2. CASE step' # "drafting"
      BY <1>1, <2>2 DEF Undrafted
    <2>3. QED
      BY <2>1, <2>2
  <1>3. QED
    BY <1>1, <1>2 DEF Early, Joining

LEMMA TurnKeyIs ==
  ASSUME NEW b, NEW m, TurnMessage(b, m)
  PROVE  \E topic \in {"draft", "dead", "dedup", "recovered", "ack", "challenge",
                       "challenge-reply"} : m.key = <<topic, b, 1>>
  BY DEF TurnMessage, OwnKey, Objection, TurnTopics

LEMMA TurnMail ==
  ASSUME IInv, RoomIInv, Drive, ~CutShort', step = "drafting", scenario' = scenario,
         NEW b, b = Head(todo), NEW M, Grows(room, room', M),
         \A m \in M : TurnMessage(b, m),
         b # "nis2" => room'.marked["nis2"] = room.marked["nis2"],
         ~Chaos(b) => /\ \A m \in M : m.key[1] \notin {"dead", "dedup", "recovered"}
                      /\ room'.marked[b] \subseteq room.marked[b] \cup Inbox(room, b),
         \E m \in M : m.key = <<"ack", b, 1>>
  PROVE  MailOK'
  <1>1. /\ ~CutShort /\ b \in Startup /\ Undrafted(b) /\ Sound(room) /\ MailOK
        /\ \A topic \in TurnTopics : ~Posted(room, <<topic, b, 1>>)
        /\ ~Undrafted(b)' /\ step' \in Early \ {"open", "materiality", "reportability"}
    <2>1. ~CutShort
      BY StepIs
    <2>2. QED
      BY <2>1, TurnStarts, TurnIsOver DEF RoomIInv
  <1>2. /\ step' # "concur" /\ "nis2" \in Agents /\ "nis2" \notin {"challenger", "warden"}
    BY <1>1, Names DEF Early, Joining
  <1>3. CASE ~Amends
    BY <1>3, NoneConcurs DEF Amends
  <1>4. CASE Amends
    <2>1. ~Chaos(b)
      BY <1>4 DEF Amends, Chaos
    <2>2. ASSUME NEW m \in M, "nis2" \in m.to
          PROVE  /\ b = "nis2"
                 /\ m.key = ToNis2("ack") \/ m.key = ToNis2("challenge")
      <3>1. TurnMessage(b, m) /\ m.key[1] \notin {"dead", "dedup", "recovered"}
        BY <2>1
      <3>2. \/ m.key = <<"ack", b, 1>> /\ m.to = {b}
            \/ m.key = <<"challenge", b, 1>> /\ m.to = {b}
        <4>1. ~(OwnKey(b, m.key) /\ m.key # <<"draft", b, 1>>)
          BY <3>1 DEF OwnKey, TurnTopics
        <4>2. QED
          BY <1>2, <2>2, <3>1, <4>1 DEF TurnMessage, Objection
      <3>3. QED
        BY <2>2, <3>2 DEF ToNis2
    <2>3. ASSUME NEW m \in M, "nis2" \in m.to
          PROVE \/ Due(m.key)' \/ m.key = All("factrecord")
                \/ m.key = ToNis2("challenge") /\ ~Undrafted("nis2")'
      <3>1. PICK key : key = m.key
        OBVIOUS
      <3>2. b = "nis2" /\ (key = ToNis2("ack") \/ key = ToNis2("challenge"))
        BY <2>2, <2>3, <3>1
      <3>3. ~Undrafted("nis2")'
        BY <1>1, <3>2
      <3>4. key = ToNis2("ack") => Due(key)'
        BY <3>3 DEF Due, ToNis2
      <3>5. QED
        BY <3>1, <3>2, <3>3, <3>4 DEF Due
    <2>4. ASSUME NEW i \in room'.marked["nis2"], i \notin room.marked["nis2"]
          PROVE  i \in DOMAIN room.log /\ room.log[i].key = All("factrecord")
      <3>1. b = "nis2" /\ i \in Inbox(room, "nis2")
        BY <2>1, <2>4
      <3>2. i \in DOMAIN room.log /\ "nis2" \in room.log[i].to
        BY <3>1 DEF Inbox
      <3>3. step \in BeforeAmend
        BY DEF BeforeAmend, Early, Joining
      <3>4. PICK key : key = room.log[i].key
        OBVIOUS
      <3>5. \/ Due(key) \/ key = All("factrecord")
            \/ key = ToNis2("challenge") /\ ~Undrafted("nis2")
        BY <1>1, <1>4, <3>2, <3>3, <3>4 DEF MailOK
      <3>6. ~Due(key)
        BY <1>1, <3>1 DEF Due, Early, Joining, BeforeAmend
      <3>7. QED
        BY <1>1, <3>1, <3>2, <3>4, <3>5, <3>6
    <2>5. ASSUME NEW key \in Dues, Due(key)', ~Due(key)
          PROVE  /\ ~Posted(room, key)
                 /\ \E m \in M : m.key = key
                 /\ \A m \in M : m.key = key => "nis2" \in m.to
      <3>1. b = "nis2"
        BY <2>5, DueOfOthers
      <3>2. key = <<"ack", b, 1>>
        BY <1>1, <2>5, <3>1 DEF Due, BeforeAmend, ToNis2
      <3>3. ~Posted(room, key)
        BY <1>1, <3>2 DEF TurnTopics
      <3>4. ASSUME NEW m \in M, m.key = key PROVE m.to = {b}
        BY <3>2, <3>4 DEF TurnMessage, OwnKey, Objection
      <3>5. QED
        BY <3>1, <3>2, <3>3, <3>4
    <2>6. \A i \in room'.marked["nis2"] : \/ i \in room.marked["nis2"]
                                          \/ /\ i \in DOMAIN room.log
                                             /\ room.log[i].key = All("factrecord")
      BY <2>4
    <2>7. \A key \in Dues : Due(key)' => \/ Due(key)
                                         \/ /\ ~Posted(room, key)
                                            /\ \E m \in M : m.key = key
                                            /\ \A m \in M : m.key = key => "nis2" \in m.to
      BY <2>5
    <2>8. \A m \in M : "nis2" \in m.to =>
                \/ Due(m.key)' \/ m.key = All("factrecord")
                \/ m.key = ToNis2("challenge") /\ ~Undrafted("nis2")'
      BY <2>3
    <2>9. QED
      BY <1>1, <1>2, <2>6, <2>7, <2>8, MailStays
  <1>5. QED
    BY <1>3, <1>4

LEMMA DraftRoom ==
  ASSUME IInv, RoomIInv, Draft, Hears(DraftMessages(Head(todo))), ~CutShort'
  PROVE  RoomIInv'
  <1>1. Drive /\ step = "drafting" /\ ~CutShort
    <2>1. Drive /\ step = "drafting"
      BY DEF Drive, Draft
    <2>2. QED
      BY <2>1, StepIs
  <1>2. PICK b : b = Head(todo)
    OBVIOUS
  <1>3. /\ b \in Startup /\ b \in Branches /\ Undrafted(b)
        /\ Sound(room) /\ room.fault = "none" /\ lag \in Nat
        /\ \A topic \in TurnTopics : ~Posted(room, <<topic, b, 1>>)
    BY <1>1, <1>2, TurnStarts
  <1>4. /\ ~Undrafted(b)' /\ step' \in Early \ {"open", "materiality", "reportability"}
    BY <1>1, <1>2, TurnIsOver
  <1>5. /\ room' = DraftMessages(b) /\ room'.fault # "starved" /\ UNCHANGED options
        /\ scenario' = scenario
    BY <1>1, <1>2, DriveFrame DEF Hears
  <1>6. TurnWritten(room, room', b)
    BY <1>1, <1>2, <1>5, TurnServed
  <1>7. PICK M :
    /\ Grows(room, room', M) /\ \A m \in M : TurnMessage(b, m)
    /\ \A a \in Agents \ {b, "warden"} : room'.marked[a] = room.marked[a]
    /\ ~Chaos(b) => /\ \A m \in M : m.key[1] \notin {"dead", "dedup", "recovered"}
                    /\ room'.marked[b] \subseteq room.marked[b] \cup Inbox(room, b)
    /\ \A i \in Inbox(room', "warden") :
         i = Len(room'.log) /\ room'.log[i].key[1] # "draft"
    /\ ToldInOrder(room, room', b)
    BY <1>6 DEF TurnWritten
  <1>8. Sound(room')
    BY <1>7 DEF Grows
  <1>9. PICK d \in DOMAIN room'.log, a \in DOMAIN room'.log :
          /\ Len(room.log) < d /\ d < a
          /\ room'.log[d].key = <<"draft", b, 1>> /\ room'.log[a].key = <<"ack", b, 1>>
    BY <1>7 DEF ToldInOrder
  <1>10. /\ \E m \in M : m.key = <<"draft", b, 1>>
         /\ \E m \in M : m.key = <<"ack", b, 1>>
    <2>1. d \notin DOMAIN room.log /\ a \notin DOMAIN room.log
      BY <1>3, <1>7, <1>9, GrownLog
    <2>2. room'.log[d] \in M /\ room'.log[a] \in M
      BY <1>3, <1>7, <1>9, <2>1, GrownLog
    <2>3. QED
      BY <1>9, <2>2
  <1>11. \A m \in M : Timely(m.key)'
    <2>1. ASSUME NEW m \in M PROVE Timely(m.key)'
      <3>1. PICK topic \in {"draft", "dead", "dedup", "recovered", "ack", "challenge",
                            "challenge-reply"} : m.key = <<topic, b, 1>>
        BY <1>7, <2>1, TurnKeyIs
      <3>2. PICK key : key = <<topic, b, 1>>
        OBVIOUS
      <3>3. Before(key)' = {"open"}
        BY <3>2 DEF Before, All
      <3>4. key[1] # "released" /\ key[2] = b
        BY <3>2
      <3>5. Timely(key)'
        BY <1>4, <3>3, <3>4 DEF Timely
      <3>6. QED
        BY <3>1, <3>2, <3>5 DEF Timely
    <2>2. QED
      BY <2>1
  <1>12. RecoveryIsTold'
    <2>1. ASSUME NEW c \in Startup \ {b}, NEW topic \in TurnTopics
          PROVE  Places(room', <<topic, c, 1>>) = Places(room, <<topic, c, 1>>)
      <3>1. PICK key : key = <<topic, c, 1>>
        OBVIOUS
      <3>2. \A m \in M : m.key # key
        <4>1. ASSUME NEW m \in M PROVE m.key # key
          <5>1. PICK t : m.key = <<t, b, 1>>
            BY <1>7, <4>1, TurnKeyIs
          <5>2. QED
            BY <2>1, <3>1, <5>1
        <4>2. QED
          BY <4>1
      <3>3. QED
        BY <1>3, <1>7, <3>1, <3>2, OldPlaces
    <2>2. ~Chaos(b) => ~Posted(room', <<"dead", b, 1>>)
      <3>1. ASSUME ~Chaos(b) PROVE ~Posted(room', <<"dead", b, 1>>)
        <4>1. PICK key : key = <<"dead", b, 1>>
          OBVIOUS
        <4>2. \A m \in M : m.key # key
          BY <1>7, <3>1, <4>1
        <4>3. ~Posted(room, key)
          BY <1>3, <4>1 DEF TurnTopics
        <4>4. QED
          BY <1>3, <1>7, <4>1, <4>2, <4>3, OldPlaces
      <3>2. QED
        BY <3>1
    <2>3. RecoveryOf(b)'
      BY <1>3, <1>5, <1>7, <1>8, <2>2, TurnRecovery
    <2>4. RecoveryIsTold
      BY DEF RoomIInv
    <2>5. QED
      BY <1>3, <1>5, <2>1, <2>3, <2>4, RecoveryOfOthers
  <1>13. \A c \in Branches :
           claims'[c] # NoClaims /\ (c = AffectedParty => apClient) =>
             \/ claims[c] # NoClaims /\ DraftNumber(c)' = DraftNumber(c)
             \/ \E m \in M : m.key = <<"draft", c, DraftNumber(c)'>>
    <2>1. claims' = [claims EXCEPT ![b] = ClaimFactsFor(b)]
      BY <1>2 DEF Draft
    <2>2. claims \in [Branches -> Claims \cup {NoClaims}]
      BY <1>1, IInvParts DEF FloorTypeOK
    <2>3. \A c : ~Cured(c) /\ ~Cured(c)'
      BY <1>1, <1>4 DEF Cured, Ending, Early, Joining
    <2>4. ASSUME NEW c \in Branches \ {b}, claims'[c] # NoClaims
          PROVE  claims[c] # NoClaims /\ DraftNumber(c)' = DraftNumber(c)
      <3>1. claims'[c] = claims[c]
        BY <2>1, <2>2
      <3>2. QED
        BY <2>3, <2>4, <3>1 DEF DraftNumber
    <2>5. DraftNumber(b)' = 1
      <3>1. claims'[b].records = "old"
        BY <1>3, <2>1, <2>2 DEF ClaimFactsFor, CanonicalFacts
      <3>2. QED
        BY <2>3, <3>1 DEF DraftNumber
    <2>6. \E m \in M : m.key = <<"draft", b, DraftNumber(b)'>>
      BY <1>10, <2>5
    <2>7. QED
      BY <2>4, <2>6
  <1>14. step' # "release" /\ filed' = filed /\ step # "release"
    BY <1>1, <1>4 DEF Draft, lockVars, Early, Joining
  <1>15. InboxOK'
    <2>1. step' \notin {"materiality", "reportability", "propose", "cure"}
      BY <1>4 DEF Early, Joining
    <2>2. ASSUME step' = "drafting", NEW c \in Startup, Undrafted(c)'
          PROVE  Inbox(room', c) # {}
      <3>1. c # b /\ Undrafted(c)
        BY <1>1, <1>4, <2>2, Forward
      <3>2. Inbox(room, c) # {}
        BY <1>1, <3>1 DEF RoomIInv, InboxOK
      <3>3. room'.marked[c] = room.marked[c]
        BY <1>7, <3>1, Names
      <3>4. QED
        BY <1>3, <1>7, <3>2, <3>3, InboxStays
    <2>3. \A i \in Inbox(room', "warden") :
            i = Len(room'.log) /\ room'.log[i].key[1] # "draft"
      BY <1>7
    <2>4. \A a0 : Inbox(room, a0)' = Inbox(room', a0)
      BY DEF Inbox
    <2>5. QED
      BY <2>1, <2>2, <2>3, <2>4 DEF InboxOK
  <1>16. MailOK'
    <2>1. b # "nis2" => room'.marked["nis2"] = room.marked["nis2"]
      BY <1>7, Names
    <2>2. QED
      BY <1>1, <1>2, <1>5, <1>7, <1>10, <2>1, TurnMail
  <1>17. QED
    BY <1>1, <1>5, <1>7, <1>11, <1>12, <1>13, <1>14, <1>15, <1>16, StepKeepsTheRest
-----------------------------------------------------------------------------
(***************************************************************************)
(* What is swept aside before the proposal.                                *)
(***************************************************************************)
LEMMA SixAreSix ==
  ASSUME NEW a, NEW b, NEW c, NEW d, NEW e, NEW f,
         b # a, c \notin {a, b}, d \notin {a, b, c}, e \notin {a, b, c, d},
         f \notin {a, b, c, d, e}
  PROVE  IsFiniteSet({a, b, c, d, e, f}) /\ Cardinality({a, b, c, d, e, f}) = 6
  <1>1. IsFiniteSet({a}) /\ Cardinality({a}) = 1
    BY FS_Singleton
  <1>2. IsFiniteSet({a} \cup {b}) /\ Cardinality({a} \cup {b}) = 2
    BY <1>1, FS_AddElement
  <1>3. /\ IsFiniteSet({a} \cup {b} \cup {c})
        /\ Cardinality({a} \cup {b} \cup {c}) = 3
    BY <1>2, FS_AddElement
  <1>4. /\ IsFiniteSet({a} \cup {b} \cup {c} \cup {d})
        /\ Cardinality({a} \cup {b} \cup {c} \cup {d}) = 4
    BY <1>3, FS_AddElement
  <1>5. /\ IsFiniteSet({a} \cup {b} \cup {c} \cup {d} \cup {e})
        /\ Cardinality({a} \cup {b} \cup {c} \cup {d} \cup {e}) = 5
    BY <1>4, FS_AddElement
  <1>6. /\ IsFiniteSet({a} \cup {b} \cup {c} \cup {d} \cup {e} \cup {f})
        /\ Cardinality({a} \cup {b} \cup {c} \cup {d} \cup {e} \cup {f}) = 6
    BY <1>5, FS_AddElement
  <1>7. {a} \cup {b} \cup {c} \cup {d} \cup {e} \cup {f} = {a, b, c, d, e, f}
    OBVIOUS
  <1>8. QED
    BY <1>6, <1>7

LEMMA TwoMore ==
  ASSUME NEW S, IsFiniteSet(S), Cardinality(S) = 6, NEW x, NEW y,
         NEW T \in SUBSET (S \cup {x, y})
  PROVE  IsFiniteSet(T) /\ Cardinality(T) \in Nat /\ Cardinality(T) <= 8
  <1>1. IsFiniteSet(S \cup {x}) /\ Cardinality(S \cup {x}) \in {6, 7}
    BY FS_AddElement
  <1>2. IsFiniteSet((S \cup {x}) \cup {y}) /\ Cardinality((S \cup {x}) \cup {y}) \in {6, 7, 8}
    BY <1>1, FS_AddElement
  <1>3. T \subseteq (S \cup {x}) \cup {y}
    OBVIOUS
  <1>4. IsFiniteSet(T) /\ Cardinality(T) <= Cardinality((S \cup {x}) \cup {y})
    BY <1>2, <1>3, FS_Subset
  <1>5. Cardinality(T) \in Nat
    BY <1>4, FS_CardinalityType
  <1>6. QED
    BY <1>2, <1>4, <1>5

Swept == { i \in Inbox(room, "nis2") : i < Len(room.log) }

\* At least six messages are swept aside, at most eight, and then there is the
\* proposal.
LEMMA SweepFacts ==
  ASSUME MailOK, Amends, step = "concur", Sound(room)
  PROVE  /\ IsFiniteSet(Swept) /\ Cardinality(Swept) \in Nat
         /\ 6 <= Cardinality(Swept) /\ Cardinality(Swept) <= 8
         /\ { i \in Inbox(room, "nis2") : IsEnvelope(room.log[i]) } = {Len(room.log)}
         /\ Inbox(room, "nis2") \subseteq Swept \cup {Len(room.log)}
  <1> DEFINE last == Len(room.log)
  <1>1. /\ Len(room.log) \in Nat /\ DOMAIN room.log = 1..last
        /\ \A i \in DOMAIN room.log : room.log[i] \in Messages
    BY LogFacts
  <1>2. step \in BeforeAmend \cup {"propose", "concur"}
    OBVIOUS
  <1>3. /\ \A i \in DOMAIN room.log : "nis2" \in room.log[i].to =>
             \/ Due(room.log[i].key) \/ room.log[i].key = All("factrecord")
             \/ room.log[i].key = ToNis2("challenge") \/ room.log[i].key = TheProposal
        /\ \A i \in room.marked["nis2"] : room.log[i].key = All("factrecord")
        /\ \A key \in Dues : Due(key) =>
             \E i \in DOMAIN room.log : room.log[i].key = key /\ "nis2" \in room.log[i].to
        /\ Asked
    BY <1>2 DEF MailOK
  <1>4. /\ last \in DOMAIN room.log /\ room.log[last].key = TheProposal
        /\ "nis2" \in room.log[last].to
    BY <1>1, <1>3 DEF Asked
  <1>5. \A i, j \in DOMAIN room.log : room.log[i].key = room.log[j].key => i = j
    BY DEF Sound
  <1>6. ASSUME NEW key, key \in Dues
        PROVE  \E i \in Swept : room.log[i].key = key
    <2>1. Due(key)
      BY <1>6 DEF Due, Dues, Undrafted, Early, Joining, BeforeAmend
    <2>2. PICK i \in DOMAIN room.log : room.log[i].key = key /\ "nis2" \in room.log[i].to
      BY <1>3, <1>6, <2>1
    <2>3. key # All("factrecord") /\ key # TheProposal
      BY <1>6 DEF Dues, All, TheProposal, ToNis2
    <2>4. i \notin room.marked["nis2"] /\ i # last
      BY <1>3, <1>4, <2>2, <2>3
    <2>5. i < last
      BY <1>1, <2>2, <2>4
    <2>6. QED
      BY <2>2, <2>4, <2>5 DEF Swept, Inbox
  <1>7. /\ ToNis2("ack") \in Dues /\ All("diff-green") \in Dues /\ All("key1") \in Dues
        /\ All("released") \in Dues /\ All("amend") \in Dues /\ All("amend-block") \in Dues
    BY DEF Dues
  <1>8. PICK a \in Swept : room.log[a].key = ToNis2("ack")
    BY <1>6, <1>7
  <1>9. PICK b \in Swept : room.log[b].key = All("diff-green")
    BY <1>6, <1>7
  <1>10. PICK c \in Swept : room.log[c].key = All("key1")
    BY <1>6, <1>7
  <1>11. PICK d \in Swept : room.log[d].key = All("released")
    BY <1>6, <1>7
  <1>12. PICK e \in Swept : room.log[e].key = All("amend")
    BY <1>6, <1>7
  <1>13. PICK f \in Swept : room.log[f].key = All("amend-block")
    BY <1>6, <1>7
  <1>14. IsFiniteSet({a, b, c, d, e, f}) /\ Cardinality({a, b, c, d, e, f}) = 6
    <2>1. /\ b # a /\ c \notin {a, b} /\ d \notin {a, b, c} /\ e \notin {a, b, c, d}
          /\ f \notin {a, b, c, d, e}
      BY <1>8, <1>9, <1>10, <1>11, <1>12, <1>13 DEF All, ToNis2
    <2>2. QED
      BY <2>1, SixAreSix
  <1>15. PICK x : x = CHOOSE i \in DOMAIN room.log : room.log[i].key = All("factrecord")
    OBVIOUS
  <1>16. PICK y : y = CHOOSE i \in DOMAIN room.log : room.log[i].key = ToNis2("challenge")
    OBVIOUS
  <1>17. ASSUME NEW i \in Inbox(room, "nis2")
         PROVE  /\ i = last \/ i \in Swept
                /\ i \in Swept => i \in {a, b, c, d, e, f} \cup {x, y}
                /\ IsEnvelope(room.log[i]) <=> i = last
    <2>1. i \in DOMAIN room.log /\ "nis2" \in room.log[i].to
      BY DEF Inbox
    <2>2. i = last \/ i \in Swept
      BY <1>1, <2>1 DEF Swept
    <2>3. PICK key : key = room.log[i].key
      OBVIOUS
    <2>4. \/ key = ToNis2("ack") \/ key = All("diff-green") \/ key = All("key1")
          \/ key = All("released") \/ key = All("amend") \/ key = All("amend-block")
          \/ key = All("factrecord") \/ key = ToNis2("challenge") \/ key = TheProposal
      <3>1. \/ Due(key) \/ key = All("factrecord")
            \/ key = ToNis2("challenge") \/ key = TheProposal
        BY <1>3, <2>1, <2>3
      <3>2. QED
        BY <3>1 DEF Due
    <2>5. {a, b, c, d, e, f} \subseteq DOMAIN room.log
      BY <1>8, <1>9, <1>10, <1>11, <1>12, <1>13 DEF Swept, Inbox
    <2>6. key = All("factrecord") => i = x
      <3>1. ASSUME key = All("factrecord") PROVE i = x
        <4>1. x \in DOMAIN room.log /\ room.log[x].key = All("factrecord")
          BY <1>15, <2>1, <2>3, <3>1
        <4>2. QED
          BY <1>5, <2>1, <2>3, <3>1, <4>1
      <3>2. QED
        BY <3>1
    <2>7. key = ToNis2("challenge") => i = y
      <3>1. ASSUME key = ToNis2("challenge") PROVE i = y
        <4>1. y \in DOMAIN room.log /\ room.log[y].key = ToNis2("challenge")
          BY <1>16, <2>1, <2>3, <3>1
        <4>2. QED
          BY <1>5, <2>1, <2>3, <3>1, <4>1
      <3>2. QED
        BY <3>1
    <2>8. key = TheProposal <=> i = last
      BY <1>4, <1>5, <2>1, <2>3
    <2>9. i \in Swept => i # last
      BY <1>1 DEF Swept
    <2>10. i \in Swept => i \in {a, b, c, d, e, f} \cup {x, y}
      BY <1>5, <1>8, <1>9, <1>10, <1>11, <1>12, <1>13, <2>1, <2>3, <2>4, <2>5, <2>6,
         <2>7, <2>8, <2>9
    <2>11. IsEnvelope(room.log[i]) <=> key = TheProposal
      <3>1. key[1] \in {"propose", "concur"} <=> key = TheProposal
        BY <2>4 DEF ToNis2, All, TheProposal
      <3>2. QED
        BY <2>3, <3>1 DEF IsEnvelope
    <2>12. QED
      BY <2>2, <2>8, <2>10, <2>11
  <1>18. last \in Inbox(room, "nis2")
    <2>1. last \notin room.marked["nis2"]
      BY <1>3, <1>4 DEF All, TheProposal
    <2>2. QED
      BY <1>4, <2>1 DEF Inbox
  <1>19. Swept \in SUBSET ({a, b, c, d, e, f} \cup {x, y})
    BY <1>17 DEF Swept
  <1>20. IsFiniteSet(Swept) /\ Cardinality(Swept) \in Nat /\ Cardinality(Swept) <= 8
    BY <1>14, <1>19, TwoMore
  <1>21. 6 <= Cardinality(Swept)
    <2>1. {a, b, c, d, e, f} \in SUBSET Swept
      BY <1>8, <1>9, <1>10, <1>11, <1>12, <1>13
    <2>2. Cardinality({a, b, c, d, e, f}) <= Cardinality(Swept)
      BY <1>20, <2>1, FS_Subset
    <2>3. QED
      BY <1>14, <2>2
  <1>22. { i \in Inbox(room, "nis2") : IsEnvelope(room.log[i]) } = {last}
    BY <1>17, <1>18
  <1>23. Inbox(room, "nis2") \subseteq Swept \cup {last}
    BY <1>17
  <1>24. QED
    BY <1>20, <1>21, <1>22, <1>23
-----------------------------------------------------------------------------
(***************************************************************************)
(* Where the driver gives up.                                              *)
(***************************************************************************)
\* A drain came back empty: a message took six polls to show.
Dry(s) == s.fault = "starved" /\ lag >= IDLE_BREAKS /\ s.log = room.log /\ Sound(s)

LEMMA AnswerDries ==
  ASSUME Sound(room), room.fault = "none", lag \in Nat, NEW b \in Agents,
         Inbox(room, b) # {}, NEW s, s = Answer(room, b), s.fault # "none"
  PROVE  Dry(s)
  <1>1. PICK i \in 1..Len(room.log) :
          s = Mark(room, b, {i}) \/ (s = Starve(room) /\ lag >= MAX_LOOPS)
    BY AnswerFacts
  <1>2. s # Mark(room, b, {i})
    BY MarkFacts
  <1>3. s = Starve(room) /\ lag >= IDLE_BREAKS
    BY <1>1, <1>2 DEF MAX_LOOPS, IDLE_BREAKS
  <1>4. QED
    BY <1>3, StarveFacts DEF Dry

LEMMA EnvelopeDries ==
  ASSUME Sound(room), room.fault = "none", lag \in Nat, MailOK, Amends, step = "concur",
         NEW s, s = AnswerEnvelope(room, "nis2")
  PROVE  Sound(s) /\ (s.fault = "none" \/ Dry(s))
  <1> DEFINE last == Len(room.log)
  <1>1. /\ Cardinality(Swept) \in Nat /\ 6 <= Cardinality(Swept)
        /\ Cardinality(Swept) <= 8
        /\ { i \in Inbox(room, "nis2") : IsEnvelope(room.log[i]) } = {last}
        /\ Inbox(room, "nis2") \subseteq Swept \cup {last}
    BY SweepFacts
  <1>2. last \in Inbox(room, "nis2") /\ last \in Nat /\ DOMAIN room.log = 1..last
    BY <1>1, LogFacts
  <1>3. Oldest({last}) = last
    <2>1. last <= last
      BY <1>2
    <2>2. QED
      BY <2>1 DEF Oldest
  <1>4. "nis2" \in Agents /\ Swept \in SUBSET (1..last)
    BY <1>2, Names DEF Swept, Inbox
  <1>5. PICK t : t = Mark(room, "nis2", Swept)
    OBVIOUS
  <1>6. /\ Sound(t) /\ t.log = room.log /\ t.fault = "none"
        /\ t.marked["nis2"] = room.marked["nis2"] \cup Swept
    <2>1. PICK S \in SUBSET (1..Len(room.log)) : S = Swept
      BY <1>4
    <2>2. t = Mark(room, "nis2", S)
      BY <1>5, <2>1
    <2>3. /\ Sound(t) /\ t.log = room.log /\ t.fault = room.fault
          /\ t.marked["nis2"] = room.marked["nis2"] \cup S
      BY <1>4, <2>2, MarkFacts
    <2>4. QED
      BY <2>1, <2>3
  <1>7. s = IF Cardinality(Swept) >= MAX_LOOPS \/ SeenAfter(room, last) > Cardinality(Swept)
              THEN Starve(t) ELSE Answer(t, "nis2")
    <2>1. { i \in Inbox(room, "nis2") : i < last } = Swept
      BY DEF Swept
    <2>2. {last} # {}
      OBVIOUS
    <2>3. QED
      BY <1>1, <1>3, <1>5, <2>1, <2>2 DEF AnswerEnvelope
  <1>8. ~(Cardinality(Swept) >= MAX_LOOPS)
    BY <1>1 DEF MAX_LOOPS
  <1>9. CASE SeenAfter(room, last) > Cardinality(Swept)
    <2>1. s = Starve(t)
      BY <1>7, <1>9
    <2>2. lag >= IDLE_BREAKS
      BY <1>1, <1>9 DEF SeenAfter, IDLE_BREAKS
    <2>3. QED
      BY <1>6, <2>1, <2>2, StarveFacts DEF Dry
  <1>10. CASE ~(SeenAfter(room, last) > Cardinality(Swept))
    <2>1. s = Answer(t, "nis2")
      BY <1>7, <1>8, <1>10
    <2>2. Inbox(t, "nis2") # {}
      <3>1. last \notin Swept /\ last \in DOMAIN room.log /\ "nis2" \in room.log[last].to
            /\ last \notin room.marked["nis2"]
        BY <1>2 DEF Swept, Inbox
      <3>2. last \in Inbox(t, "nis2")
        BY <1>6, <3>1 DEF Inbox
      <3>3. QED
        BY <3>2
    <2>3. PICK i \in 1..Len(t.log) :
            s = Mark(t, "nis2", {i}) \/ (s = Starve(t) /\ lag >= MAX_LOOPS)
      BY <1>4, <1>6, <2>1, <2>2, AnswerFacts
    <2>4. CASE s = Mark(t, "nis2", {i})
      BY <1>4, <1>6, <2>4, MarkFacts
    <2>5. CASE s = Starve(t) /\ lag >= MAX_LOOPS
      BY <1>6, <2>5, StarveFacts DEF Dry, MAX_LOOPS, IDLE_BREAKS
    <2>6. QED
      BY <2>3, <2>4, <2>5
  <1>11. QED
    BY <1>9, <1>10

\* Where the driver gives up in a drain of its own, nothing was posted.
LEMMA DrainDries ==
  ASSUME IInv, RoomIInv, ~CutShort, step # "drafting", Drained.fault = "starved"
  PROVE  Dry(Drained)
  <1>1. /\ Sound(room) /\ room.fault = "none" /\ lag \in Nat /\ InboxOK /\ MailOK
        /\ LoopOK
    BY IInvParts DEF RoomIInv, OptionsOK, Running
  <1>2. /\ "sec" \in Branches /\ "sec" \in Agents /\ "nis2" \in Branches
        /\ "nis2" \in Agents /\ {"propose", "concur", "draft"} \subseteq Topics
        /\ {"nis2"} \in SUBSET Agents /\ {"sec"} \in SUBSET Agents
        /\ {"warden"} \in SUBSET Agents /\ "sec" \notin {"nis2"} /\ "nis2" \notin {"sec"}
        /\ "sec" \notin {"warden"} /\ 1 \in Nat /\ 2 \in Nat
    BY Names DEF Topics
  <1>3. ASSUME NEW t, NEW key, NEW to, NEW about, NEW s, Tells(t, s, key, to, about),
               t.fault = "none"
        PROVE  s.fault = "none"
    BY <1>3 DEF Tells, Adds
  <1>4. CASE step = "propose"
    <2>1. PICK asked : asked = Answer(room, "sec")
      OBVIOUS
    <2>2. Drained = IF asked.fault # "none" THEN asked
                    ELSE Tell(asked, "propose", "sec", 1, "sec", {"nis2"})
      BY <1>4, <2>1 DEF Drained, ProposeMessages
    <2>3. Inbox(room, "sec") # {}
      BY <1>1, <1>4 DEF InboxOK
    <2>4. asked.fault # "none"
      <3>1. ASSUME asked.fault = "none" PROVE FALSE
        <4>1. Sound(asked)
          <5>1. Answered(room, "sec", asked)
            BY <1>1, <1>2, <2>1, <2>3, AnswerIs DEF Answered
          <5>2. QED
            BY <1>1, <1>2, <5>1, AnswerKeeps
        <4>2. Tells(asked, Tell(asked, "propose", "sec", 1, "sec", {"nis2"}),
                    <<"propose", "sec", 1>>, {"nis2"}, {"sec"})
          BY <1>2, <4>1, TellAdds
        <4>3. QED
          BY <1>3, <2>2, <3>1, <4>2
      <3>2. QED
        BY <3>1
    <2>5. QED
      BY <1>1, <1>2, <2>1, <2>2, <2>3, <2>4, AnswerDries
  <1>5. CASE step = "cure" /\ lock = "idle"
    <2>1. PICK asked : asked = Answer(room, "sec")
      OBVIOUS
    <2>2. Drained = IF asked.fault # "none" THEN asked
                    ELSE Tell(asked, "draft", "sec", 2, "sec", {"warden"})
      BY <1>5, <2>1 DEF Drained, CureMessages, DraftFrom
    <2>3. Inbox(room, "sec") # {}
      BY <1>1, <1>5 DEF InboxOK
    <2>4. asked.fault # "none"
      <3>1. ASSUME asked.fault = "none" PROVE FALSE
        <4>1. Sound(asked)
          <5>1. Answered(room, "sec", asked)
            BY <1>1, <1>2, <2>1, <2>3, AnswerIs DEF Answered
          <5>2. QED
            BY <1>1, <1>2, <5>1, AnswerKeeps
        <4>2. Tells(asked, Tell(asked, "draft", "sec", 2, "sec", {"warden"}),
                    <<"draft", "sec", 2>>, {"warden"}, {"sec"})
          BY <1>2, <4>1, TellAdds
        <4>3. QED
          BY <1>3, <2>2, <3>1, <4>2
      <3>2. QED
        BY <3>1
    <2>5. QED
      BY <1>1, <1>2, <2>1, <2>2, <2>3, <2>4, AnswerDries
  <1>6. CASE step = "concur"
    <2>1. PICK asked : asked = AnswerEnvelope(room, "nis2")
      OBVIOUS
    <2>2. Drained = IF asked.fault # "none" THEN asked
                    ELSE Tell(asked, "concur", "nis2", 1, "nis2", {"sec"})
      BY <1>6, <2>1 DEF Drained, ConcurMessages
    <2>3. Amends
      BY <1>1, <1>6 DEF LoopOK, Wanted
    <2>4. CASE asked.fault # "none"
      BY <1>1, <1>6, <2>1, <2>2, <2>3, <2>4, EnvelopeDries
    <2>5. CASE asked.fault = "none"
      <3>1. Sound(asked)
        BY <1>1, <1>6, <2>1, <2>3, EnvelopeDries
      <3>2. Tells(asked, Tell(asked, "concur", "nis2", 1, "nis2", {"sec"}),
                  <<"concur", "nis2", 1>>, {"sec"}, {"nis2"})
        BY <1>2, <3>1, TellAdds
      <3>3. QED
        BY <1>3, <2>2, <2>5, <3>2
    <2>6. QED
      BY <2>4, <2>5
  <1>7. CASE ~(step = "propose" \/ step = "concur" \/ (step = "cure" /\ lock = "idle"))
    <2>1. Drained = room
      BY <1>7 DEF Drained
    <2>2. QED
      BY <1>1, <2>1
  <1>8. QED
    BY <1>4, <1>5, <1>6, <1>7

LEMMA StopsRoom ==
  ASSUME RoomIInv, UNCHANGED options, CutShort', Sound(room'), RecoveryIsTold',
         TurnsAreServed'
  PROVE  RoomIInv'
  <1>1. OptionsOK'
    BY DEF RoomIInv, OptionsOK, options
  <1>2. SignoffIsOpen'
    BY DEF CutShort, SignoffIsOpen
  <1>3. QED
    BY <1>1, <1>2 DEF RoomIInv, Sound

\* What the room was told of the recovery stands where no message came.
LEMMA RecoveryStands ==
  ASSUME RecoveryIsTold, scenario' = scenario, room'.log = room.log
  PROVE  RecoveryIsTold'
  <1>1. \A key : At(key)' = At(key)
    BY DEF At
  <1>2. QED
    BY <1>1 DEF RecoveryIsTold

LEMMA GiveUpRoom ==
  ASSUME IInv, RoomIInv, GiveUp
  PROVE  RoomIInv'
  <1>1. /\ step \notin Finished /\ Drained.fault = "starved" /\ room' = Drained
        /\ step' = "raised" /\ scenario' = scenario /\ UNCHANGED options
    BY DEF GiveUp, Raise
  <1>2. ~CutShort /\ CutShort'
    BY <1>1 DEF CutShort, Finished
  <1>3. RecoveryIsTold
    BY DEF RoomIInv
  <1>4. ASSUME lag >= IDLE_BREAKS PROVE TurnsAreServed'
    BY <1>1, <1>4 DEF TurnsAreServed, options
  <1>5. CASE step # "drafting"
    <2>1. Dry(Drained)
      BY <1>1, <1>2, <1>5, DrainDries
    <2>2. Sound(room') /\ room'.log = room.log /\ lag >= IDLE_BREAKS
      BY <1>1, <2>1 DEF Dry
    <2>3. RecoveryIsTold'
      BY <1>1, <1>3, <2>2, RecoveryStands
    <2>4. QED
      BY <1>1, <1>2, <1>4, <2>2, <2>3, StopsRoom
  <1>6. CASE step = "drafting"
    <2>1. PICK b : b = Head(todo)
      OBVIOUS
    <2>2. /\ b \in Startup /\ Sound(room) /\ room.fault = "none"
          /\ \A topic \in TurnTopics : ~Posted(room, <<topic, b, 1>>)
      BY <1>2, <1>6, <2>1, TurnStarts
    <2>3. room' = DraftMessages(b)
      <3>1. Drained \in {room, DraftMessages(Head(todo))}
        BY <1>6 DEF Drained
      <3>2. Drained # room
        BY <1>1, <2>2
      <3>3. QED
        BY <1>1, <2>1, <3>1, <3>2
    <2>4. ~TurnWritten(room, room', b)
      BY <1>1, <2>2 DEF TurnWritten, Grows
    <2>5. PICK M : /\ Grows(Starve(room), room', M) /\ \A m \in M : OwnKey(b, m.key)
                   /\ lag >= IDLE_BREAKS
      BY <1>2, <1>6, <2>1, <2>3, <2>4, TurnServed
    <2>6. Sound(room') /\ Sound(Starve(room)) /\ Starve(room).log = room.log
      BY <2>2, <2>5, StarveFacts DEF Grows
    <2>7. ASSUME NEW key, \A m \in M : m.key # key
          PROVE  /\ Places(room', key) = Places(room, key)
                 /\ Posted(room', key) <=> Posted(room, key)
      <3>1. /\ Places(room', key) = Places(Starve(room), key)
            /\ Posted(room', key) <=> Posted(Starve(room), key)
        BY <2>5, <2>6, <2>7, OldPlaces
      <3>2. QED
        BY <2>6, <3>1 DEF Places, Posted
    <2>8. ASSUME NEW c \in Startup \ {b}, NEW topic \in TurnTopics
          PROVE  Places(room', <<topic, c, 1>>) = Places(room, <<topic, c, 1>>)
      <3>1. PICK key : key = <<topic, c, 1>>
        OBVIOUS
      <3>2. \A m \in M : m.key # key
        BY <2>5, <2>8, <3>1 DEF OwnKey
      <3>3. QED
        BY <2>7, <3>1, <3>2
    <2>9. RecoveryOf(b)'
      <3>1. PICK key : key = <<"ack", b, 1>>
        OBVIOUS
      <3>2. \A m \in M : m.key # key
        BY <2>5, <3>1 DEF OwnKey
      <3>3. ~Posted(room, key)
        BY <2>2, <3>1 DEF TurnTopics
      <3>4. ~Posted(room', <<"ack", b, 1>>)
        BY <2>7, <3>1, <3>2, <3>3
      <3>5. QED
        BY <2>2, <2>6, <3>4, NoRecovery
    <2>10. RecoveryIsTold'
      BY <1>1, <1>3, <2>2, <2>8, <2>9, RecoveryOfOthers
    <2>11. QED
      BY <1>1, <1>2, <1>4, <2>5, <2>6, <2>10, StopsRoom
  <1>7. QED
    BY <1>5, <1>6

\* A run that goes on has not stopped.
LEMMA DriveGoesOn ==
  ASSUME Drive
  PROVE  ~CutShort
  <1>1. CASE \/ Open \/ Materiality \/ Reportability \/ SkipSuppressed \/ Draft
             \/ Recruit \/ CrossBorderScan \/ CrossBorderSignoff \/ Diff \/ Resolve
    BY <1>1 DEF Open, Materiality, Reportability, SkipSuppressed, Draft, Recruit,
       CrossBorderScan, CrossBorderSignoff, Diff, Resolve, CutShort
  <1>2. CASE \/ BeginRelease \/ SkipUnchecked \/ SignKey \/ Turn
             \/ Amend \/ Propose \/ Concur \/ SubmitAmendment \/ AmendDiff
             \/ BeginRerelease
    BY <1>2 DEF BeginRelease, SkipUnchecked, SignKey, Turn, Releases, Amend, Propose,
       Concur, SubmitAmendment, AmendDiff, BeginRerelease, CutShort
  <1>3. CASE \/ NoHighRisk \/ HighRisk \/ DeficiencyNotice \/ Cure \/ LiftHold
             \/ Submission \/ Seal
    BY <1>3 DEF NoHighRisk, HighRisk, DeficiencyNotice, Cure, LiftHold, Submission,
       Seal, CutShort
  <1>4. QED
    BY <1>1, <1>2, <1>3 DEF Drive

LEMMA TurnHears ==
  ASSUME Turn, RoomDrive
  PROVE  Hears(TurnMessages)
  <1>1. step \in Releases /\ lock = "turned"
    BY DEF Turn
  <1>2. /\ ~Open /\ ~Materiality /\ ~Reportability /\ ~SkipSuppressed /\ ~Draft
        /\ ~Recruit /\ ~CrossBorderScan /\ ~CrossBorderSignoff /\ ~Diff /\ ~Resolve
    BY <1>1 DEF Releases, Open, Materiality, Reportability, SkipSuppressed, Draft,
       Recruit, CrossBorderScan, CrossBorderSignoff, Diff, Resolve
  <1>3. /\ ~BeginRelease /\ ~SkipUnchecked /\ ~SignKey /\ ~Amend /\ ~Propose
        /\ ~Concur /\ ~SubmitAmendment /\ ~AmendDiff /\ ~BeginRerelease
    BY <1>1 DEF Releases, BeginRelease, SkipUnchecked, SignKey, Amend, Propose, Concur,
       SubmitAmendment, AmendDiff, BeginRerelease
  <1>4. /\ ~NoHighRisk /\ ~HighRisk /\ ~DeficiencyNotice /\ ~Cure /\ ~LiftHold
        /\ ~Submission /\ ~Seal
    BY <1>1 DEF Releases, NoHighRisk, HighRisk, DeficiencyNotice, Cure, LiftHold,
       Submission, Seal
  <1>5. QED
    BY <1>2, <1>3, <1>4 DEF RoomDrive

\* The run raises on a suppressed branch that it amends, and nowhere else.
LEMMA RaisesRoom ==
  ASSUME IInv, RoomIInv, RoomDrive, CutShort'
  PROVE  RoomIInv'
  <1>1. Drive /\ ~CutShort
    <2>1. Drive
      BY RoomDriveIsDrive
    <2>2. QED
      BY <2>1, DriveGoesOn
  <1>2. Turn
    <2>1. ClaimsOK
      BY <1>1 DEF RoomIInv
    <2>2. QED
      BY <1>1, <2>1, ChecksHold DEF CutShort
  <1>3. Sound(room) /\ room.fault = "none" /\ ClaimsOK /\ SignoffIsOpen /\ RecoveryIsTold
    BY <1>1 DEF RoomIInv
  <1>4. step' = "raised" /\ UNCHANGED <<scenario, todo>>
    <2>1. ASSUME NextBranch PROVE FALSE
      <3>1. step' = step \/ step' = After(step)
        BY <2>1 DEF NextBranch, Proceed
      <3>2. step \in Releases
        BY <1>2 DEF Turn
      <3>3. After(step) \notin {"raised", "interrupted"}
        BY <1>1, <3>2, AfterGoesOn DEF Releases, PhaseNames
      <3>4. QED
        BY <3>1, <3>2, <3>3 DEF Releases, CutShort
    <2>2. QED
      BY <1>2, <2>1 DEF Turn, Raise
  <1>5. /\ scenario'.mode = "amendment" /\ state'["sec"] = "suppressed"
        /\ todo' = AMENDMENT_BRANCHES /\ filed'["sec"] = <<>>
    BY <1>1, <1>2, <1>3, <1>4, TurnIsAdmitted
  <1>7. room' = room /\ UNCHANGED options
    <2>1. step # "cure"
      <3>1. LoopOK
        BY <1>1, IInvParts DEF Running
      <3>2. QED
        BY <1>4, <1>5, <3>1 DEF LoopOK, Wanted
    <2>2. ~LoopEnds
      BY <1>4, <1>5, PairLists DEF LoopEnds
    <2>3. TurnMessages = room
      BY <1>4, <2>1, <2>2 DEF TurnMessages, KeysForAll
    <2>4. QED
      BY <1>2, <2>3, TurnHears DEF Hears
  <1>8. RecoveryIsTold'
    BY <1>3, <1>4, <1>7, RecoveryStands
  <1>9. TurnsAreServed'
    BY <1>3, <1>5, <1>7 DEF TurnsAreServed
  <1>10. QED
    BY <1>3, <1>7, <1>8, <1>9, StopsRoom

\* What stops without a word changes nothing the room answers for.
LEMMA StutterRoom ==
  ASSUME RoomIInv, UNCHANGED roomVars
  PROVE  RoomIInv'
  <1>0. UNCHANGED <<scenario, step, todo, state, claims, ran, keys, lock, signers, filed,
                    clock, guard, conflict, hold, receipts, challenge, apClient, lag, room>>
    BY DEF roomVars, vars, options, branchVars, lockVars, dutyVars
  <1>1. OptionsOK' /\ Sound(room') /\ SignoffIsOpen' /\ (~CutShort' => ~CutShort)
    BY <1>0 DEF RoomIInv, OptionsOK, SignoffIsOpen, CutShort
  <1>2. RecoveryIsTold'
    BY <1>0, RecoveryStands DEF RoomIInv
  <1>3. TurnsAreServed'
    BY <1>0 DEF RoomIInv, TurnsAreServed
  <1>4. ASSUME ~CutShort'
        PROVE  /\ TopicsOK' /\ DraftsPosted' /\ ReleasesTold'
               /\ InboxOK' /\ MailOK' /\ ClaimsOK'
    <2>1. /\ TopicsOK /\ DraftsPosted /\ ReleasesTold /\ InboxOK /\ MailOK /\ ClaimsOK
      BY <1>1, <1>4 DEF RoomIInv
    <2>2. \A b : Undrafted(b)' <=> Undrafted(b)
      BY <1>0 DEF Undrafted, InTodo
    <2>3. TopicsOK'
      BY <1>0, <2>1, <2>2 DEF TopicsOK, Timely, Before
    <2>4. DraftsPosted'
      BY <1>0, <2>1 DEF DraftsPosted, DraftNumber, Cured, Posted
    <2>5. ReleasesTold'
      <3>1. ASSUME NEW b, NEW round
            PROVE  FilingIsTold(b, round) => FilingIsTold(b, round)'
        <4>1. ReleasesOf(b, round)' = ReleasesOf(b, round)
          BY <1>0 DEF ReleasesOf
        <4>2. PICK key : key = <<"draft", b, round>>
          OBVIOUS
        <4>3. At(key)' = At(key)
          BY <1>0 DEF At
        <4>4. QED
          BY <1>0, <4>1, <4>2, <4>3 DEF FilingIsTold
      <3>2. QED
        BY <1>0, <2>1, <3>1 DEF ReleasesTold
    <2>6. InboxOK'
      BY <1>0, <2>1, <2>2 DEF InboxOK, Inbox
    <2>7. MailOK'
      BY <1>0, <2>1, <2>2 DEF MailOK, Amends, Due, Asked
    <2>8. ClaimsOK'
      BY <1>0, <2>1 DEF ClaimsOK, Drafted
    <2>9. QED
      BY <2>3, <2>4, <2>5, <2>6, <2>7, <2>8
  <1>5. QED
    BY <1>0, <1>1, <1>2, <1>3, <1>4 DEF RoomIInv

LEMMA InterruptRoom ==
  ASSUME RoomIInv, Interrupt, Quiet
  PROVE  RoomIInv'
  <1>1. /\ step' = "interrupted" /\ scenario' = scenario
        /\ room' = room /\ UNCHANGED options
    BY DEF Interrupt, Quiet
  <1>2. RecoveryIsTold'
    BY <1>1, RecoveryStands DEF RoomIInv
  <1>3. TurnsAreServed'
    BY <1>1 DEF RoomIInv, TurnsAreServed, options
  <1>4. QED
    BY <1>1, <1>2, <1>3, StopsRoom DEF RoomIInv, CutShort

LEMMA DriveRoom ==
  ASSUME IInv, RoomIInv, RoomDrive, ~CutShort'
  PROVE  RoomIInv'
  <1>1. CASE \/ Open /\ Hears(OpenMessages)
             \/ (Materiality \/ Reportability \/ SkipSuppressed) /\ Quiet
             \/ Draft /\ Hears(DraftMessages(Head(todo)))
             \/ Recruit /\ Hears(RecruitMessages(Head(todo)))
             \/ CrossBorderScan /\ Hears(ScanMessages)
             \/ CrossBorderSignoff /\ Hears(SignoffMessages)
             \/ Diff /\ Hears(DiffMessages)
             \/ Resolve /\ Hears(ResolveMessages)
    BY <1>1, OpenRoom, JudgeRoom, DraftRoom, RecruitRoom, ScanRoom,
       CrossBorderSignoffRoom, DiffRoom, ResolveRoom
  <1>2. CASE \/ (BeginRelease \/ BeginRerelease \/ Seal) /\ Quiet
             \/ SkipUnchecked /\ Hears(KeysForAll)
             \/ SignKey /\ Hears(SignMessages)
             \/ Turn /\ Hears(TurnMessages)
    BY <1>2, BeginRoom, SealRoom, SkipUncheckedRoom, SignKeyRoom, TurnRoom
  <1>3. CASE \/ Amend /\ Hears(AmendMessages)
             \/ Propose /\ Hears(ProposeMessages)
             \/ Concur /\ Hears(ConcurMessages)
             \/ SubmitAmendment /\ Hears(AmendedDraftMessages)
             \/ AmendDiff /\ Hears(AmendDiffMessages)
    BY <1>3, AmendRoom, ProposeRoom, ConcurRoom, SubmitAmendmentRoom, AmendDiffRoom
  <1>4. CASE \/ NoHighRisk /\ Hears(NoHighRiskMessages)
             \/ HighRisk /\ Hears(HighRiskMessages)
             \/ DeficiencyNotice /\ Hears(NoticeMessages)
             \/ Cure /\ Hears(CureMessages)
             \/ LiftHold /\ Hears(LiftMessages)
             \/ Submission /\ Hears(SubmissionMessages)
    BY <1>4, NoHighRiskRoom, HighRiskRoom, DeficiencyRoom, CureRoom, LiftHoldRoom,
       SubmissionRoom
  <1>5. QED
    BY <1>1, <1>2, <1>3, <1>4 DEF RoomDrive

LEMMA NextRoom ==
  ASSUME IInv, RoomIInv, [RoomNext]_roomVars
  PROVE  RoomIInv'
  <1>1. CASE RoomDrive
    BY <1>1, RaisesRoom, DriveRoom
  <1>2. CASE GiveUp
    BY <1>2, GiveUpRoom
  <1>3. CASE Interrupt /\ Quiet
    BY <1>3, InterruptRoom
  <1>4. CASE (Over /\ Quiet) \/ UNCHANGED roomVars
    BY <1>4, StutterRoom DEF Over, Quiet, roomVars
  <1>5. QED
    BY <1>1, <1>2, <1>3, <1>4 DEF RoomNext

LEMMA InitRoom == RoomInit => RoomIInv
  <1> SUFFICES ASSUME RoomInit PROVE RoomIInv
    OBVIOUS
  <1>1. /\ Init /\ challenge \in BOOLEAN /\ apClient \in BOOLEAN /\ lag \in Nat
        /\ step = "open" /\ ~CutShort
    BY LagsAssumption DEF RoomInit, Init, CutShort
  <1>2. PICK peers : /\ room = EmptyRoom(peers) /\ peers \subseteq Agents
                     /\ Startup \subseteq peers
    BY Names DEF RoomInit, Agents
  <1>3. /\ room.log = <<>> /\ room.marked = [a \in Agents |-> {}]
        /\ room.fault = "none"
    BY <1>2 DEF EmptyRoom
  <1>4. Sound(room)
    <2>1. room \in Rooms
      <3>1. <<>> \in Seq(Messages) /\ 0 \in Nat
        OBVIOUS
      <3>2. room = [log |-> <<>>, marked |-> [a \in Agents |-> {}], peers |-> peers,
                    fault |-> "none", clock |-> 0, watch |-> [b \in Branches |-> NoWatch]]
        BY <1>2 DEF EmptyRoom
      <3>3. QED
        BY <1>2, <3>1, <3>2 DEF Rooms, NoWatch
    <2>2. room.peers = peers /\ DOMAIN room.log = {}
      BY <1>2, <1>3 DEF EmptyRoom
    <2>3. QED
      BY <1>2, <1>3, <2>1, <2>2 DEF Sound
  <1>5. DOMAIN room.log = {} /\ \A key : At(key) = {}
    BY <1>3 DEF At
  <1>6. RecoveryIsTold
    <2>1. Cardinality({}) = 0
      BY FS_EmptySet
    <2>2. QED
      BY <1>5, <2>1 DEF RecoveryIsTold
  <1>7. TurnsAreServed /\ OptionsOK /\ SignoffIsOpen
    BY <1>1, <1>3 DEF TurnsAreServed, OptionsOK, SignoffIsOpen
  <1>8. TopicsOK /\ InboxOK /\ ClaimsOK
    BY <1>1, <1>5 DEF TopicsOK, InboxOK, ClaimsOK
  <1>9. DraftsPosted /\ ReleasesTold
    BY <1>1 DEF Init, DraftsPosted, ReleasesTold
  <1>10. MailOK
    <2>1. \A key : ~Due(key)
      BY <1>1 DEF Due, Undrafted, Early, BeforeAmend
    <2>2. QED
      BY <1>1, <1>3, <1>5, <2>1, Names DEF MailOK
  <1>11. QED
    BY <1>3, <1>4, <1>6, <1>7, <1>8, <1>9, <1>10 DEF RoomIInv

\* Wherever the driver stands, the room holds what its agents wait for, whatever
\* the lag of the room.  (_drain, _drain_for_envelope, _warden_announce)
THEOREM RoomIsSound == RoomSpec => [](IInv /\ RoomIInv)
  <1>1. RoomInit => IInv /\ RoomIInv
    BY InitIInv, InitRoom DEF RoomInit
  <1>2. IInv /\ RoomIInv /\ [RoomNext]_roomVars => IInv' /\ RoomIInv'
    BY RoomNextIInv, NextRoom
  <1>3. QED
    BY <1>1, <1>2, PTL DEF RoomSpec

\* Nobody waits for a mention that does not come, and no assertion of the run
\* fails: the driver raises only on a suppressed branch it amends, or where a
\* message took six polls to show.  (_drain, _drain_for_envelope, _warden_announce)
THEOREM TurnsAlwaysServed == RoomSpec => []TurnsAreServed
  <1>1. RoomIInv => TurnsAreServed
    BY DEF RoomIInv
  <1>2. QED
    BY <1>1, RoomIsSound, PTL

\* A drafter that was killed is declared dead, its second draft dropped and the
\* drafter declared recovered, in this order and before the Warden's ack.
\* (_drive_drafter, _watchdog_check, _watchdog_recover)
THEOREM RecoveryAlwaysTold == RoomSpec => []RecoveryIsTold
  <1>1. RoomIInv => RecoveryIsTold
    BY DEF RoomIInv
  <1>2. QED
    BY <1>1, RoomIsSound, PTL

\* The room of a sealed run has seen every version of every filing: its draft,
\* then its release.  (_run_full_floor, _two_key_release)
THEOREM EveryFilingIsKnown == RoomSpec => []RoomKnowsEveryFiling
  <1>1. RoomIInv => RoomKnowsEveryFiling
    BY DEF RoomIInv, RoomKnowsEveryFiling, CutShort, ReleasesTold, FilingIsTold
  <1>2. QED
    BY <1>1, RoomIsSound, PTL
===============================================================================
