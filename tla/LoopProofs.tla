----------------------------- MODULE LoopProofs -----------------------------
(***************************************************************************)
(* The two loops that run against the world outside.                       *)
(*                                                                         *)
(* WorkerLoop, for any retry limit, any number of spoiled calls and any    *)
(* number of kills: every copy of a reply after the first is paid for by a *)
(* spoiled call, and where the room can be read and no call is repeated    *)
(* the loop is an exactly-once handoff.                                    *)
(*                                                                         *)
(* LiveClocks, for any catalog, calendar, anchor, budget and compression   *)
(* and any wall clock: each tier a clock was seen in is told once, in      *)
(* rising order; and a count of business days ends where it should,        *)
(* whatever days are holidays.                                             *)
(***************************************************************************)
EXTENDS WorkerLoop, LiveClocks, TLAPS, FiniteSetTheorems, WellFoundedInduction

(***************************************************************************)
(* The worker loop.                                                        *)
(***************************************************************************)
LEMMA InitIInv == Init => IInv
  <1> SUFFICES ASSUME Init PROVE IInv
    OBVIOUS
  <1> USE DEF Init, CallsInit
  <1>1. blind \in BOOLEAN /\ handled \in BOOLEAN
    OBVIOUS
  <1>2. /\ pc = "poll" /\ mention = "delivered" /\ copies = 0
        /\ attempt = 0 /\ faults = 0 /\ idle = 0 /\ crashes = 0
    OBVIOUS
  <1>3. max_attempts \in Nat \ {0}
    BY CallsAssumption
  <1> HIDE DEF Init
  <1>4. QED
    BY <1>1, <1>2, <1>3
       DEF IInv, TypeOK, InHand, CopiesArePaid, KnowsRoom, Open, Over

LEMMA NextIInv == IInv /\ [Next]_vars => IInv'
  <1> SUFFICES ASSUME IInv, [Next]_vars PROVE IInv'
    OBVIOUS
  <1> USE DEF IInv, TypeOK, InHand, CopiesArePaid, KnowsRoom, Sighted, Open, Over,
              bandVars, workerVars, setup, Goto, Keep
  <1>1. CASE Poll
    BY <1>1 DEF Poll, Call, Answered, Spoiled, Refused, AgainOrGiveUp
  <1>2. CASE Empty
    BY <1>2 DEF Empty, Local
  <1>3. CASE Claim
    BY <1>3 DEF Claim, Call, Answered, Spoiled, Refused, AgainOrGiveUp
  <1>4. CASE Handle
    BY <1>4 DEF Handle, Local
  <1>5. CASE Check
    BY <1>5 DEF Check, ReadRoom, Answered, Spoiled, Refused, AgainOrGiveUp
  <1>6. CASE Post
    BY <1>6 DEF Post, Call, Answered, Spoiled, Refused, AgainOrGiveUp
  <1>7. CASE Ack
    BY <1>7 DEF Ack, Mark, Local, Call, Answered, Spoiled, Refused, AgainOrGiveUp
  <1>8. CASE Fail
    BY <1>8 DEF Fail, Mark, Local, Call, Answered, Spoiled, Refused, AgainOrGiveUp
  <1>9. CASE Crash
    BY <1>9 DEF Crash, Local
  <1>10. CASE Restart
    BY <1>10 DEF Restart
  <1>11. CASE Left \/ UNCHANGED vars
    BY <1>11 DEF Left, vars, callVars
  <1>12. QED
    BY <1>1, <1>2, <1>3, <1>4, <1>5, <1>6, <1>7, <1>8, <1>9, <1>10, <1>11
       DEF Next, Work

\* The loop knows what is in the room, and what it has paid for it, at every step
\* of every schedule of lost calls, kills and restarts.
THEOREM WorkerInvariant == Spec => []IInv
  <1>1. QED
    BY InitIInv, NextIInv, PTL DEF Spec

\* However often the agent is killed, a reply is doubled only by a call the network
\* spoiled.
THEOREM KillsNeverDouble == Spec => []ExtraCopiesCostFaults
  <1>1. IInv => ExtraCopiesCostFaults
    BY DEF IInv, CopiesArePaid, ExtraCopiesCostFaults
  <1>2. QED
    BY <1>1, WorkerInvariant, PTL

\* With a readable room and no blind retry the loop hands its reply over exactly
\* once: the check before the post closes the window a kill or a lost answer opens.
THEOREM LoopKeepsHandoffPromise == Spec => KeepsHandoffPromise
  <1>1. Init => Promise!HandoffInit
    BY DEF Init, Promise!HandoffInit
  <1>2. IInv /\ [Next]_vars =>
          (Sighted => [Promise!HandoffNext]_(Promise!handoff))
    <2> SUFFICES ASSUME IInv, [Next]_vars, Sighted
                 PROVE  [Promise!HandoffNext]_(Promise!handoff)
      OBVIOUS
    <2>1. CASE /\ copies' = copies
               /\ \/ mention' = mention
                  \/ mention \in Open /\ mention' \in Open
      BY <2>1 DEF Promise!handoff, Open
    <2>0. CASE copies' = copies /\ mention' = mention
      BY <2>0 DEF Promise!handoff
    <2> USE DEF IInv, TypeOK, InHand, KnowsRoom, Sighted, Open, bandVars, setup,
                Keep, Call, ReadRoom, Answered, Spoiled, Refused, AgainOrGiveUp,
                Local
    <2>2. CASE Post
      <3>1. mention' = mention /\ mention = "processing" /\ copies = 0
        BY <2>2 DEF Post
      <3>2. copies' \in {0, 1}
        BY <2>2, <3>1 DEF Post
      <3>3. QED
        BY <2>1, <3>1, <3>2 DEF Promise!HandoffNext, Promise!Land, Promise!handoff
    <2>3. CASE Ack
      <3>1. copies' = copies /\ copies = 1 /\ mention = "processing"
        BY <2>3 DEF Ack, Mark
      <3>2. mention' \in {"processing", "processed"}
        BY <2>3, <3>1 DEF Ack, Mark
      <3>3. QED
        BY <2>1, <3>1, <3>2 DEF Promise!HandoffNext, Promise!Settle
    <2>4. CASE Fail
      <3>1. copies' = copies
        BY <2>4 DEF Fail, Mark
      <3>2. mention' = mention \/ (mention = "processing" /\ mention' = "failed")
        BY <2>4 DEF Fail, Mark
      <3>3. QED
        BY <2>0, <3>1, <3>2 DEF Promise!HandoffNext, Promise!GiveUp
    <2>5. CASE Claim
      <3>1. copies' = copies /\ mention \in Open
        BY <2>5 DEF Claim
      <3>2. mention' \in Open
        BY <2>5, <3>1 DEF Claim
      <3>3. QED
        BY <2>1, <3>1, <3>2
    <2>6. CASE Poll \/ Empty \/ Handle \/ Check \/ Crash \/ Restart \/ Left
               \/ UNCHANGED vars
      <3>1. copies' = copies /\ mention' = mention
        BY <2>6 DEF Poll, Empty, Handle, Check, Crash, Restart, Left, vars
      <3>2. QED
        BY <2>0, <3>1
    <2>7. QED
      <3>1. \/ Post \/ Ack \/ Fail \/ Claim \/ Poll \/ Empty \/ Handle \/ Check
            \/ Crash \/ Restart \/ Left \/ UNCHANGED vars
        BY DEF Next, Work
      <3>2. QED
        BY <2>2, <2>3, <2>4, <2>5, <2>6, <3>1
  <1>3. QED
    BY <1>1, <1>2, WorkerInvariant, PTL DEF Spec, KeepsHandoffPromise
-----------------------------------------------------------------------------
(***************************************************************************)
(* Least and greatest numbers of a set.                                    *)
(***************************************************************************)
LEMMA MinIs ==
  ASSUME NEW S \in SUBSET Nat, S # {}
  PROVE  Min(S) \in S /\ \A j \in S : Min(S) <= j
  <1> DEFINE R == { pair \in Nat \X Nat : pair[1] < pair[2] }
  <1>1. PICK i \in S : \A j \in S : ~(<<j, i>> \in R)
    <2>1. IsWellFoundedOn(R, Nat) /\ S \subseteq Nat
      BY NatLessThanWellFounded, Zenon DEF OpToRel
    <2> HIDE DEF R
    <2>2. QED
      BY <2>1, WFMin
  <1>2. \A j \in S : i <= j
    <2>1. ASSUME NEW j \in S PROVE i <= j
      <3>1. i \in Nat /\ j \in Nat
        OBVIOUS
      <3>2. ~(j < i)
        BY <1>1, <3>1
      <3>3. QED
        BY <3>1, <3>2
    <2>2. QED
      BY <2>1
  <1>3. QED
    BY <1>1, <1>2 DEF Min

LEMMA MaxOfTwo ==
  ASSUME NEW a \in Int, NEW b \in Int
  PROVE  Max({a, b}) = IF a < b THEN b ELSE a
  <1> DEFINE m == IF a < b THEN b ELSE a
  <1>1. m \in {a, b} /\ \A y \in {a, b} : m >= y
    OBVIOUS
  <1>2. \A x \in {a, b} : (\A y \in {a, b} : x >= y) => x = m
    OBVIOUS
  <1> HIDE DEF m
  <1>3. Max({a, b}) = m
    BY <1>1, <1>2 DEF Max
  <1>4. QED
    BY <1>3 DEF m

(***************************************************************************)
(* The tiers.                                                              *)
(***************************************************************************)
LEMMA Ranks ==
  /\ TierRank("GREEN") = 0 /\ TierRank("WARN") = 1
  /\ TierRank("CRITICAL") = 2 /\ TierRank("BREACH") = 3
  <1>1. /\ Tiers[0 + 1] = "GREEN" /\ Tiers[1 + 1] = "WARN"
        /\ Tiers[2 + 1] = "CRITICAL" /\ Tiers[3 + 1] = "BREACH"
    BY DEF Tiers
  <1>2. \A r \in 0..3 : r = 0 \/ r = 1 \/ r = 2 \/ r = 3
    OBVIOUS
  <1>3. QED
    BY <1>1, <1>2 DEF TierRank

\* The tier of a clock counts the margins it has used up.
LEMMA TierCountsMargins ==
  ASSUME NEW regime, NEW deadline \in Int, NEW now \in Int,
         regime.warn_margin \in Nat, regime.critical_margin \in Nat,
         0 < regime.critical_margin, regime.critical_margin < regime.warn_margin
  PROVE  /\ TierRank(Classify(regime, deadline, now)) =
              Cardinality({ m \in {regime.warn_margin, regime.critical_margin, 0} :
                              now + m >= deadline })
         /\ TierRank(Classify(regime, deadline, now)) \in 0..3
         /\ \A later \in Int : now <= later =>
              TierRank(Classify(regime, deadline, now))
                <= TierRank(Classify(regime, deadline, later))
  <1> DEFINE w == regime.warn_margin
             c == regime.critical_margin
             used(t) == { m \in {w, c, 0} : t + m >= deadline }
             rank(t) == TierRank(Classify(regime, deadline, t))
  <1>1. w \in Nat /\ c \in Nat /\ 0 < c /\ c < w
    OBVIOUS
  <1>2. \A t \in Int :
          rank(t) = IF t >= deadline THEN 3 ELSE IF t + c >= deadline THEN 2
                    ELSE IF t + w >= deadline THEN 1 ELSE 0
    <2>1. TAKE t \in Int
    <2>2. CASE t >= deadline
      <3>1. Classify(regime, deadline, t) = "BREACH"
        BY <2>2 DEF Classify, Breached
      <3>2. QED
        BY <2>2, <3>1, Ranks
    <2>3. CASE t < deadline /\ t + c >= deadline
      <3>1. Classify(regime, deadline, t) = "CRITICAL"
        BY <1>1, <2>3 DEF Classify, Breached
      <3>2. QED
        BY <2>3, <3>1, Ranks
    <2>4. CASE t + c < deadline /\ t + w >= deadline
      <3>1. Classify(regime, deadline, t) = "WARN"
        BY <1>1, <2>4 DEF Classify, Breached
      <3>2. QED
        BY <1>1, <2>4, <3>1, Ranks
    <2>5. CASE t + w < deadline
      <3>1. Classify(regime, deadline, t) = "GREEN"
        BY <1>1, <2>5 DEF Classify, Breached
      <3>2. QED
        BY <1>1, <2>5, <3>1, Ranks
    <2>6. QED
      BY <1>1, <2>2, <2>3, <2>4, <2>5
  <1> HIDE DEF w, c, rank
  <1>3. Cardinality(used(now)) = rank(now)
    <2>1. \A a, b : a # b => /\ Cardinality({a}) = 1 /\ Cardinality({a, b}) = 2
      <3>1. TAKE a, b
      <3>2. HAVE a # b
      <3>3. Cardinality({a}) = 1 /\ IsFiniteSet({a})
        BY FS_Singleton
      <3>4. Cardinality({a} \cup {b}) = 2
        BY <3>2, <3>3, FS_AddElement
      <3>5. {a} \cup {b} = {a, b}
        OBVIOUS
      <3>6. QED
        BY <3>3, <3>4, <3>5
    <2>2. Cardinality({w, c, 0}) = 3
      <3>1. Cardinality({w, c}) = 2
        <4>1. w # c
          BY <1>1
        <4>2. QED
          BY <2>1, <4>1
      <3>2. IsFiniteSet({w, c})
        <4>1. IsFiniteSet({w} \cup {c})
          BY FS_Singleton, FS_AddElement
        <4>2. {w} \cup {c} = {w, c}
          OBVIOUS
        <4>3. QED
          BY <4>1, <4>2
      <3>3. Cardinality({w, c} \cup {0}) = 3
        <4>1. 0 \notin {w, c}
          BY <1>1
        <4>2. Cardinality({w, c} \cup {0}) = Cardinality({w, c}) + 1
          BY <3>2, <4>1, FS_AddElement
        <4>3. QED
          BY <3>1, <4>2
      <3>4. {w, c} \cup {0} = {w, c, 0}
        OBVIOUS
      <3>5. QED
        BY <3>3, <3>4
    <2>3. CASE now >= deadline
      <3>1. used(now) = {w, c, 0}
        BY <1>1, <2>3
      <3>2. QED
        BY <1>2, <2>2, <2>3, <3>1
    <2>4. CASE now < deadline /\ now + c >= deadline
      <3>1. used(now) = {w, c}
        <4>1. now + w >= deadline /\ now + c >= deadline /\ ~(now + 0 >= deadline)
          BY <1>1, <2>4
        <4>2. QED
          BY <1>1, <4>1
      <3>2. rank(now) = 2
        BY <1>2, <2>4
      <3>3. w # c
        BY <1>1
      <3>4. Cardinality({w, c}) = 2
        BY <2>1, <3>3
      <3>5. QED
        BY <3>1, <3>2, <3>4
    <2>5. CASE now + c < deadline /\ now + w >= deadline
      <3>1. used(now) = {w}
        <4>1. now + w >= deadline /\ ~(now + c >= deadline) /\ ~(now + 0 >= deadline)
          BY <1>1, <2>5
        <4>2. QED
          BY <1>1, <4>1
      <3>2. now < deadline
        BY <1>1, <2>5
      <3>3. rank(now) = 1
        <4>1. ~(now >= deadline) /\ ~(now + c >= deadline) /\ now + w >= deadline
          BY <1>1, <2>5, <3>2
        <4>2. QED
          BY <1>2, <4>1
      <3>4. Cardinality({w}) = 1
        <4>1. w # c
          BY <1>1
        <4>2. QED
          BY <2>1, <4>1
      <3>5. QED
        BY <3>1, <3>3, <3>4
    <2>6. CASE now + w < deadline
      <3>1. used(now) = {}
        BY <1>1, <2>6
      <3>2. now < deadline /\ now + c < deadline
        BY <1>1, <2>6
      <3>3. QED
        BY <1>1, <1>2, <2>6, <3>1, <3>2, FS_EmptySet
    <2>7. QED
      BY <1>1, <2>3, <2>4, <2>5, <2>6
  <1>4. rank(now) \in 0..3
    BY <1>2
  <1>5. \A later \in Int : now <= later => rank(now) <= rank(later)
    BY <1>1, <1>2
  <1>6. QED
    BY <1>3, <1>4, <1>5 DEF w, c, rank

(***************************************************************************)
(* The board's order.                                                      *)
(***************************************************************************)
\* The snapshot of some clocks lists each of them once.
LEMMA SnapshotListsEach ==
  ASSUME NEW clocks, IsFiniteSet(clocks), clocks \subseteq Nat,
         \A i \in clocks : deadlines[i] \in Int
  PROVE  LET line == Snapshot(clocks) IN
         /\ Cardinality(clocks) \in Nat /\ DOMAIN line = 1..Cardinality(clocks)
         /\ \A n \in DOMAIN line : line[n] \in clocks
         /\ \A m, n \in DOMAIN line : line[m] = line[n] => m = n
         /\ \A i \in clocks : \E n \in DOMAIN line : line[n] = i
  <1> DEFINE N == Cardinality(clocks)
             before(i) == { j \in clocks : Nearer(j, i) }
             place(i) == Cardinality(before(i))
             f == [i \in clocks |-> place(i) + 1]
             line == Snapshot(clocks)
  <1>1. N \in Nat
    BY FS_CardinalityType
  <1>2. \A i \in clocks : IsFiniteSet(before(i)) /\ place(i) \in Nat /\ place(i) < N
    <2>1. TAKE i \in clocks
    <2>2. before(i) \subseteq clocks /\ i \notin before(i)
      BY DEF Nearer
    <2>3. IsFiniteSet(before(i)) /\ place(i) \in Nat /\ place(i) <= N /\ place(i) # N
      <3> HIDE DEF before
      <3>1. QED
        BY <2>2, FS_Subset, FS_CardinalityType
    <2>4. QED
      BY <1>1, <2>3
  <1>3. \A i, j \in clocks : Nearer(i, j) => place(i) < place(j)
    <2>1. TAKE i, j \in clocks
    <2>2. HAVE Nearer(i, j)
    <2>3. before(i) \subseteq before(j) /\ i \in before(j) /\ i \notin before(i)
      <3>1. \A a \in clocks : a \in Nat /\ deadlines[a] \in Int
        OBVIOUS
      <3>2. ~Nearer(i, i)
        BY <3>1 DEF Nearer
      <3>3. \A a \in clocks : Nearer(a, i) => Nearer(a, j)
        BY <2>2, <3>1 DEF Nearer
      <3>4. QED
        BY <2>2, <3>2, <3>3
    <2>4. place(i) <= place(j) /\ place(i) # place(j)
      <3> HIDE DEF before
      <3>1. QED
        BY <1>2, <2>3, FS_Subset
    <2>5. QED
      BY <1>2, <2>4
  <1>4. \A i, j \in clocks : i # j => Nearer(i, j) \/ Nearer(j, i)
    BY DEF Nearer
  <1>5. \A i, j \in clocks : place(i) = place(j) => i = j
    BY <1>2, <1>3, <1>4
  <1> HIDE DEF before, place
  <1>6. f \in Injection(clocks, 1..N)
    <2>1. f \in [clocks -> 1..N]
      <3>1. \A i \in clocks : place(i) + 1 \in 1..N
        BY <1>1, <1>2
      <3>2. QED
        BY <3>1, Zenon
    <2>2. \A a, b \in clocks : f[a] = f[b] => a = b
      BY <1>2, <1>5
    <2> HIDE DEF f
    <2>3. QED
      BY <2>1, <2>2 DEF Injection, IsInjective
  <1>7. f \in Surjection(clocks, 1..N)
    <2>1. IsFiniteSet(1..N) /\ Cardinality(1..N) = N
      BY <1>1, FS_Interval
    <2> HIDE DEF f
    <2>2. QED
      BY <1>6, <2>1, FS_Injection
  <1>8. \A n \in 1..N : \E i \in clocks : place(i) = n - 1
    <2>1. \A n \in 1..N : \E i \in clocks : f[i] = n
      BY <1>7 DEF Surjection
    <2>2. QED
      BY <1>1, <1>2, <2>1
  <1>9. DOMAIN line = 1..N /\ \A n \in 1..N : line[n] = CHOOSE i \in clocks : place(i) = n - 1
    BY DEF Snapshot, place, before
  <1>10. \A n \in 1..N : line[n] \in clocks /\ place(line[n]) = n - 1
    BY <1>8, <1>9
  <1>11. \A m, n \in 1..N : line[m] = line[n] => m = n
    BY <1>1, <1>10
  <1>12. \A i \in clocks : \E n \in 1..N : line[n] = i
    <2>1. TAKE i \in clocks
    <2>2. place(i) + 1 \in 1..N
      BY <1>1, <1>2
    <2>3. line[place(i) + 1] \in clocks /\ place(line[place(i) + 1]) = place(i)
      BY <1>2, <1>10, <2>2
    <2>4. QED
      BY <1>5, <2>2, <2>3
  <1> HIDE DEF line
  <1>13. QED
    BY <1>1, <1>9, <1>10, <1>11, <1>12 DEF line

(***************************************************************************)
(* Counting business days.                                                 *)
(***************************************************************************)
LEMMA CoveredIs == Covered = 1..1096
  <1>1. /\ FirstOf(2026) = 1 /\ FirstOf(2028) = 731
        /\ LeapDay(2026, 1) = 0 /\ LeapDay(2028, 12) = 1
        /\ BeforeMonth[1] = 0 /\ BeforeMonth[12] = 334
    BY DEF FirstOf, LeapDay, BeforeMonth
  <1>2. QED
    BY <1>1 DEF Covered, Day

BusinessDays(first, last, calendar) ==
  { x \in first..last : IsBusinessDay(x, calendar) }

\* The covered days on which a count of so many business days after d may end.
Ends(d, days, calendar) ==
  { e \in Covered : d <= e /\ Cardinality(BusinessDays(d + 1, e, calendar)) = days }

CountEnd(d, days, calendar) ==
  IF d \notin Covered \/ Ends(d, days, calendar) = {} THEN NotCovered
  ELSE Midnight(Min(Ends(d, days, calendar))) + DaySeconds - 1

LEMMA EndsFacts ==
  ASSUME NEW d \in Nat, NEW days \in Nat, NEW calendar
  PROVE  /\ Ends(d, days, calendar) \in SUBSET Nat
         /\ CountEnd(d, days, calendar) \in Int
  <1>1. Ends(d, days, calendar) \in SUBSET Nat
    BY CoveredIs DEF Ends
  <1>2. QED
    BY <1>1, MinIs DEF CountEnd, NotCovered, Midnight, DaySeconds

LEMMA CountNothing ==
  ASSUME NEW d \in Covered, NEW calendar
  PROVE  CountEnd(d, 0, calendar) = Midnight(d) + DaySeconds - 1
  <1>1. d \in Nat
    BY CoveredIs
  <1>2. BusinessDays(d + 1, d, calendar) = {}
    BY <1>1 DEF BusinessDays
  <1>3. d \in Ends(d, 0, calendar)
    BY <1>1, <1>2, FS_EmptySet DEF Ends
  <1>4. Min(Ends(d, 0, calendar)) = d
    <2>1. \A e \in Ends(d, 0, calendar) : d <= e
      BY DEF Ends
    <2>2. Min(Ends(d, 0, calendar)) \in Nat /\ Min(Ends(d, 0, calendar)) <= d
          /\ d <= Min(Ends(d, 0, calendar))
      BY <1>1, <1>3, <2>1, EndsFacts, MinIs
    <2>3. QED
      BY <1>1, <2>2
  <1>5. QED
    BY <1>3, <1>4 DEF CountEnd

LEMMA CountOn ==
  ASSUME NEW d \in Covered, NEW days \in Nat \ {0}, NEW calendar
  PROVE  CountEnd(d, days, calendar) =
           CountEnd(d + 1, IF IsBusinessDay(d + 1, calendar) THEN days - 1 ELSE days, calendar)
  <1> DEFINE rest == IF IsBusinessDay(d + 1, calendar) THEN days - 1 ELSE days
  <1>1. d \in Nat /\ rest \in Nat
    BY CoveredIs
  <1>2. \A e \in Covered :
          e \in Ends(d, days, calendar) <=> e \in Ends(d + 1, rest, calendar)
    <2>1. TAKE e \in Covered
    <2>2. e \in Nat
      BY CoveredIs
    <2>3. CASE e <= d
      <3>1. BusinessDays(d + 1, e, calendar) = {}
        BY <1>1, <2>2, <2>3 DEF BusinessDays
      <3>2. Cardinality(BusinessDays(d + 1, e, calendar)) # days
        BY <3>1, FS_EmptySet
      <3>3. ~(d + 1 <= e)
        BY <1>1, <2>2, <2>3
      <3>4. QED
        BY <3>2, <3>3 DEF Ends
    <2>4. CASE d + 1 <= e
      <3> DEFINE after == BusinessDays(d + 1 + 1, e, calendar)
      <3>1. IsFiniteSet(after) /\ Cardinality(after) \in Nat /\ d + 1 \notin after
        <4>1. after \subseteq (d + 1 + 1)..e /\ IsFiniteSet((d + 1 + 1)..e) /\ d + 1 \notin after
          BY <1>1, <2>2, FS_Interval DEF BusinessDays
        <4>2. QED
          BY <4>1, FS_Subset, FS_CardinalityType
      <3>2. BusinessDays(d + 1, e, calendar) =
              IF IsBusinessDay(d + 1, calendar) THEN after \cup {d + 1} ELSE after
        <4>1. (d + 1)..e = ((d + 1 + 1)..e) \cup {d + 1}
          BY <1>1, <2>2, <2>4
        <4>2. QED
          BY <4>1 DEF BusinessDays
      <3>3. Cardinality(after \cup {d + 1}) = Cardinality(after) + 1
        BY <3>1, FS_AddElement
      <3>4. Cardinality(BusinessDays(d + 1, e, calendar)) = days
              <=> Cardinality(after) = rest
        <4> HIDE DEF after
        <4>1. QED
          BY <3>1, <3>2, <3>3
      <3>5. d <= e
        BY <1>1, <2>2, <2>4
      <3> HIDE DEF rest
      <3>6. QED
        BY <2>4, <3>4, <3>5 DEF Ends
    <2>5. QED
      BY <1>1, <2>2, <2>3, <2>4
  <1>3. Ends(d, days, calendar) = Ends(d + 1, rest, calendar)
    BY <1>2 DEF Ends
  <1>4. d + 1 \notin Covered => Ends(d, days, calendar) = {}
    <2>1. SUFFICES ASSUME d + 1 \notin Covered PROVE Ends(d + 1, rest, calendar) = {}
      BY <1>3
    <2>2. d = 1096
      BY <2>1, CoveredIs
    <2>3. QED
      BY <2>2, CoveredIs DEF Ends
  <1> HIDE DEF rest
  <1>5. CountEnd(d, days, calendar) = CountEnd(d + 1, rest, calendar)
    BY <1>3, <1>4 DEF CountEnd
  <1>6. QED
    BY <1>5 DEF rest

\* The walk of the count, from any day, with anything left to count.
WalkOf(walk, days, calendar) ==
  walk = [d \in Nat |-> [remaining \in 0..days |->
           IF d \notin Covered THEN NotCovered
           ELSE IF remaining = 0 THEN Midnight(d) + DaySeconds - 1
           ELSE walk[d + 1][IF IsBusinessDay(d + 1, calendar) THEN remaining - 1 ELSE remaining]]]

LEMMA SomeWalk ==
  ASSUME NEW days \in Nat, NEW calendar
  PROVE  \E walk : WalkOf(walk, days, calendar)
  <1> DEFINE row(d) == [remaining \in 0..days |-> CountEnd(d, remaining, calendar)]
             walk == [d \in Nat |-> row(d)]
             next(d) == [remaining \in 0..days |->
               IF d \notin Covered THEN NotCovered
               ELSE IF remaining = 0 THEN Midnight(d) + DaySeconds - 1
               ELSE walk[d + 1][IF IsBusinessDay(d + 1, calendar) THEN remaining - 1
                                                                  ELSE remaining]]
  <1>1. \A d \in Nat : row(d) = next(d)
    <2>1. TAKE d \in Nat
    <2>2. ASSUME NEW r \in 0..days
          PROVE  CountEnd(d, r, calendar) =
                   IF d \notin Covered THEN NotCovered
                   ELSE IF r = 0 THEN Midnight(d) + DaySeconds - 1
                   ELSE walk[d + 1][IF IsBusinessDay(d + 1, calendar) THEN r - 1 ELSE r]
      <3>1. CASE d \notin Covered
        BY <3>1 DEF CountEnd
      <3>2. CASE d \in Covered /\ r = 0
        BY <3>2, CountNothing
      <3>3. CASE d \in Covered /\ r # 0
        <4> DEFINE rest == IF IsBusinessDay(d + 1, calendar) THEN r - 1 ELSE r
        <4>1. rest \in 0..days /\ d + 1 \in Nat /\ r \in Nat \ {0}
          BY <3>3
        <4>2. CountEnd(d, r, calendar) = CountEnd(d + 1, rest, calendar)
          BY <3>3, <4>1, CountOn
        <4>3. walk[d + 1][rest] = CountEnd(d + 1, rest, calendar)
          <5> HIDE DEF rest
          <5>1. QED
            BY <4>1
        <4>4. QED
          BY <3>3, <4>2, <4>3
      <3>4. QED
        BY <3>1, <3>2, <3>3
    <2> HIDE DEF walk
    <2>3. QED
      BY <2>2
  <1> HIDE DEF row
  <1>2. walk = [d \in Nat |-> next(d)]
    BY <1>1
  <1>3. WalkOf(walk, days, calendar)
    BY <1>2 DEF WalkOf
  <1>4. QED
    BY <1>3

LEMMA EveryWalk ==
  ASSUME NEW days \in Nat, NEW calendar, NEW walk, WalkOf(walk, days, calendar)
  PROVE  \A d \in Nat, r \in 0..days : walk[d][r] = CountEnd(d, r, calendar)
  <1> DEFINE Right(d) == \A r \in 0..days : walk[d][r] = CountEnd(d, r, calendar)
             wrong == { k \in Nat : \E d \in Covered : k + d = 1096 /\ ~Right(d) }
  <1>1. \A d \in Nat, r \in 0..days :
          walk[d][r] =
            IF d \notin Covered THEN NotCovered
            ELSE IF r = 0 THEN Midnight(d) + DaySeconds - 1
            ELSE walk[d + 1][IF IsBusinessDay(d + 1, calendar) THEN r - 1 ELSE r]
    BY DEF WalkOf
  <1>2. \A d \in Nat : d \notin Covered => Right(d)
    BY <1>1 DEF CountEnd
  <1>3. \A d \in Covered : Right(d + 1) => Right(d)
    <2>1. TAKE d \in Covered
    <2>2. HAVE Right(d + 1)
    <2>3. d \in Nat /\ d + 1 \in Nat
      BY CoveredIs
    <2>4. TAKE r \in 0..days
    <2>5. CASE r = 0
      BY <1>1, <2>3, <2>5, CountNothing
    <2>6. CASE r # 0
      <3> DEFINE rest == IF IsBusinessDay(d + 1, calendar) THEN r - 1 ELSE r
      <3>1. rest \in 0..days /\ r \in Nat \ {0}
        BY <2>6
      <3>2. walk[d][r] = walk[d + 1][rest]
        BY <1>1, <2>3, <2>6
      <3>3. CountEnd(d, r, calendar) = CountEnd(d + 1, rest, calendar)
        BY <3>1, CountOn
      <3> HIDE DEF rest
      <3>4. QED
        BY <2>2, <3>1, <3>2, <3>3
    <2>7. QED
      BY <2>5, <2>6
  <1> HIDE DEF Right
  <1>4. wrong = {}
    <2>1. SUFFICES ASSUME wrong # {} PROVE FALSE
      OBVIOUS
    <2>2. Min(wrong) \in wrong /\ \A k \in wrong : Min(wrong) <= k
      BY <2>1, MinIs
    <2>3. PICK k \in wrong : \A j \in wrong : k <= j
      BY <2>2
    <2>4. PICK d \in Covered : k + d = 1096 /\ ~Right(d)
      OBVIOUS
    <2>5. ~Right(d + 1)
      BY <1>3, <2>4
    <2>6. k \in Nat /\ d \in Nat /\ d + 1 \in Nat /\ d + 1 \in Covered
      BY <1>2, <2>5, CoveredIs
    <2>7. k - 1 \in Nat /\ (k - 1) + (d + 1) = 1096 /\ ~(k <= k - 1)
      BY <2>4, <2>6, CoveredIs
    <2>8. k - 1 \in wrong
      BY <2>5, <2>6, <2>7
    <2>9. QED
      BY <2>3, <2>7, <2>8
  <1>5. \A d \in Nat : Right(d)
    <2>1. TAKE d \in Nat
    <2>2. CASE d \notin Covered
      BY <1>2, <2>2
    <2>3. CASE d \in Covered
      <3>1. 1096 - d \in Nat /\ (1096 - d) + d = 1096
        BY <2>3, CoveredIs
      <3>2. ~Right(d) => 1096 - d \in wrong
        BY <2>3, <3>1
      <3> HIDE DEF wrong
      <3>3. QED
        BY <1>4, <3>2
    <2>4. QED
      BY <2>2, <2>3
  <1>6. QED
    BY <1>5 DEF Right

\* A count of business days ends with the last second of the first covered day up
\* to which so many business days have passed, and is refused where the tables end
\* before; whatever the table says is a holiday.  (clocks.py add_business_days)
THEOREM CountsBusinessDays ==
  ASSUME NEW start \in Nat, NEW days \in Nat, NEW calendar
  PROVE  AddBusinessDays(start, days, calendar) = CountEnd(DateOf(start), days, calendar)
  <1>1. DateOf(start) \in Nat
    BY DEF DateOf, DaySeconds
  <1>2. \E walk : WalkOf(walk, days, calendar)
    BY SomeWalk
  <1>3. \E walk : /\ WalkOf(walk, days, calendar)
                  /\ AddBusinessDays(start, days, calendar) = walk[DateOf(start)][days]
    BY <1>2 DEF AddBusinessDays, WalkOf
  <1>4. PICK walk : /\ WalkOf(walk, days, calendar)
                    /\ AddBusinessDays(start, days, calendar) = walk[DateOf(start)][days]
    BY <1>3
  <1>5. days \in 0..days
    OBVIOUS
  <1>6. QED
    BY <1>1, <1>4, <1>5, EveryWalk

LEMMA DeadlineIsAnInstant ==
  ASSUME NEW regime, regime.length \in Nat, NEW start \in Nat
  PROVE  Deadline(regime, start) \in Int
  <1>1. regime.business_days => Deadline(regime, start) \in Int
    <2>1. DateOf(start) \in Nat
      BY DEF DateOf, DaySeconds
    <2>2. QED
      BY <2>1, CountsBusinessDays, EndsFacts DEF Deadline
  <1>2. ~regime.business_days => Deadline(regime, start) \in Int
    BY DEF Deadline, HourSeconds
  <1>3. QED
    BY <1>1, <1>2

(***************************************************************************)
(* The escalation loop.                                                    *)
(***************************************************************************)
Escalations == [clock : Watched, tier : {"WARN", "CRITICAL", "BREACH"}, to : SUBSET Drafters]

\* What a catalog gives the loop to watch.
LEMMA WatchedFacts ==
  ASSUME catalog \in Catalogs
  PROVE  /\ IsFiniteSet(Watched) /\ Watched \subseteq Nat
         /\ \A i \in Watched :
              /\ catalog[i].length \in Nat
              /\ catalog[i].warn_margin \in Nat /\ catalog[i].critical_margin \in Nat
              /\ 0 < catalog[i].critical_margin
              /\ catalog[i].critical_margin < catalog[i].warn_margin
              /\ Addressees(i) \in SUBSET Drafters /\ Addressees(i) # {}
              /\ catalog[i].base \in Drafters => Addressees(i) = {catalog[i].base}
  <1>1. /\ IsFiniteSet(DOMAIN catalog) /\ DOMAIN catalog \subseteq Nat
        /\ \A i \in DOMAIN catalog : MarginThresholds(catalog[i])
        /\ \A i \in DOMAIN catalog :
             catalog[i].branch \in Drafters => catalog[i].base = catalog[i].branch
    BY ConstantsAssumption
  <1>2. Watched \subseteq DOMAIN catalog /\ \A i \in Watched : catalog[i].margins
    BY DEF Watched
  <1>3. IsFiniteSet(Watched)
    BY <1>1, <1>2, FS_Subset
  <1>4. \A i \in Watched :
          /\ Addressees(i) \in SUBSET Drafters /\ Addressees(i) # {}
          /\ catalog[i].base \in Drafters => Addressees(i) = {catalog[i].base}
    BY <1>1, <1>2, ConstantsAssumption DEF Addressees
  <1>5. QED
    BY <1>1, <1>2, <1>3, <1>4 DEF MarginThresholds

\* The tier of a watched clock, as the loop sees it.
LEMMA TierFacts ==
  ASSUME catalog \in Catalogs, NEW i \in Watched, deadlines[i] \in Int, NEW now \in Int
  PROVE  /\ Tier(i, now) \in {"GREEN", "WARN", "CRITICAL", "BREACH"}
         /\ TierRank(Tier(i, now)) \in 0..3
         /\ TierRank(Tier(i, now)) = MarginsUsed(i, now)
         /\ \A later \in Int : now <= later =>
              TierRank(Tier(i, now)) <= TierRank(Tier(i, later))
  <1>1. /\ catalog[i].warn_margin \in Nat /\ catalog[i].critical_margin \in Nat
        /\ 0 < catalog[i].critical_margin
        /\ catalog[i].critical_margin < catalog[i].warn_margin
    BY WatchedFacts
  <1>2. Tier(i, now) \in {"GREEN", "WARN", "CRITICAL", "BREACH"}
    BY DEF Tier, Classify
  <1>3. QED
    BY <1>1, <1>2, TierCountsMargins DEF Tier, MarginsUsed

LEMMA BoardTime ==
  ASSUME t0 \in Anchors, NEW w \in Int
  PROVE  /\ BoardNow(w) \in Int
         /\ \A later \in Int : w <= later => BoardNow(w) <= BoardNow(later)
  <1>1. t0 \in Nat /\ Compression \in Nat
    BY ConstantsAssumption
  <1>2. \A x \in Nat : x * Compression \in Nat
    BY <1>1
  <1>3. \A later \in Int : w <= later => w * Compression <= later * Compression
    <2>1. TAKE later \in Int
    <2>2. HAVE w <= later
    <2>3. later - w \in Nat
      BY <2>2
    <2>4. (later - w) * Compression \in Nat
      BY <1>2, <2>3
    <2>5. (later - w) * Compression = later * Compression - w * Compression
      BY <1>1
    <2>6. w * Compression \in Int /\ later * Compression \in Int
      BY <1>1
    <2>7. QED
      BY <2>4, <2>5, <2>6
  <1>4. \A x \in Int : x * Compression \in Int
    BY <1>1
  <1>5. QED
    BY <1>1, <1>3, <1>4 DEF BoardNow

LEMMA ClocksInitIInv == ClocksInit => ClocksIInv
  <1> SUFFICES ASSUME ClocksInit PROVE ClocksIInv
    OBVIOUS
  <1>1. /\ catalog \in Catalogs /\ t0 \in Anchors /\ phase = "start"
        /\ wall = 0 /\ posts = <<>>
    BY DEF ClocksInit
  <1>2. read \in BOOLEAN /\ ~read
    BY DEF ClocksInit
  <1>3. posts \in Seq([clock : Watched, tier : {"WARN", "CRITICAL", "BREACH"},
                       to : SUBSET Drafters])
    BY <1>1
  <1>4. QED
    BY <1>1, <1>2, <1>3 DEF ClocksIInv

LEMMA BuildIInv == ClocksIInv /\ Build => ClocksIInv'
  <1> SUFFICES ASSUME ClocksIInv, Build PROVE ClocksIInv'
    OBVIOUS
  <1>1. /\ catalog \in Catalogs /\ t0 \in Anchors /\ t0 \in Nat
        /\ wall = 0 /\ read = FALSE /\ posts = <<>>
    BY ConstantsAssumption DEF ClocksIInv, Build
  <1>2. UNCHANGED <<catalog, t0, wall, read, posts>> /\ Watched' = Watched
    BY DEF Build, Watched
  <1>3. phase' \in {"loop", "raised"}
    BY DEF Build
  <1>4. \A i \in Watched : deadlines'[i] \in Int
    <2>1. deadlines' = [i \in Watched |-> Deadline(catalog[i], t0)]
      BY DEF Build
    <2>2. \A i \in Watched : Deadline(catalog[i], t0) \in Int
      BY <1>1, WatchedFacts, DeadlineIsAnInstant
    <2>3. QED
      BY <2>1, <2>2
  <1>5. last_rank' = [i \in Watched |-> 0]
    BY Ranks DEF Build
  <1>6. RemembersTheLook'
    BY <1>1, <1>2, <1>4, <1>5 DEF RemembersTheLook
  <1>7. ToldUpToTheRank'
    BY <1>1, <1>2, <1>5 DEF ToldUpToTheRank
  <1>8. (posts \in Seq([clock : Watched, tier : {"WARN", "CRITICAL", "BREACH"},
                        to : SUBSET Drafters]))'
    BY <1>1, <1>2
  <1>9. QED
    BY <1>1, <1>2, <1>3, <1>6, <1>7, <1>8 DEF ClocksIInv

LEMMA LookIInv ==
  ASSUME ClocksIInv, NEW w \in Int, Look(w)
  PROVE  ClocksIInv'
  <1> DEFINE now == BoardNow(w)
             rank(i) == TierRank(Tier(i, now))
             crossing == { i \in Watched : Crosses(i, now) }
             line == Snapshot(crossing)
             told == [k \in DOMAIN line |-> Escalation(line[k], now)]
  <1>1. /\ catalog \in Catalogs /\ t0 \in Anchors /\ wall \in Int /\ read \in BOOLEAN
        /\ posts \in Seq(Escalations) /\ phase = "loop"
    BY DEF ClocksIInv, Look, Escalations
  <1>2. /\ \A i \in Watched : deadlines[i] \in Int /\ last_rank[i] \in 0..3
        /\ last_rank \in [Watched -> 0..3]
        /\ RemembersTheLook /\ ToldUpToTheRank
    BY DEF ClocksIInv, Look, RemembersTheLook
  <1>3. /\ UNCHANGED <<catalog, t0, deadlines>> /\ Watched' = Watched
        /\ \A i, t : Tier(i, t)' = Tier(i, t)
        /\ \A i : Addressees(i)' = Addressees(i)
        /\ \A t : BoardNow(t)' = BoardNow(t)
    BY DEF Look, Watched, Tier, Addressees, BoardNow
  <1>4. CASE Stalled(w)
    <2>1. phase' = "over" /\ UNCHANGED <<wall, read, last_rank, posts>>
      BY <1>4 DEF Look
    <2>2. RemembersTheLook'
      BY <1>2, <1>3, <2>1 DEF RemembersTheLook
    <2>3. ToldUpToTheRank'
      BY <1>2, <1>3, <2>1 DEF ToldUpToTheRank
    <2>4. QED
      BY <1>1, <1>3, <2>1, <2>2, <2>3 DEF ClocksIInv, Escalations
  <1>5. CASE ~Stalled(w)
    <2>1. /\ wall' = w /\ read' = TRUE /\ posts' = posts \o told
          /\ last_rank' = [i \in Watched |-> Max({last_rank[i], rank(i)})]
          /\ phase' \in {"over", "sleep"}
      BY <1>5 DEF Look
    <2>2. now \in Int /\ \A i \in Watched : rank(i) \in 0..3
      BY <1>1, <1>2, BoardTime, TierFacts
    <2>3. \A i \in Watched : last_rank[i] <= rank(i)
      <3>1. CASE read
        <4>1. BoardNow(wall) \in Int /\ BoardNow(wall) <= now
          BY <1>1, <1>5, <3>1, BoardTime DEF Stalled
        <4>2. \A i \in Watched : last_rank[i] = TierRank(Tier(i, BoardNow(wall)))
          BY <1>2, <3>1 DEF RemembersTheLook
        <4>3. QED
          BY <1>1, <1>2, <2>2, <4>1, <4>2, TierFacts
      <3>2. CASE ~read
        BY <1>2, <2>2, <3>2 DEF RemembersTheLook
      <3>3. QED
        BY <1>1, <3>1, <3>2
    <2> HIDE DEF rank
    <2>4. last_rank' = [i \in Watched |-> rank(i)]
      <3>1. \A i \in Watched : Max({last_rank[i], rank(i)}) = rank(i)
        <4>1. TAKE i \in Watched
        <4>2. last_rank[i] \in Int /\ rank(i) \in Int /\ last_rank[i] <= rank(i)
          BY <1>2, <2>2, <2>3
        <4>3. QED
          BY <4>2, MaxOfTwo
      <3>2. QED
        BY <2>1, <3>1
    <2>5. RemembersTheLook'
      <3>1. last_rank' \in [Watched -> 0..3]
        BY <2>2, <2>4
      <3>2. \A i \in Watched : last_rank'[i] = TierRank(Tier(i, now))
        BY <2>4 DEF rank
      <3> HIDE DEF now
      <3>3. now = BoardNow(w)
        BY DEF now
      <3>4. QED
        BY <1>2, <1>3, <2>1, <3>1, <3>2, <3>3 DEF RemembersTheLook
    <2>6. /\ crossing \subseteq Watched
          /\ \A i \in Watched : i \in crossing <=> last_rank[i] < rank(i)
      BY <1>2, <2>2 DEF Crosses, rank
    <2>7. /\ Cardinality(crossing) \in Nat /\ DOMAIN line = 1..Cardinality(crossing)
          /\ \A n \in DOMAIN line : line[n] \in crossing
          /\ \A m, n \in DOMAIN line : line[m] = line[n] => m = n
          /\ \A i \in crossing : \E n \in DOMAIN line : line[n] = i
      <3>1. IsFiniteSet(crossing) /\ crossing \subseteq Nat
        BY <1>1, <2>6, WatchedFacts, FS_Subset
      <3>2. \A i \in crossing : deadlines[i] \in Int
        BY <1>2, <2>6
      <3> HIDE DEF crossing
      <3>3. QED
        BY <3>1, <3>2, SnapshotListsEach
    <2> HIDE DEF crossing, line
    <2>8. \A k \in DOMAIN line :
            /\ told[k].clock = line[k] /\ told[k].to = Addressees(line[k])
            /\ TierRank(told[k].tier) = rank(line[k]) /\ told[k] \in Escalations
      <3>1. TAKE k \in DOMAIN line
      <3>2. told[k] = [clock |-> line[k], tier |-> Tier(line[k], now),
                       to |-> Addressees(line[k])]
        BY DEF Escalation
      <3>3. line[k] \in Watched /\ last_rank[line[k]] < rank(line[k])
        BY <2>6, <2>7
      <3>4. Tier(line[k], now) \in {"WARN", "CRITICAL", "BREACH"}
        <4>1. Tier(line[k], now) \in {"GREEN", "WARN", "CRITICAL", "BREACH"}
          BY <1>1, <1>2, <2>2, <3>3, TierFacts
        <4>2. rank(line[k]) # 0
          BY <1>2, <2>2, <3>3
        <4>3. QED
          BY <4>1, <4>2, Ranks DEF rank
      <3>5. Addressees(line[k]) \in SUBSET Drafters
        BY <1>1, <3>3, WatchedFacts
      <3>6. QED
        BY <3>2, <3>3, <3>4, <3>5 DEF Escalations, rank
    <2>9. told \in Seq(Escalations) /\ Len(told) = Cardinality(crossing)
      <3> HIDE DEF told
      <3>1. DOMAIN told = 1..Cardinality(crossing)
        BY <2>7 DEF told
      <3>2. told = [k \in 1..Cardinality(crossing) |-> told[k]]
        BY <2>7 DEF told
      <3>3. QED
        BY <2>7, <2>8, <3>1, <3>2
    <2> HIDE DEF told, now
    <2>10. /\ posts' \in Seq(Escalations) /\ Len(posts') = Len(posts) + Len(told)
           /\ \A k \in 1..Len(posts) : posts'[k] = posts[k]
           /\ \A k \in DOMAIN posts' : k \notin 1..Len(posts) =>
                /\ k - Len(posts) \in DOMAIN line /\ k > Len(posts)
                /\ posts'[k] = told[k - Len(posts)]
           /\ \A n \in DOMAIN line : n + Len(posts) \in DOMAIN posts'
                                    /\ posts'[n + Len(posts)] = told[n]
      BY <1>1, <2>1, <2>7, <2>9
    <2>11. ToldUpToTheRank'
      <3>1. \A k \in 1..Len(posts) :
              /\ posts[k].clock \in Watched /\ posts[k].to = Addressees(posts[k].clock)
              /\ TierRank(posts[k].tier) \in 1..last_rank[posts[k].clock]
        BY <1>1, <1>2 DEF ToldUpToTheRank
      <3>2. \A k \in DOMAIN posts' :
              /\ posts'[k].clock \in Watched /\ posts'[k].to = Addressees(posts'[k].clock)
              /\ TierRank(posts'[k].tier) \in 1..rank(posts'[k].clock)
              /\ k \in 1..Len(posts) => TierRank(posts'[k].tier) <= last_rank[posts'[k].clock]
              /\ k \notin 1..Len(posts) =>
                   /\ last_rank[posts'[k].clock] < rank(posts'[k].clock)
                   /\ TierRank(posts'[k].tier) = rank(posts'[k].clock)
        <4>1. TAKE k \in DOMAIN posts'
        <4>2. CASE k \in 1..Len(posts)
          <5>1. posts'[k] = posts[k]
            BY <2>10, <4>2
          <5>2. posts[k].clock \in Watched /\ last_rank[posts[k].clock] \in 0..3
                /\ rank(posts[k].clock) \in 0..3
                /\ last_rank[posts[k].clock] <= rank(posts[k].clock)
            BY <1>2, <2>2, <2>3, <3>1, <4>2
          <5>3. QED
            BY <3>1, <4>2, <5>1, <5>2
        <4>3. CASE k \notin 1..Len(posts)
          <5>1. PICK n \in DOMAIN line : posts'[k] = told[n]
            BY <2>10, <4>3
          <5>2. line[n] \in Watched /\ last_rank[line[n]] < rank(line[n])
                /\ last_rank[line[n]] \in 0..3 /\ rank(line[n]) \in 0..3
            BY <1>2, <2>2, <2>6, <2>7
          <5>3. QED
            BY <2>8, <4>3, <5>1, <5>2
        <4>4. QED
          BY <4>2, <4>3
      <3>3. \A j, k \in DOMAIN posts' :
              posts'[j].clock = posts'[k].clock /\ j < k =>
                TierRank(posts'[j].tier) < TierRank(posts'[k].tier)
        <4>1. TAKE j, k \in DOMAIN posts'
        <4>2. HAVE posts'[j].clock = posts'[k].clock /\ j < k
        <4>3. j \in Nat /\ k \in Nat /\ Len(posts) \in Nat /\ j >= 1
          BY <1>1, <2>10
        <4>4. CASE k \in 1..Len(posts)
          <5>1. j \in 1..Len(posts)
            BY <4>2, <4>3, <4>4
          <5>2. posts'[j] = posts[j] /\ posts'[k] = posts[k] /\ j \in DOMAIN posts
                /\ k \in DOMAIN posts
            BY <1>1, <2>10, <4>4, <5>1
          <5>3. QED
            BY <1>2, <4>2, <5>2 DEF ToldUpToTheRank
        <4>5. CASE k \notin 1..Len(posts) /\ j \in 1..Len(posts)
          <5>1. TierRank(posts'[j].tier) <= last_rank[posts'[k].clock]
                /\ TierRank(posts'[j].tier) \in Int
            BY <3>2, <4>2, <4>5
          <5>2. last_rank[posts'[k].clock] < TierRank(posts'[k].tier)
            BY <3>2, <4>5
          <5>3. last_rank[posts'[k].clock] \in Int /\ TierRank(posts'[k].tier) \in Int
            BY <1>2, <3>2
          <5>4. QED
            BY <5>1, <5>2, <5>3
        <4>6. CASE k \notin 1..Len(posts) /\ j \notin 1..Len(posts)
          <5>1. j - Len(posts) \in DOMAIN line /\ k - Len(posts) \in DOMAIN line
                /\ posts'[j] = told[j - Len(posts)] /\ posts'[k] = told[k - Len(posts)]
            BY <2>10, <4>6
          <5>2. line[j - Len(posts)] = line[k - Len(posts)]
            BY <2>8, <4>2, <5>1
          <5>3. j - Len(posts) = k - Len(posts)
            BY <2>7, <5>1, <5>2
          <5>4. QED
            BY <4>2, <4>3, <5>3
        <4>7. QED
          BY <4>4, <4>5, <4>6
      <3>4. \A i \in Watched : rank(i) # 0 =>
              \E k \in DOMAIN posts' :
                posts'[k].clock = i /\ TierRank(posts'[k].tier) = rank(i)
        <4>1. TAKE i \in Watched
        <4>2. HAVE rank(i) # 0
        <4>3. CASE i \in crossing
          <5>1. PICK n \in DOMAIN line : line[n] = i
            BY <2>7, <4>3
          <5>2. n + Len(posts) \in DOMAIN posts' /\ posts'[n + Len(posts)] = told[n]
            BY <2>10
          <5>3. told[n].clock = i /\ TierRank(told[n].tier) = rank(i)
            BY <2>8, <5>1
          <5>4. QED
            BY <5>2, <5>3
        <4>4. CASE i \notin crossing
          <5>1. last_rank[i] = rank(i)
            BY <1>2, <2>2, <2>3, <2>6, <4>4
          <5>2. PICK k \in DOMAIN posts :
                  posts[k].clock = i /\ TierRank(posts[k].tier) = last_rank[i]
            BY <1>2, <4>2, <5>1 DEF ToldUpToTheRank
          <5>3. k \in 1..Len(posts) /\ k \in DOMAIN posts' /\ posts'[k] = posts[k]
            BY <1>1, <2>7, <2>9, <2>10
          <5>4. QED
            BY <5>1, <5>2, <5>3
        <4>5. QED
          BY <4>3, <4>4
      <3>5. \A i \in Watched : last_rank'[i] = rank(i)
        BY <2>4
      <3>6. \A i \in Watched : Addressees(i)' = Addressees(i)
        BY <1>3
      <3>7. QED
        BY <1>3, <3>2, <3>3, <3>4, <3>5, <3>6 DEF ToldUpToTheRank
    <2>12. (posts \in Seq([clock : Watched, tier : {"WARN", "CRITICAL", "BREACH"},
                           to : SUBSET Drafters]))'
      BY <1>3, <2>10 DEF Escalations
    <2>13. QED
      BY <1>1, <1>3, <2>1, <2>5, <2>11, <2>12 DEF ClocksIInv
  <1>6. QED
    BY <1>4, <1>5

LEMMA ClocksNextIInv == ClocksIInv /\ [ClocksNext]_clockVars => ClocksIInv'
  <1> SUFFICES ASSUME ClocksIInv, [ClocksNext]_clockVars PROVE ClocksIInv'
    OBVIOUS
  <1>1. CASE Build
    BY <1>1, BuildIInv
  <1>2. ASSUME NEW tick \in Ticks, Look(wall + tick) PROVE ClocksIInv'
    <2>1. wall + tick \in Int
      BY ConstantsAssumption DEF ClocksIInv
    <2>2. QED
      BY <1>2, <2>1, LookIInv
  <1>3. CASE Wake \/ Ended \/ UNCHANGED clockVars
    <2>1. /\ UNCHANGED <<catalog, t0, deadlines, wall, read, last_rank, posts>>
          /\ UNCHANGED phase \/ (phase = "sleep" /\ phase' = "loop")
      BY <1>3 DEF Wake, Ended, clockVars
    <2>2. /\ Watched' = Watched
          /\ \A i, t : Tier(i, t)' = Tier(i, t)
          /\ \A i : Addressees(i)' = Addressees(i)
          /\ \A t : BoardNow(t)' = BoardNow(t)
      BY <2>1 DEF Watched, Tier, Addressees, BoardNow
    <2>3. RemembersTheLook => RemembersTheLook'
      BY <2>1, <2>2 DEF RemembersTheLook
    <2>4. ToldUpToTheRank => ToldUpToTheRank'
      BY <2>1, <2>2 DEF ToldUpToTheRank
    <2>5. QED
      BY <2>1, <2>2, <2>3, <2>4 DEF ClocksIInv
  <1>4. QED
    BY <1>1, <1>2, <1>3 DEF ClocksNext

\* The loop remembers the tiers of its last look, and what it told led up to them.
THEOREM ClocksInvariant == ClocksSpec => []ClocksIInv
  <1>1. QED
    BY ClocksInitIInv, ClocksNextIInv, PTL DEF ClocksSpec

\* For every catalog, calendar, anchor, compression and budget, and a wall clock
\* that jumps, stands still or steps back: each tier a clock was seen in is told
\* once, in rising order, to its drafter.  (_run_live_escalation)
THEOREM EachTierIsToldOnce == ClocksSpec => []ToldOnceAndInTime
  <1>1. ClocksIInv => ToldOnceAndInTime
    <2> SUFFICES ASSUME ClocksIInv, phase \in {"loop", "sleep", "over"}, NEW i \in Watched
                 PROVE  LET told == { k \in DOMAIN posts : posts[k].clock = i }
                            used == MarginsUsed(i, BoardNow(wall))
                        IN  /\ \A j, k \in told :
                                 j < k => TierRank(posts[j].tier) < TierRank(posts[k].tier)
                            /\ \A k \in told : TierRank(posts[k].tier) <= used
                            /\ read /\ used # 0 => \E k \in told : TierRank(posts[k].tier) = used
                            /\ \A k \in told : posts[k].to # {}
                                 /\ (catalog[i].base \in Drafters
                                        => posts[k].to = {catalog[i].base})
      BY DEF ToldOnceAndInTime
    <2> DEFINE used == MarginsUsed(i, BoardNow(wall))
    <2>1. /\ catalog \in Catalogs /\ t0 \in Anchors /\ wall \in Int
          /\ RemembersTheLook /\ ToldUpToTheRank
      BY DEF ClocksIInv
    <2>2. read => used = last_rank[i]
      <3>1. deadlines[i] \in Int
        BY <2>1 DEF RemembersTheLook
      <3>2. used = TierRank(Tier(i, BoardNow(wall)))
        BY <2>1, <3>1, BoardTime, TierFacts
      <3>3. QED
        BY <2>1, <3>2 DEF RemembersTheLook
    <2>3. ~read => posts = <<>>
      BY <2>1 DEF RemembersTheLook
    <2>4. last_rank[i] \in 0..3
      BY <2>1 DEF RemembersTheLook
    <2>5. Addressees(i) # {} /\ (catalog[i].base \in Drafters
                                   => Addressees(i) = {catalog[i].base})
      BY <2>1, WatchedFacts
    <2>6. \A k \in DOMAIN posts : posts[k].clock = i =>
            posts[k].to = Addressees(i) /\ TierRank(posts[k].tier) \in 1..last_rank[i]
      BY <2>1 DEF ToldUpToTheRank
    <2> HIDE DEF used
    <2>7. \A k \in DOMAIN posts : posts[k].clock = i => TierRank(posts[k].tier) <= used
      BY <2>2, <2>3, <2>4, <2>6
    <2>8. read /\ used # 0 =>
            \E k \in DOMAIN posts : posts[k].clock = i /\ TierRank(posts[k].tier) = used
      BY <2>1, <2>2 DEF ToldUpToTheRank
    <2>9. \A j, k \in DOMAIN posts :
            posts[j].clock = i /\ posts[k].clock = i /\ j < k =>
              TierRank(posts[j].tier) < TierRank(posts[k].tier)
      BY <2>1 DEF ToldUpToTheRank
    <2>10. QED
      BY <2>5, <2>6, <2>7, <2>8, <2>9 DEF used
  <1>2. QED
    BY <1>1, ClocksInvariant, PTL
=============================================================================
