------------------------------ MODULE LiveClocks ------------------------------
(***************************************************************************)
(* The live phase of a run (_run_live_escalation): the startup clocks of   *)
(* the catalog, anchored at a wall-clock instant, are looked at again and  *)
(* again, and every clock that has come into a more urgent tier since the  *)
(* last look is told to its drafter. The wall clock is the caller's: it    *)
(* may jump over tiers, stand still or step back.                          *)
(***************************************************************************)
EXTENDS StatutoryClocks, Sequences

CONSTANTS
  Catalogs,     \* the catalogs a board may be built from: sequences of regimes
  Anchors,      \* the instants at which a live run may start
  Drafters,     \* the branches with a drafter in the room
  Ticks,        \* what the wall clock may do between two readings, in seconds
  Duration,     \* the seconds of wall time the loop may use
  Compression   \* board seconds in one second of wall time

\* The margins a catalog may declare: the loader refuses any others.
MarginThresholds(regime) ==
  /\ regime.length \in Nat /\ regime.warn_margin \in Nat /\ regime.critical_margin \in Nat
  /\ regime.margins => 0 < regime.critical_margin /\ regime.critical_margin < regime.warn_margin

ASSUME ConstantsAssumption ==
  /\ Anchors \subseteq Nat /\ Drafters # {}
  /\ Ticks \subseteq Int /\ Duration \in Nat /\ Compression \in Nat \ {0}
  /\ \A c \in Catalogs :
       /\ IsFiniteSet(DOMAIN c) /\ DOMAIN c \subseteq Nat
       /\ \A i \in DOMAIN c : MarginThresholds(c[i])
       \* a branch with a drafter of its own has no hyphen in its name
       /\ \A i \in DOMAIN c : c[i].branch \in Drafters => c[i].base = c[i].branch

VARIABLES
  catalog,    \* the catalog of this board
  t0,         \* the instant its clocks are anchored at
  phase,      \* "start", "loop", "sleep", "over", or "raised"
  deadlines,  \* the deadline of each clock of the board
  wall,       \* the last reading of the wall clock, since the loop began
  read,       \* whether the loop has read it yet
  last_rank,  \* the highest tier each clock was seen in
  posts       \* what the Warden told the room

clockVars == <<catalog, t0, phase, deadlines, wall, read, last_rank, posts>>

\* The startup regimes with margins, by their place in the catalog.
Watched == { i \in DOMAIN catalog : catalog[i].mode = "startup" /\ catalog[i].margins }

ClocksInit ==
  /\ catalog \in Catalogs /\ t0 \in Anchors
  /\ phase = "start" /\ deadlines = <<>>
  /\ wall = 0 /\ read = FALSE /\ last_rank = <<>> /\ posts = <<>>

\* The board starts its clocks; a count that leaves the tables raises.
Build ==
  /\ phase = "start"
  /\ deadlines' = [i \in Watched |-> Deadline(catalog[i], t0)]
  /\ phase' = IF \E i \in Watched : deadlines'[i] = NotCovered THEN "raised" ELSE "loop"
  /\ last_rank' = [i \in Watched |-> TierRank("GREEN")]
  /\ UNCHANGED <<catalog, t0, wall, read, posts>>

BoardNow(w) == t0 + w * Compression
Tier(i, now) == Classify(catalog[i], deadlines[i], now)

\* The clocks, nearest deadline first, ties in the order they were started.
Nearer(i, j) == deadlines[i] < deadlines[j] \/ (deadlines[i] = deadlines[j] /\ i < j)
Snapshot(clocks) ==
  [n \in 1..Cardinality(clocks) |->
     CHOOSE i \in clocks : Cardinality({ j \in clocks : Nearer(j, i) }) = n - 1]

\* The drafter of a clock's branch, or of the branch it belongs to; the
\* whole room where neither has one.
Addressees(i) ==
  IF catalog[i].branch \in Drafters THEN {catalog[i].branch}
  ELSE IF catalog[i].base \in Drafters THEN {catalog[i].base}
  ELSE Drafters

\* Fault: a clock is announced at every look that finds it in a tier.
Crosses_AtEveryLook(i, now) ==
  TierRank(Tier(i, now)) > 0 /\ TierRank(Tier(i, now)) >= last_rank[i]

Crosses(i, now) == TierRank(Tier(i, now)) > last_rank[i]
Escalation(i, now) == [clock |-> i, tier |-> Tier(i, now), to |-> Addressees(i)]

\* Fault: the guard takes a clock that stands still for one that advances.
Stalled_OnlyBackwards(w) == read /\ w < wall

\* The stall guard: a wall clock that did not advance ends the loop.
Stalled(w) == read /\ w <= wall

\* One iteration of the loop at a reading of the wall clock.
Look(w) ==
  /\ phase = "loop"
  /\ IF Stalled(w)
     THEN phase' = "over" /\ UNCHANGED <<wall, read, last_rank, posts>>
     ELSE LET now == BoardNow(w)
              crossing == Snapshot({ i \in Watched : Crosses(i, now) })
          IN  /\ wall' = w /\ read' = TRUE
              /\ posts' = posts \o [k \in DOMAIN crossing |-> Escalation(crossing[k], now)]
              /\ last_rank' = [i \in Watched |-> Max({last_rank[i], TierRank(Tier(i, now))})]
              /\ phase' = IF (\A i \in Watched : last_rank'[i] = TierRank("BREACH")) \/ w >= Duration
                          THEN "over" ELSE "sleep"
  /\ UNCHANGED <<catalog, t0, deadlines>>

\* The loop sleeps between two iterations.
Wake == phase = "sleep" /\ phase' = "loop" /\ UNCHANGED <<catalog, t0, deadlines, wall, read, last_rank, posts>>

Ended == phase \in {"over", "raised"} /\ UNCHANGED clockVars

ClocksNext == Build \/ (\E tick \in Ticks : Look(wall + tick)) \/ Wake \/ Ended

\* The live phase is a plain loop on the run's own thread; nothing is asked of
\* the wall clock.
ClocksSpec == ClocksInit /\ [][ClocksNext]_clockVars /\ WF_clockVars(Build \/ (\E tick \in Ticks : Look(wall + tick)) \/ Wake)

-----------------------------------------------------------------------------
\* The SEC clock of the board, and every business-day clock of its calendar,
\* whatever day it starts, ends where the law of the calendar says.
DeadlinesAreLawful ==
  phase = "start" => \A i \in Watched :
    catalog[i].business_days => CountIsLawful(catalog[i].holiday_calendar)

\* How many of a regime's margins a clock has used up: its tier, said otherwise.
MarginsUsed(i, now) ==
  Cardinality({ m \in {catalog[i].warn_margin, catalog[i].critical_margin, 0} : now + m >= deadlines[i] })

\* At every look the room has been told of exactly the tiers a clock was seen
\* in: each once, in rising order, to somebody, and none that is behind the
\* clock's tier at that look. Tiers the wall clock jumped over stay untold.
ToldOnceAndInTime ==
  phase \in {"loop", "sleep", "over"} => \A i \in Watched :
    LET told == { k \in DOMAIN posts : posts[k].clock = i }
        used == MarginsUsed(i, BoardNow(wall))
    IN  /\ \A j, k \in told : j < k => TierRank(posts[j].tier) < TierRank(posts[k].tier)
        /\ \A k \in told : TierRank(posts[k].tier) <= used
        /\ read /\ used # 0 => \E k \in told : TierRank(posts[k].tier) = used
        /\ \A k \in told : posts[k].to # {}
                           /\ (catalog[i].base \in Drafters => posts[k].to = {catalog[i].base})

\* Before the first look nothing was told; after it every clock is remembered in
\* the tier of the last look.
RemembersTheLook ==
  /\ last_rank \in [Watched -> 0..3]
  /\ \A i \in Watched : deadlines[i] \in Int
  /\ ~read => posts = <<>> /\ \A i \in Watched : last_rank[i] = 0
  /\ read => \A i \in Watched : last_rank[i] = TierRank(Tier(i, BoardNow(wall)))

\* What was told of a clock rose to the tier it is remembered in.
ToldUpToTheRank ==
  /\ \A k \in DOMAIN posts :
       /\ posts[k].clock \in Watched /\ posts[k].to = Addressees(posts[k].clock)
       /\ TierRank(posts[k].tier) \in 1..last_rank[posts[k].clock]
  /\ \A j, k \in DOMAIN posts :
       posts[j].clock = posts[k].clock /\ j < k =>
         TierRank(posts[j].tier) < TierRank(posts[k].tier)
  /\ \A i \in Watched : last_rank[i] # 0 =>
       \E k \in DOMAIN posts :
         posts[k].clock = i /\ TierRank(posts[k].tier) = last_rank[i]

ClocksIInv ==
  /\ catalog \in Catalogs /\ t0 \in Anchors /\ wall \in Int /\ read \in BOOLEAN
  /\ phase \in {"start", "loop", "sleep", "over", "raised"}
  /\ posts \in Seq([clock : Watched, tier : {"WARN", "CRITICAL", "BREACH"},
                    to : SUBSET Drafters])
  /\ phase = "start" => wall = 0 /\ ~read /\ posts = <<>>
  /\ phase \in {"loop", "sleep", "over"} => RemembersTheLook /\ ToldUpToTheRank

\* Whatever the wall clock does, the live phase ends and the run with it.
EscalationEnds == <>(phase \in {"over", "raised"})
=============================================================================
