------------------------- MODULE ExaminerPacketProofs -------------------------
(***************************************************************************)
(* For every set of command lines and slips: what the log of a branch      *)
(* holds, and that the packet of a sealed run and its sheets say what      *)
(* became of the run.                                                      *)
(***************************************************************************)
EXTENDS ExaminerPacket, FilingFloorProofs

-----------------------------------------------------------------------------
(***************************************************************************)
(* The rows a branch logs.                                                 *)
(***************************************************************************)
\* A branch is spoken to at most five times in one step, and each event meets
\* the state the one before it left.
LEMMA BeforeFacts ==
  ASSUME NEW b, NEW said \in Seq(Spoken), Len(said) <= 5
  PROVE  /\ 1 \in 1..Len(said) => Before(b, said)[1] = state[b]
         /\ \A i \in 1..Len(said) : i # 1 =>
              Before(b, said)[i] =
                NextState(Before(b, said)[i - 1], said[i - 1].event, said[i - 1].role)
  <1> DEFINE N(s, i) == NextState(s, said[i].event, said[i].role)
             s2 == N(state[b], 1)
             s3 == N(s2, 2)
             s4 == N(s3, 3)
             s5 == N(s4, 4)
             g == [i \in 1..Len(said) |->
                     IF i = 1 THEN state[b] ELSE IF i = 2 THEN s2
                     ELSE IF i = 3 THEN s3 ELSE IF i = 4 THEN s4 ELSE s5]
             Is(f) == f = [i \in 1..Len(said) |->
                             IF i = 1 THEN state[b]
                             ELSE NextState(f[i - 1], said[i - 1].event, said[i - 1].role)]
  <1>0. Len(said) \in Nat
    BY LenProperties
  <1>1. Is(g)
    <2>1. ASSUME NEW i \in 1..Len(said), i # 1
          PROVE  /\ i - 1 \in 1..Len(said)
                 /\ i = 2 \/ i = 3 \/ i = 4 \/ i = 5
      BY <1>0, <2>1
    <2>2. ASSUME NEW i \in 1..Len(said), i # 1
          PROVE  g[i] = NextState(g[i - 1], said[i - 1].event, said[i - 1].role)
      <3>1. CASE i = 2
        BY <2>1, <2>2, <3>1
      <3>2. CASE i = 3
        BY <2>1, <2>2, <3>2
      <3>3. CASE i = 4
        BY <2>1, <2>2, <3>3
      <3>4. CASE i = 5
        BY <2>1, <2>2, <3>4
      <3>5. QED
        BY <2>1, <2>2, <3>1, <3>2, <3>3, <3>4
    <2>3. \A i \in 1..Len(said) : i = 1 => g[i] = state[b]
      OBVIOUS
    <2> HIDE DEF g
    <2>4. g = [i \in 1..Len(said) |-> g[i]]
      BY DEF g
    <2>5. QED
      BY <2>2, <2>3, <2>4
  <1> HIDE DEF g
  <1>2. Is(CHOOSE f : Is(f))
    BY <1>1
  <1>3. Before(b, said) = CHOOSE f : Is(f)
    BY DEF Before
  <1>4. Is(Before(b, said))
    BY <1>2, <1>3
  <1>5. QED
    BY <1>4, <1>0

LEMMA RecordTyped ==
  ASSUME NEW b, NEW said \in Seq(Spoken)
  PROVE  /\ Record(b, said) \in Seq(Row) /\ Len(Record(b, said)) = Len(said)
         /\ \A i \in 1..Len(said) : Record(b, said)[i] \in Row
  <1>1. DOMAIN said = 1..Len(said) /\ Len(said) \in Nat
        /\ \A i \in 1..Len(said) : said[i] \in Spoken
    BY LenProperties, ElementOfSeq
  <1> DEFINE new == Record(b, said)
  <1>2. ASSUME NEW i \in 1..Len(said) PROVE new[i] \in Row
    <2>1. new[i] = [event |-> said[i].event, role |-> said[i].role,
                    actor |-> said[i].actor, ts |-> said[i].ts,
                    admitted |-> Admits(Before(b, said)[i], said[i].event, said[i].role)]
      BY <1>1 DEF Record
    <2>2. Admits(Before(b, said)[i], said[i].event, said[i].role) \in BOOLEAN
      BY Zenon DEF Admits
    <2>3. said[i] \in Spoken
      BY <1>1
    <2>4. QED
      BY <2>1, <2>2, <2>3 DEF Spoken, Row
  <1>3. DOMAIN new = 1..Len(said)
    BY <1>1 DEF Record
  <1>4. new = [i \in 1..Len(said) |-> new[i]]
    BY <1>1, <1>3 DEF Record
  <1> HIDE DEF new
  <1>5. new \in Seq(Row) /\ Len(new) = Len(said)
    <2>1. new \in [1..Len(said) -> Row]
      BY <1>2, <1>4
    <2>2. QED
      BY <1>1, <1>3, <2>1, LenProperties
  <1>6. QED
    BY <1>2, <1>5 DEF new

\* What a branch logs is appended to what it has logged.
LEMMA LogRow ==
  ASSUME NEW b, NEW said \in Seq(Spoken), Len(said) <= 5, rows[b] \in Seq(Row),
         rows'[b] = rows[b] \o Record(b, said)
  PROVE  /\ rows'[b] \in Seq(Row)
         /\ RowsOf(b)' = RowsOf(b) \cup { Record(b, said)[i] : i \in 1..Len(said) }
         /\ \A i \in 1..Len(said) : Record(b, said)[i] \in Row
  <1>1. Len(said) \in Nat
    BY LenProperties
  <1> DEFINE new == Record(b, said)
  <1>2. \A i \in 1..Len(said) : new[i] \in Row
    BY RecordTyped
  <1>3. new \in Seq(Row) /\ Len(new) = Len(said)
    BY RecordTyped
  <1> HIDE DEF new
  <1> DEFINE old == rows[b]
             now == rows'[b]
  <1> HIDE DEF old, now
  <1>4. /\ now \in Seq(Row) /\ Len(now) = Len(old) + Len(new)
        /\ \A i \in 1..(Len(old) + Len(new)) :
             now[i] = IF i <= Len(old) THEN old[i] ELSE new[i - Len(old)]
    <2>1. now = old \o new
      BY DEF old, now, new
    <2>2. old \in Seq(Row)
      BY DEF old
    <2>3. PICK RowSet : RowSet = Row
      OBVIOUS
    <2>4. old \in Seq(RowSet) /\ new \in Seq(RowSet)
      BY <1>3, <2>2, <2>3
    <2>5. /\ old \o new \in Seq(RowSet) /\ Len(old \o new) = Len(old) + Len(new)
          /\ \A i \in 1..(Len(old) + Len(new)) :
               (old \o new)[i] = IF i <= Len(old) THEN old[i] ELSE new[i - Len(old)]
      BY <2>4, ConcatProperties
    <2>6. QED
      BY <2>1, <2>3, <2>5, Zenon
  <1>5. DOMAIN old = 1..Len(old) /\ DOMAIN now = 1..Len(now) /\ Len(old) \in Nat
    BY <1>4, LenProperties DEF old
  <1>6. { now[i] : i \in DOMAIN now } = { old[i] : i \in DOMAIN old } \cup { new[i] : i \in 1..Len(said) }
    <2>1. ASSUME NEW i \in DOMAIN now
          PROVE  now[i] \in { old[j] : j \in DOMAIN old } \cup { new[j] : j \in 1..Len(said) }
      BY <1>1, <1>3, <1>4, <1>5
    <2>2. ASSUME NEW i \in DOMAIN old PROVE old[i] \in { now[j] : j \in DOMAIN now }
      <3>1. i \in 1..(Len(old) + Len(new)) /\ i <= Len(old) /\ i \in DOMAIN now
        BY <1>1, <1>3, <1>4, <1>5
      <3>2. now[i] = old[i]
        BY <1>4, <3>1
      <3>3. QED
        BY <3>1, <3>2
    <2>3. ASSUME NEW i \in 1..Len(said) PROVE new[i] \in { now[j] : j \in DOMAIN now }
      <3> DEFINE k == Len(old) + i
      <3>1. /\ k \in 1..(Len(old) + Len(new)) /\ k \in DOMAIN now
            /\ ~(k <= Len(old)) /\ k - Len(old) = i
        BY <1>1, <1>3, <1>4, <1>5
      <3> HIDE DEF k
      <3>2. now[k] = new[i]
        BY <1>4, <3>1
      <3>3. QED
        BY <3>1, <3>2
    <2>4. QED
      BY <2>1, <2>2, <2>3
  <1>7. RowsOf(b)' = { now[i] : i \in DOMAIN now } /\ RowsOf(b) = { old[i] : i \in DOMAIN old }
    BY DEF RowsOf, now, old
  <1>8. RowsOf(b)' = RowsOf(b) \cup { new[i] : i \in 1..Len(said) }
    BY <1>6, <1>7
  <1>9. now \in Seq(Row) /\ \A i \in 1..Len(said) : new[i] \in Row
    BY <1>2, <1>4
  <1>10. QED
    BY <1>8, <1>9 DEF now, new

LEMMA RecordFields ==
  ASSUME NEW b, NEW said \in Seq(Spoken), NEW i \in 1..Len(said)
  PROVE  /\ Record(b, said)[i].event = said[i].event
         /\ Record(b, said)[i].ts = said[i].ts
         /\ Record(b, said)[i].admitted
              <=> Admits(Before(b, said)[i], said[i].event, said[i].role)
  <1>1. i \in DOMAIN said
    BY LenProperties
  <1>2. Record(b, said)[i] =
          [event |-> said[i].event, role |-> said[i].role,
           actor |-> said[i].actor, ts |-> said[i].ts,
           admitted |-> Admits(Before(b, said)[i], said[i].event, said[i].role)]
    BY <1>1 DEF Record
  <1>3. Record(b, said)[i].admitted = Admits(Before(b, said)[i], said[i].event, said[i].role)
    BY <1>2
  <1>4. QED
    BY <1>2, <1>3

\* An event that moves a branch was admitted.
LEMMA MovedIsAdmitted ==
  ASSUME NEW s, NEW e, NEW role, NextState(s, e, role) # s
  PROVE  Admits(s, e, role)
  BY DEF NextState

\* The minutes of the script.
LEMMA Minutes ==
  /\ TS_FACTS \in Nat /\ TS_DRAFT \in Nat /\ TS_DIFF \in Nat /\ TS_RESOLVE \in Nat
  /\ TS_RELEASE \in Nat /\ TS_AMEND \in Nat /\ TS_CURE \in Nat
  /\ TS_AMEND_RELEASE \in Nat /\ Anchor \in Nat
  /\ \A n \in Nat : NoticeAt(n) \in Nat
  /\ \A b : RecruitedAt(b) + 1 \in Nat /\ RecruitDraftAt(b) \in Nat /\ ReleasedAt(b) \in Nat
  <1>1. Anchor \in Nat
    BY DEF Anchor, TS_RELEASE, TS_AMEND_RELEASE
  <1>2. \A n \in Nat : NoticeAt(n) \in Nat
    BY <1>1 DEF NoticeAt
  <1>3. QED
    BY <1>1, <1>2 DEF TS_FACTS, TS_DRAFT, TS_DIFF, TS_RESOLVE, TS_RELEASE, TS_AMEND,
       TS_CURE, TS_AMEND_RELEASE, RecruitedAt, RecruitDraftAt, ReleasedAt

LEMMA Speakers ==
  /\ \A ts \in Nat : \A e \in {"fact_record_posted", "fact_amended"} : ByTriage(e, ts) \in Spoken
  /\ \A ts \in Nat : \A e \in {"diff_passed", "diff_blocked", "signoff_opened"} :
       ByWarden(e, ts) \in Spoken
  /\ \A ts \in Nat : \A e \in {"draft_started", "draft_posted"} : \A b \in Branches :
       ByDrafter(b, e, ts) \in Spoken
  /\ \A ts \in Nat : Said("suppress", "materiality", "materiality", ts) \in Spoken
  /\ \A ts \in Nat : Said("human_released", "human_owner", "lena", ts) \in Spoken
  <1>1. /\ EVENT_AUTHORITY["fact_record_posted"] = {"triage"}
        /\ EVENT_AUTHORITY["fact_amended"] = {"triage"}
        /\ EVENT_AUTHORITY["diff_passed"] = {"warden"}
        /\ EVENT_AUTHORITY["diff_blocked"] = {"warden"}
        /\ EVENT_AUTHORITY["signoff_opened"] = {"warden"}
        /\ EVENT_AUTHORITY["draft_started"] = {"drafter"}
        /\ EVENT_AUTHORITY["draft_posted"] = {"drafter"}
        /\ EVENT_AUTHORITY["suppress"] = {"materiality"}
        /\ EVENT_AUTHORITY["human_released"] = {"human_owner", "human_admin"}
    BY DEF EVENT_AUTHORITY, Event
  <1>2. {"triage", "warden", "drafter", "materiality", "human_owner"} \subseteq Roles
    <2>1. /\ "fact_amended" \in Event /\ "diff_passed" \in Event /\ "draft_posted" \in Event
          /\ "suppress" \in Event /\ "human_released" \in Event
      BY DEF Event
    <2>2. ASSUME NEW e \in Event, NEW role \in EVENT_AUTHORITY[e] PROVE role \in Roles
      BY <2>2 DEF Roles
    <2>3. QED
      BY <1>1, <2>1, <2>2
  <1>3. /\ Voice["triage"] = {"triage"} /\ Voice["warden"] = {"warden"}
        /\ Voice["materiality"] = {"materiality"} /\ Voice["human_owner"] = {"lena"}
        /\ Voice["drafter"] = { DrafterOf[b] : b \in Branches }
    BY DEF Voice
  <1>4. ASSUME NEW e \in Event, NEW role \in EVENT_AUTHORITY[e], NEW actor \in Voice[role],
               role \in Roles, NEW ts \in Nat
        PROVE  Said(e, role, actor, ts) \in Spoken
    BY <1>4 DEF Said, Spoken, Voices
  <1>5. QED
    BY <1>1, <1>2, <1>3, <1>4 DEF ByTriage, ByWarden, ByDrafter, Event

LEMMA TwoScripts ==
  ASSUME NEW s \in Seq(Spoken), NEW t \in Seq(Spoken)
  PROVE  /\ s \o t \in Seq(Spoken) /\ Len(s \o t) = Len(s) + Len(t)
         /\ \A i \in 1..Len(s) : (s \o t)[i] = s[i]
         /\ \A i \in 1..Len(t) : (s \o t)[Len(s) + i] = t[i]
  <1>1. Len(s) \in Nat /\ Len(t) \in Nat
    BY LenProperties
  <1>2. /\ s \o t \in Seq(Spoken) /\ Len(s \o t) = Len(s) + Len(t)
        /\ \A i \in 1..(Len(s) + Len(t)) :
             (s \o t)[i] = IF i <= Len(s) THEN s[i] ELSE t[i - Len(s)]
    BY ConcatProperties
  <1>3. \A i \in 1..Len(s) : i \in 1..(Len(s) + Len(t)) /\ i <= Len(s)
    BY <1>1
  <1>4. \A i \in 1..Len(t) : /\ Len(s) + i \in 1..(Len(s) + Len(t))
                            /\ ~(Len(s) + i <= Len(s)) /\ (Len(s) + i) - Len(s) = i
    BY <1>1
  <1>5. \A i \in 1..Len(s) : (s \o t)[i] = s[i]
    BY <1>2, <1>3
  <1>6. ASSUME NEW i \in 1..Len(t) PROVE (s \o t)[Len(s) + i] = t[i]
    <2> DEFINE k == Len(s) + i
    <2>1. k \in 1..(Len(s) + Len(t)) /\ ~(k <= Len(s)) /\ k - Len(s) = i
      BY <1>4
    <2> HIDE DEF k
    <2>2. (s \o t)[k] = t[i]
      BY <1>2, <2>1
    <2>3. QED
      BY <2>2 DEF k
  <1>7. QED
    BY <1>2, <1>5, <1>6

\* What is said in each step.
LEMMA Scripts ==
  ASSUME NEW b \in Branches
  PROVE  /\ OpeningSaid(b) \in Seq(Spoken) /\ SuppressSaid(b) \in Seq(Spoken)
         /\ DraftSaid(b) \in Seq(Spoken) /\ RecruitSaid(b) \in Seq(Spoken)
         /\ DiffSaid(b) \in Seq(Spoken) /\ ResolveSaid(b) \in Seq(Spoken)
         /\ SignoffSaid(b) \in Seq(Spoken) /\ ReleaseSaid(b) \in Seq(Spoken)
         /\ AmendSaid(b) \in Seq(Spoken) /\ AmendedDraftSaid(b) \in Seq(Spoken)
         /\ RereleaseSaid(b) \in Seq(Spoken) /\ NoticeSaid(b) \in Seq(Spoken)
         /\ CureSaid(b) \in Seq(Spoken)
         /\ Len(OpeningSaid(b)) = 1 /\ Len(SuppressSaid(b)) = 1 /\ Len(DraftSaid(b)) = 2
         /\ Len(RecruitSaid(b)) = 3 /\ Len(DiffSaid(b)) = 1 /\ Len(ResolveSaid(b)) \in {1, 2}
         /\ Len(SignoffSaid(b)) = 1 /\ Len(ReleaseSaid(b)) = 1 /\ Len(AmendSaid(b)) = 1
         /\ Len(AmendedDraftSaid(b)) = 1 /\ Len(RereleaseSaid(b)) = 2
         /\ Len(NoticeSaid(b)) = 5 /\ Len(CureSaid(b)) = 3
  <1> USE Speakers, Minutes
  <1>1. /\ OpeningSaid(b) \in Seq(Spoken) /\ Len(OpeningSaid(b)) = 1
        /\ SuppressSaid(b) \in Seq(Spoken) /\ Len(SuppressSaid(b)) = 1
        /\ DraftSaid(b) \in Seq(Spoken) /\ Len(DraftSaid(b)) = 2
        /\ SignoffSaid(b) \in Seq(Spoken) /\ Len(SignoffSaid(b)) = 1
    BY DEF OpeningSaid, SuppressSaid, DraftSaid, SignoffSaid
  <1>2. /\ ReleaseSaid(b) \in Seq(Spoken) /\ Len(ReleaseSaid(b)) = 1
        /\ AmendSaid(b) \in Seq(Spoken) /\ Len(AmendSaid(b)) = 1
        /\ AmendedDraftSaid(b) \in Seq(Spoken) /\ Len(AmendedDraftSaid(b)) = 1
        /\ RereleaseSaid(b) \in Seq(Spoken) /\ Len(RereleaseSaid(b)) = 2
    BY DEF ReleaseSaid, AmendSaid, AmendedDraftSaid, RereleaseSaid
  <1>3. RecruitSaid(b) \in Seq(Spoken) /\ Len(RecruitSaid(b)) = 3
    BY DEF RecruitSaid
  <1>4. DiffSaid(b) \in Seq(Spoken) /\ Len(DiffSaid(b)) = 1
    BY DEF DiffSaid
  <1>5. ResolveSaid(b) \in Seq(Spoken) /\ Len(ResolveSaid(b)) \in {1, 2}
    BY DEF ResolveSaid
  <1>6. NoticeSaid(b) \in Seq(Spoken) /\ Len(NoticeSaid(b)) = 5
    <2>1. /\ ByTriage("fact_record_posted", NoticeAt(1)) \in Spoken
          /\ ByDrafter(b, "draft_started", NoticeAt(15)) \in Spoken
          /\ ByDrafter(b, "draft_posted", NoticeAt(15)) \in Spoken
          /\ ByWarden("diff_passed", NoticeAt(30)) \in Spoken
          /\ ByWarden("signoff_opened", NoticeAt(30)) \in Spoken
      OBVIOUS
    <2>2. QED
      BY <2>1 DEF NoticeSaid
  <1>7. CureSaid(b) \in Seq(Spoken) /\ Len(CureSaid(b)) = 3
    <2> DEFINE one == <<ByDrafter(b, "draft_posted", TS_CURE)>>
    <2>1. one \in Seq(Spoken) /\ Len(one) = 1
      OBVIOUS
    <2> HIDE DEF one
    <2>2. /\ one \o RereleaseSaid(b) \in Seq(Spoken)
          /\ Len(one \o RereleaseSaid(b)) = Len(one) + Len(RereleaseSaid(b))
      BY <1>2, <2>1, TwoScripts, Zenon
    <2> DEFINE cure == one \o RereleaseSaid(b)
    <2>3. cure \in Seq(Spoken) /\ Len(cure) = Len(one) + Len(RereleaseSaid(b))
      BY <2>2
    <2> HIDE DEF cure
    <2>4. cure \in Seq(Spoken) /\ Len(cure) = 3
      BY <1>2, <2>1, <2>3
    <2>5. QED
      BY <2>4, Zenon DEF CureSaid, one, cure
  <1>8. QED
    BY <1>1, <1>2, <1>3, <1>4, <1>5, <1>6, <1>7

\* Every one of these events is admitted.
Heard(b, said) == \A i \in 1..Len(said) : Record(b, said)[i].admitted

LEMMA RunAdmits ==
  /\ Admits("initiated", "fact_record_posted", "triage")
  /\ Admits("released", "fact_amended", "triage")
  /\ Admits("fact_record_ready", "draft_started", "drafter")
  /\ Admits("drafting", "draft_posted", "drafter")
  /\ Admits("amending", "draft_posted", "drafter")
  /\ Admits("draft_submitted", "diff_passed", "warden")
  /\ Admits("draft_submitted", "diff_blocked", "warden")
  /\ Admits("contradiction_checked", "signoff_opened", "warden")
  /\ Admits("awaiting_human_signoff", "human_released", "human_owner")
  BY RunMoves, MovedIsAdmitted DEF Triage, Drafter, Warden

LEMMA HeardOne ==
  ASSUME NEW b, NEW said \in Seq(Spoken), Len(said) = 1,
         Admits(state[b], said[1].event, said[1].role)
  PROVE  Heard(b, said)
  BY BeforeFacts, RecordFields DEF Heard

\* The same, one by one.
LEMMA BeforeEach ==
  ASSUME NEW b, NEW said \in Seq(Spoken), Len(said) <= 5
  PROVE  /\ 1 <= Len(said) => Before(b, said)[1] = state[b]
         /\ 2 <= Len(said) =>
              Before(b, said)[2] = NextState(Before(b, said)[1], said[1].event, said[1].role)
         /\ 3 <= Len(said) =>
              Before(b, said)[3] = NextState(Before(b, said)[2], said[2].event, said[2].role)
         /\ 4 <= Len(said) =>
              Before(b, said)[4] = NextState(Before(b, said)[3], said[3].event, said[3].role)
         /\ 5 <= Len(said) =>
              Before(b, said)[5] = NextState(Before(b, said)[4], said[4].event, said[4].role)
  <1>1. Len(said) \in Nat
    BY LenProperties
  <1> DEFINE h == Before(b, said)
             n == Len(said)
             Follows(i, j) ==
               h[i] = NextState(h[j], said[j].event, said[j].role)
  <1>2. /\ 1 \in 1..n => h[1] = state[b]
        /\ \A i \in 1..n : i # 1 => Follows(i, i - 1)
    BY BeforeFacts
  <1> HIDE DEF h, Follows
  <1>3. /\ 2 \in 1..n => Follows(2, 2 - 1)
        /\ 3 \in 1..n => Follows(3, 3 - 1)
        /\ 4 \in 1..n => Follows(4, 4 - 1)
        /\ 5 \in 1..n => Follows(5, 5 - 1)
    BY <1>2
  <1>4. /\ 2 \in 1..n => Follows(2, 1)
        /\ 3 \in 1..n => Follows(3, 2)
        /\ 4 \in 1..n => Follows(4, 3)
        /\ 5 \in 1..n => Follows(5, 4)
    BY <1>3
  <1> HIDE DEF n
  <1>5. /\ 1 <= n => 1 \in 1..n
        /\ 2 <= n => 2 \in 1..n
        /\ 3 <= n => 3 \in 1..n
        /\ 4 <= n => 4 \in 1..n
        /\ 5 <= n => 5 \in 1..n
    BY <1>1 DEF n
  <1>6. QED
    BY <1>2, <1>4, <1>5 DEF h, n, Follows

LEMMA HeardTwo ==
  ASSUME NEW b, NEW said \in Seq(Spoken), Len(said) = 2, NEW s,
         Admits(state[b], said[1].event, said[1].role),
         NextState(state[b], said[1].event, said[1].role) = s,
         Admits(s, said[2].event, said[2].role)
  PROVE  Heard(b, said)
  <1>1. Before(b, said)[1] = state[b] /\ Before(b, said)[2] = s
    BY BeforeEach
  <1>2. Record(b, said)[1].admitted /\ Record(b, said)[2].admitted
    BY <1>1, RecordFields
  <1>3. QED
    BY <1>2 DEF Heard

LEMMA HeardThree ==
  ASSUME NEW b, NEW said \in Seq(Spoken), Len(said) = 3, NEW s, NEW t,
         Admits(state[b], said[1].event, said[1].role),
         NextState(state[b], said[1].event, said[1].role) = s,
         Admits(s, said[2].event, said[2].role),
         NextState(s, said[2].event, said[2].role) = t,
         Admits(t, said[3].event, said[3].role)
  PROVE  Heard(b, said)
  <1> DEFINE h == Before(b, said)
             Next1 == NextState(h[1], said[1].event, said[1].role)
             Next2 == NextState(h[2], said[2].event, said[2].role)
  <1>0. Len(said) <= 5 /\ 1 <= Len(said) /\ 2 <= Len(said) /\ 3 <= Len(said)
    OBVIOUS
  <1>1. h[1] = state[b] /\ h[2] = Next1 /\ h[3] = Next2
    BY <1>0, BeforeEach, Zenon
  <1>2. h[2] = s
    BY <1>1
  <1>3. h[3] = t
    BY <1>1, <1>2
  <1> HIDE DEF h, Next1, Next2
  <1>4. Record(b, said)[1].admitted
    BY <1>1, RecordFields DEF h
  <1>5. Record(b, said)[2].admitted
    BY <1>2, RecordFields DEF h
  <1>6. Record(b, said)[3].admitted
    BY <1>3, RecordFields DEF h
  <1>7. \A i \in 1..3 : i = 1 \/ i = 2 \/ i = 3
    OBVIOUS
  <1>8. QED
    BY <1>4, <1>5, <1>6, <1>7 DEF Heard

LEMMA HeardFive ==
  ASSUME NEW b, NEW said \in Seq(Spoken), Len(said) = 5, NEW s, NEW t, NEW u, NEW v,
         Admits(state[b], said[1].event, said[1].role),
         NextState(state[b], said[1].event, said[1].role) = s,
         Admits(s, said[2].event, said[2].role),
         NextState(s, said[2].event, said[2].role) = t,
         Admits(t, said[3].event, said[3].role),
         NextState(t, said[3].event, said[3].role) = u,
         Admits(u, said[4].event, said[4].role),
         NextState(u, said[4].event, said[4].role) = v,
         Admits(v, said[5].event, said[5].role)
  PROVE  Heard(b, said)
  <1> DEFINE h == Before(b, said)
             Next1 == NextState(h[1], said[1].event, said[1].role)
             Next2 == NextState(h[2], said[2].event, said[2].role)
             Next3 == NextState(h[3], said[3].event, said[3].role)
             Next4 == NextState(h[4], said[4].event, said[4].role)
  <1>0. /\ Len(said) <= 5 /\ 1 <= Len(said) /\ 2 <= Len(said) /\ 3 <= Len(said)
        /\ 4 <= Len(said) /\ 5 <= Len(said)
    OBVIOUS
  <1>1. h[1] = state[b] /\ h[2] = Next1 /\ h[3] = Next2 /\ h[4] = Next3 /\ h[5] = Next4
    <2>1. h[1] = state[b]
      BY <1>0, BeforeEach, Zenon
    <2>2. h[2] = Next1
      BY <1>0, BeforeEach, Zenon
    <2>3. h[3] = Next2
      BY <1>0, BeforeEach, Zenon
    <2>4. h[4] = Next3
      BY <1>0, BeforeEach, Zenon
    <2>5. h[5] = Next4
      BY <1>0, BeforeEach, Zenon
    <2>6. QED
      BY <2>1, <2>2, <2>3, <2>4, <2>5, Zenon
  <1>2. h[2] = s
    BY <1>1
  <1>3. h[3] = t
    BY <1>1, <1>2
  <1>4. h[4] = u
    BY <1>1, <1>3
  <1>5. h[5] = v
    BY <1>1, <1>4
  <1>6. /\ 1 \in 1..Len(said) /\ 2 \in 1..Len(said) /\ 3 \in 1..Len(said)
        /\ 4 \in 1..Len(said) /\ 5 \in 1..Len(said)
    OBVIOUS
  <1> DEFINE R(i) == Record(b, said)[i].admitted
             A(i) == Admits(h[i], said[i].event, said[i].role)
  <1>7. (R(1) <=> A(1)) /\ (R(2) <=> A(2)) /\ (R(3) <=> A(3)) /\ (R(4) <=> A(4)) /\ (R(5) <=> A(5))
    BY <1>6, RecordFields, Zenon
  <1>8. A(1) /\ A(2) /\ A(3) /\ A(4) /\ A(5)
    BY <1>1, <1>2, <1>3, <1>4, <1>5, Zenon
  <1>9. \A i \in 1..5 : i = 1 \/ i = 2 \/ i = 3 \/ i = 4 \/ i = 5
    OBVIOUS
  <1> HIDE DEF R, A
  <1>10. \A i \in 1..Len(said) : R(i)
    BY <1>7, <1>8, <1>9
  <1>11. QED
    BY <1>10 DEF Heard, R

\* What a branch is told in the state the driver finds it in is admitted.
LEMMA ScriptsAreHeard ==
  ASSUME NEW b \in Branches
  PROVE  /\ state[b] = "initiated" =>
              Heard(b, OpeningSaid(b)) /\ Heard(b, RecruitSaid(b)) /\ Heard(b, NoticeSaid(b))
         /\ state[b] = "fact_record_ready" => Heard(b, DraftSaid(b))
         /\ state[b] = "draft_submitted" => Heard(b, DiffSaid(b)) /\ Heard(b, RereleaseSaid(b))
         /\ state[b] = "drafting" => Heard(b, ResolveSaid(b))
         /\ state[b] = "contradiction_checked" => Heard(b, SignoffSaid(b))
         /\ state[b] = "awaiting_human_signoff" => Heard(b, ReleaseSaid(b))
         /\ state[b] = "released" => Heard(b, AmendSaid(b))
         /\ state[b] = "amending" => Heard(b, AmendedDraftSaid(b)) /\ Heard(b, CureSaid(b))
  <1>1. ASSUME state[b] = "initiated" PROVE Heard(b, OpeningSaid(b))
    BY <1>1, Scripts, HeardOne, RunAdmits DEF OpeningSaid, ByTriage, Said
  <1>2. ASSUME state[b] = "contradiction_checked" PROVE Heard(b, SignoffSaid(b))
    BY <1>2, Scripts, HeardOne, RunAdmits DEF SignoffSaid, ByWarden, Said
  <1>3. ASSUME state[b] = "awaiting_human_signoff" PROVE Heard(b, ReleaseSaid(b))
    BY <1>3, Scripts, HeardOne, RunAdmits DEF ReleaseSaid, Said
  <1>4. ASSUME state[b] = "released" PROVE Heard(b, AmendSaid(b))
    BY <1>4, Scripts, HeardOne, RunAdmits DEF AmendSaid, ByTriage, Said
  <1>5. ASSUME state[b] = "amending" PROVE Heard(b, AmendedDraftSaid(b))
    BY <1>5, Scripts, HeardOne, RunAdmits DEF AmendedDraftSaid, ByDrafter, Said
  <1>6. ASSUME state[b] = "draft_submitted" PROVE Heard(b, DiffSaid(b))
    BY <1>6, Scripts, HeardOne, RunAdmits DEF DiffSaid, ByWarden, Said
  <1>7. ASSUME state[b] = "fact_record_ready" PROVE Heard(b, DraftSaid(b))
    BY <1>7, Scripts, HeardTwo, RunAdmits, RunMoves
       DEF DraftSaid, ByDrafter, Said, Drafter
  <1>8. ASSUME state[b] = "draft_submitted" PROVE Heard(b, RereleaseSaid(b))
    BY <1>8, Scripts, HeardTwo, RunAdmits, RunMoves
       DEF RereleaseSaid, ByWarden, Said, Warden
  <1>9. ASSUME state[b] = "initiated" PROVE Heard(b, RecruitSaid(b))
    BY <1>9, Scripts, HeardThree, RunAdmits, RunMoves
       DEF RecruitSaid, ByTriage, ByDrafter, Said, Triage, Drafter
  <1>10. ASSUME state[b] = "initiated" PROVE Heard(b, NoticeSaid(b))
    BY <1>10, Scripts, HeardFive, RunAdmits, RunMoves
       DEF NoticeSaid, ByTriage, ByDrafter, ByWarden, Said, Triage, Drafter, Warden
  <1>11. ASSUME state[b] = "drafting" PROVE Heard(b, ResolveSaid(b))
    <2> DEFINE said == ResolveSaid(b)
    <2>1. said \in Seq(Spoken)
      BY Scripts
    <2>2. said[1].event = "draft_posted" /\ said[1].role = "drafter"
      BY DEF ResolveSaid, ByDrafter, Said
    <2>3. \/ Len(said) = 1
          \/ Len(said) = 2 /\ said[2].event = "diff_passed" /\ said[2].role = "warden"
      BY DEF ResolveSaid, ByDrafter, ByWarden, Said
    <2> HIDE DEF said
    <2>4. CASE Len(said) = 1
      BY <1>11, <2>1, <2>2, <2>4, HeardOne, RunAdmits DEF said
    <2>5. CASE Len(said) = 2
      <3>1. said[2].event = "diff_passed" /\ said[2].role = "warden"
        BY <2>3, <2>5
      <3>2. Heard(b, said)
        BY <1>11, <2>1, <2>2, <2>5, <3>1, HeardTwo, RunAdmits, RunMoves DEF Drafter
      <3>3. QED
        BY <3>2 DEF said
    <2>6. QED
      BY <2>3, <2>4, <2>5
  <1>12. ASSUME state[b] = "amending" PROVE Heard(b, CureSaid(b))
    <2> DEFINE said == CureSaid(b)
    <2>1. said \in Seq(Spoken) /\ Len(said) = 3
      BY Scripts
    <2>2. /\ said[1].event = "draft_posted" /\ said[1].role = "drafter"
          /\ said[2].event = "diff_passed" /\ said[2].role = "warden"
          /\ said[3].event = "signoff_opened" /\ said[3].role = "warden"
      BY DEF CureSaid, RereleaseSaid, ByDrafter, ByWarden, Said
    <2> HIDE DEF said
    <2>3. Heard(b, said)
      BY <1>12, <2>1, <2>2, HeardThree, RunAdmits, RunMoves DEF Drafter, Warden
    <2>4. QED
      BY <2>3 DEF said
  <1>13. QED
    BY <1>1, <1>2, <1>3, <1>4, <1>5, <1>6, <1>7, <1>8, <1>9, <1>10, <1>11, <1>12
-----------------------------------------------------------------------------
(***************************************************************************)
(* What a step of the floor leaves as it was.                              *)
(***************************************************************************)
\* Where a step takes the driver.
LEMMA StepMoves ==
  ASSUME Drive
  PROVE  \/ step' = step
         \/ step' = "raised"
         \/ step \in PhaseNames \ {"seal"} /\ step' = After(step)
         \/ step = "cross_border" /\ step' = "cross_border_signoff"
         \/ step = "cross_border_signoff" /\ step' = After("cross_border")
         \/ step = "diff" /\ step' = "resolve"
         \/ step = "resolve" /\ step' = After("diff")
         \/ step = "seal" /\ step' = "sealed"
  <1> USE DEF Proceed, NextBranch, Raise, PhaseNames, Releases
  <1>1. CASE Open \/ Materiality \/ Reportability \/ SkipSuppressed \/ Draft \/ Recruit
    BY <1>1 DEF Open, Materiality, Reportability, SkipSuppressed, Draft, Recruit
  <1>2. CASE CrossBorderScan \/ CrossBorderSignoff \/ Diff \/ Resolve
    BY <1>2 DEF CrossBorderScan, CrossBorderSignoff, Diff, Resolve
  <1>3. CASE BeginRelease \/ SkipUnchecked \/ SignKey \/ Turn
    BY <1>3 DEF BeginRelease, SkipUnchecked, SignKey, Turn
  <1>4. CASE Amend \/ Propose \/ Concur \/ SubmitAmendment \/ AmendDiff \/ BeginRerelease
    BY <1>4 DEF Amend, Propose, Concur, SubmitAmendment, AmendDiff, BeginRerelease
  <1>5. CASE NoHighRisk \/ HighRisk \/ DeficiencyNotice \/ Cure \/ LiftHold \/ Submission \/ Seal
    BY <1>5 DEF NoHighRisk, HighRisk, DeficiencyNotice, Cure, LiftHold, Submission, Seal
  <1>6. QED
    BY <1>1, <1>2, <1>3, <1>4, <1>5 DEF Drive

Late == {"release", "amend", "propose", "concur", "amend_submit", "amend_diff",
         "amend_release", "affected_party", "deficiency", "cure", "lift_hold",
         "submission", "seal", "sealed"}

\* What follows the diff never comes before it.
LEMMA LateStays ==
  ASSUME IInv, Drive, ~CutShort, ~CutShort'
  PROVE  /\ step \in Early \cup Late /\ step' \in Early \cup Late
         /\ step \in Late => step' \in Late
         /\ step = "resolve" => step' \in Late \cup {"resolve"}
         /\ step \notin Early <=> step \in Late
         /\ step' \notin Early <=> step' \in Late
         /\ step \notin BeforeDiff <=> step \in Late \cup {"resolve"}
         /\ step' \notin BeforeDiff <=> step' \in Late \cup {"resolve"}
  <1>1. FloorTypeOK /\ Wanted(step) /\ scenario \in Scenarios
    BY IInvParts DEF Running, LoopOK, FloorTypeOK
  <1>2. IInv'
    BY NextIInv DEF Next
  <1>3. step \in Steps /\ step' \in Steps
    BY <1>1, <1>2 DEF IInv, FloorTypeOK
  <1>4. /\ step \in Early \cup Late /\ step' \in Early \cup Late
        /\ step \notin Early <=> step \in Late
        /\ step' \notin Early <=> step' \in Late
        /\ step \notin BeforeDiff <=> step \in Late \cup {"resolve"}
        /\ step' \notin BeforeDiff <=> step' \in Late \cup {"resolve"}
    BY <1>3, StepsAre DEF CutShort, Early, Joining, Late, BeforeDiff, PhaseNames
  <1>5. /\ step \in {"amend", "propose", "concur", "amend_submit", "amend_diff",
                     "amend_release"} => Amends
        /\ step = "affected_party" => scenario.mode = "affected_party"
        /\ step \in {"deficiency", "cure"} => scenario.mode = "deficiency"
    BY <1>1 DEF Wanted
  <1>6. step \in Late /\ step \in PhaseNames \ {"seal"} => After(step) \in Late
    <2>1. After("release") \in Late
      <3>1. After("release") = IF Amends THEN "amend"
                               ELSE CASE scenario.mode = "deficiency" -> "deficiency"
                                      [] scenario.mode = "legal_hold" -> "lift_hold"
                                      [] scenario.mode = "submit" -> "submission"
                                      [] OTHER -> "seal"
        BY <1>1, AfterTable
      <3>2. QED
        BY <3>1 DEF Late
    <2>2. After("lift_hold") \in Late /\ After("submission") \in Late
      BY <1>1, AfterTable DEF Late
    <2>3. Amends => \A p \in {"amend", "propose", "concur", "amend_submit", "amend_diff",
                              "amend_release"} : After(p) \in Late
      <3>1. Amends =>
              /\ After("amend") = "propose" /\ After("propose") = "concur"
              /\ After("concur") = "amend_submit" /\ After("amend_submit") = "amend_diff"
              /\ After("amend_diff") = "amend_release"
              /\ After("amend_release") \in {"affected_party", "seal"}
        BY <1>1, AfterTable
      <3>2. QED
        BY <3>1 DEF Late
    <2>4. /\ scenario.mode = "affected_party" => After("affected_party") \in Late
          /\ scenario.mode = "deficiency" => After("deficiency") \in Late /\ After("cure") \in Late
      BY <1>1, AfterTable DEF Late
    <2>5. step \in Late /\ step \in PhaseNames \ {"seal"} =>
            step \in {"release", "lift_hold", "submission", "amend", "propose", "concur",
                     "amend_submit", "amend_diff", "amend_release", "affected_party",
                     "deficiency", "cure"}
      BY DEF Late, PhaseNames
    <2>6. QED
      BY <1>5, <2>1, <2>2, <2>3, <2>4, <2>5
  <1>7. After("diff") \in Late
    BY <1>1, AfterTable DEF Late
  <1>8. "raised" # step'
    BY DEF CutShort
  <1>9. QED
    BY <1>4, <1>6, <1>7, <1>8, StepMoves DEF Late, PhaseNames

\* A branch is suppressed by a verdict and by nothing else, and stays so.
LEMMA SuppressedStays ==
  ASSUME FloorTypeOK, Drive, NEW b \in Branches
  PROVE  /\ state[b] = "suppressed" => state'[b] = "suppressed"
         /\ state'[b] = "suppressed" /\ state[b] # "suppressed" => Materiality \/ Reportability
  <1> DEFINE Keeps1(s, t) == t = "suppressed" <=> s = "suppressed"
  <1>0. state \in [Branches -> State]
    BY DEF FloorTypeOK
  <1>1. ASSUME NEW s \in State
        PROVE  /\ Keeps1(s, Triage(s, "fact_record_posted"))
               /\ Keeps1(s, Drafter(s, "draft_started"))
               /\ Keeps1(s, Drafter(s, "draft_posted"))
               /\ Keeps1(s, Warden(s, "diff_passed"))
               /\ Keeps1(s, Warden(s, "diff_blocked"))
               /\ Keeps1(s, Warden(s, "signoff_opened"))
               /\ Keeps1(s, Triage(s, "fact_amended"))
    BY EventMoves, RunMoves DEF Unchecked, Checked
  <1>2. ASSUME NEW s \in State
        PROVE  /\ Triage(s, "fact_record_posted") \in State
               /\ Drafter(s, "draft_started") \in State /\ Drafter(s, "draft_posted") \in State
               /\ Warden(s, "diff_passed") \in State
    BY NextStateTyped DEF Triage, Drafter, Warden
  <1>3. ASSUME NEW s \in State
        PROVE  /\ Keeps1(s, Drafter(Drafter(s, "draft_started"), "draft_posted"))
               /\ Keeps1(s, Drafter(Drafter(Triage(s, "fact_record_posted"), "draft_started"),
                                    "draft_posted"))
               /\ Keeps1(s, OpenSignoff(s))
               /\ Keeps1(s, OpenSignoff(Drafter(s, "draft_posted")))
               /\ Keeps1(s, Warden(Drafter(s, "draft_posted"), "diff_passed"))
    BY <1>1, <1>2 DEF OpenSignoff
  <1>4. ASSUME NEW s \in State
        PROVE  Keeps1(s, OpenSignoff(Drafter(Drafter(Triage(s, "fact_record_posted"),
                                                     "draft_started"), "draft_posted")))
    BY <1>1, <1>2, <1>3
  <1>5. NextState("awaiting_human_signoff", "human_released", "human_owner") = "released"
    BY RunMoves
  <1>6. \A s \in State : Admits(s, "human_released", "human_owner") <=> s = "awaiting_human_signoff"
    BY RunMoves
  <1> HIDE DEF Keeps1
  <1> DEFINE Fine == Keeps1(state[b], state'[b])
  <1>7. CASE Open
    BY <1>0, <1>1, <1>7 DEF Open, Keeps1
  <1>8. CASE Materiality \/ Reportability
    <2>1. state[b] = "suppressed" => state'[b] = "suppressed"
      BY <1>0, <1>8, RunMoves DEF Materiality, Reportability, Judge
    <2>2. QED
      BY <1>8, <2>1
  <1>9. CASE SkipSuppressed \/ Draft \/ Recruit
    BY <1>0, <1>3, <1>9 DEF SkipSuppressed, Draft, Recruit, Joins, Keeps1, branchVars
  <1>10. CASE CrossBorderScan \/ CrossBorderSignoff \/ Diff \/ Resolve
    BY <1>0, <1>1, <1>3, <1>10
       DEF CrossBorderScan, CrossBorderSignoff, Diff, Resolve, AllDrafted, Keeps1, branchVars
  <1>11. CASE BeginRelease \/ SkipUnchecked \/ SignKey
    BY <1>0, <1>1, <1>11 DEF BeginRelease, SkipUnchecked, SignKey, Keeps1, branchVars
  <1>12. CASE Turn
    <2>1. CASE Admits(state[Head(todo)], "human_released", "human_owner")
      <3>1. CASE b = Head(todo)
        BY <1>0, <1>5, <1>6, <1>12, <2>1, <3>1 DEF Turn
      <3>2. CASE b # Head(todo)
        BY <1>0, <1>12, <2>1, <3>2 DEF Turn
      <3>3. QED
        BY <3>1, <3>2
    <2>2. CASE ~Admits(state[Head(todo)], "human_released", "human_owner")
      BY <1>12, <2>2 DEF Turn
    <2>3. QED
      BY <2>1, <2>2
  <1>13. CASE Amend \/ Propose \/ Concur \/ SubmitAmendment \/ AmendDiff \/ BeginRerelease
    BY <1>0, <1>1, <1>3, <1>13
       DEF Amend, Propose, Concur, SubmitAmendment, AmendDiff, BeginRerelease, Keeps1, branchVars
  <1>14. CASE NoHighRisk \/ HighRisk
    BY <1>0, <1>4, <1>14 DEF NoHighRisk, HighRisk, Keeps1, branchVars
  <1>15. CASE DeficiencyNotice \/ Cure \/ LiftHold \/ Submission \/ Seal
    BY <1>0, <1>1, <1>3, <1>15
       DEF DeficiencyNotice, Cure, LiftHold, Submission, Seal, Keeps1, branchVars
  <1>16. QED
    BY <1>7, <1>8, <1>9, <1>10, <1>11, <1>12, <1>13, <1>14, <1>15 DEF Drive

\* A clock that was started stays started, a filing that was made stays made, and
\* the command line is what it was.
LEMMA RunGoesOn ==
  ASSUME FloorTypeOK, Drive
  PROVE  /\ scenario' = scenario
         /\ \A b \in Branches : Joined(b) => Joined(b)'
         /\ \A b \in Branches : /\ Len(filed[b]) \in Nat /\ Len(filed'[b]) \in Nat
                               /\ Len(filed[b]) <= Len(filed'[b])
         /\ \A b \in Branches : filed'[b] = filed[b] \/ (Turn /\ b = Head(todo))
  <1>0. /\ clock \in [Branches \cup StartupClocks -> {"none", "running", "stopped"}]
        /\ filed \in [Branches -> Seq(Claims)] /\ claims \in [Branches -> Claims \cup {NoClaims}]
    BY DEF FloorTypeOK
  <1>1. \A b \in Branches : Len(filed[b]) \in Nat
    BY <1>0, LenProperties
  <1> DEFINE Fine == /\ scenario' = scenario
                     /\ \A b \in Branches : clock[b] # "none" => clock'[b] # "none"
                     /\ filed' = filed
  <1>2. ASSUME Open \/ Materiality \/ Reportability \/ SkipSuppressed \/ Draft \/ Recruit
        PROVE  Fine
    BY <1>0, <1>2 DEF Open, Materiality, Reportability, Judge, SkipSuppressed, Draft, Recruit,
       Joins, lockVars
  <1>3. ASSUME CrossBorderScan \/ CrossBorderSignoff \/ Diff \/ Resolve
        PROVE  Fine
    BY <1>3 DEF CrossBorderScan, CrossBorderSignoff, Diff, Resolve, lockVars
  <1>4. ASSUME BeginRelease \/ SkipUnchecked \/ SignKey
        PROVE  Fine
    BY <1>4 DEF BeginRelease, SkipUnchecked, SignKey, lockVars
  <1>5. ASSUME Amend \/ Propose \/ Concur \/ SubmitAmendment \/ AmendDiff \/ BeginRerelease
        PROVE  Fine
    BY <1>5 DEF Amend, Propose, Concur, SubmitAmendment, AmendDiff, BeginRerelease, lockVars
  <1>6. ASSUME NoHighRisk \/ HighRisk \/ DeficiencyNotice \/ Cure \/ LiftHold \/ Submission \/ Seal
        PROVE  Fine
    BY <1>0, <1>6 DEF NoHighRisk, HighRisk, DeficiencyNotice, Cure, LiftHold, Submission, Seal,
       lockVars
  <1>7. CASE Turn
    <2>1. scenario' = scenario
      BY <1>7 DEF Turn
    <2>2. \A b \in Branches : clock[b] # "none" => clock'[b] # "none"
      BY <1>0, <1>7 DEF Turn
    <2>3. \A b \in Branches : b # Head(todo) => filed'[b] = filed[b]
      BY <1>0, <1>7 DEF Turn
    <2>4. ASSUME NEW b \in Branches, b = Head(todo)
          PROVE  filed'[b] = filed[b] \/ filed'[b] = Append(filed[b], claims[b])
      BY <1>0, <1>7, <2>4 DEF Turn
    <2>5. ASSUME NEW b \in Branches
          PROVE  /\ Len(filed'[b]) \in Nat /\ Len(filed[b]) <= Len(filed'[b])
                 /\ filed'[b] = filed[b] \/ b = Head(todo)
      <3>1. filed[b] \in Seq(Claims \cup {NoClaims}) /\ claims[b] \in Claims \cup {NoClaims}
        BY <1>0
      <3>2. Len(Append(filed[b], claims[b])) = Len(filed[b]) + 1
        BY <3>1, AppendProperties
      <3>3. QED
        BY <1>1, <2>3, <2>4, <3>2
    <2>6. QED
      BY <1>1, <1>7, <2>1, <2>2, <2>5 DEF Joined
  <1>8. Fine => /\ \A b \in Branches : Joined(b) => Joined(b)'
                /\ \A b \in Branches : filed'[b] = filed[b]
    BY DEF Joined
  <1>9. QED
    BY <1>1, <1>2, <1>3, <1>4, <1>5, <1>6, <1>7, <1>8 DEF Drive

\* The branch in hand is a branch.
LEMMA HandFacts ==
  ASSUME IInv, ~CutShort, step \in Loops
  PROVE  Head(todo) \in Branches /\ InTodo(Head(todo)) /\ todo # <<>>
  <1>1. FloorTypeOK /\ TodoOK
    BY IInvParts
  <1>2. todo # <<>>
    BY <1>1 DEF TodoOK
  <1>3. QED
    BY <1>1, <1>2, HeadFacts

\* The early warning of NIS2 has no branch that could stop it.
LEMMA EarlyWarningRuns ==
  ASSUME IInv, ~CutShort, Drive, clock["nis2-early"] # "stopped"
  PROVE  clock'["nis2-early"] # "stopped"
  <1>0. /\ clock \in [Branches \cup StartupClocks -> {"none", "running", "stopped"}]
        /\ "nis2-early" \in StartupClocks
        /\ step \in Loops => Head(todo) # "nis2-early"
    <2>1. clock \in [Branches \cup StartupClocks -> {"none", "running", "stopped"}]
      BY IInvParts DEF FloorTypeOK
    <2>2. step \in Loops => Head(todo) \in Branches
      BY HandFacts
    <2>3. "nis2-early" \notin Branches /\ "nis2-early" \in StartupClocks
      BY DEF Branches, Regulators, AffectedParty, StartupClocks
    <2>4. QED
      BY <2>1, <2>2, <2>3
  <1>1. CASE Open \/ Materiality \/ SkipSuppressed \/ Draft
    BY <1>0, <1>1 DEF Open, Materiality, Judge, SkipSuppressed, Draft
  <1>2. CASE Reportability \/ Recruit
    BY <1>0, <1>2 DEF Reportability, Judge, Recruit, Joins, Loops
  <1>3. CASE CrossBorderScan \/ CrossBorderSignoff \/ Diff \/ Resolve
    BY <1>3 DEF CrossBorderScan, CrossBorderSignoff, Diff, Resolve
  <1>4. CASE BeginRelease \/ SkipUnchecked \/ SignKey \/ Turn
    BY <1>0, <1>4 DEF BeginRelease, SkipUnchecked, SignKey, Turn, Releases, Loops
  <1>5. CASE Amend \/ Propose \/ Concur \/ SubmitAmendment \/ AmendDiff \/ BeginRerelease
    BY <1>5 DEF Amend, Propose, Concur, SubmitAmendment, AmendDiff, BeginRerelease
  <1>6. CASE NoHighRisk \/ HighRisk \/ DeficiencyNotice \/ Cure \/ LiftHold \/ Submission \/ Seal
    BY <1>0, <1>6 DEF NoHighRisk, HighRisk, DeficiencyNotice, Cure, LiftHold, Submission, Seal,
       Loops
  <1>7. QED
    BY <1>1, <1>2, <1>3, <1>4, <1>5, <1>6 DEF Drive

\* Only a cross-border run finds a conflict.
LEMMA ConflictIsCrossBorder ==
  ASSUME IInv, ~CutShort, Drive, conflict # "none" => scenario.mode = "cross_border"
  PROVE  conflict' # "none" => scenario'.mode = "cross_border"
  <1>0. Wanted(step) /\ (step = "cross_border_signoff" => scenario.mode = "cross_border")
    BY IInvParts DEF Running, LoopOK
  <1>1. step = "cross_border" => scenario.mode = "cross_border"
    BY <1>0 DEF Wanted
  <1>2. scenario' = scenario
    BY RunGoesOn, IInvParts
  <1>3. CASE CrossBorderScan \/ CrossBorderSignoff
    BY <1>0, <1>1, <1>2, <1>3 DEF CrossBorderScan, CrossBorderSignoff
  <1>4. ASSUME ~(CrossBorderScan \/ CrossBorderSignoff) PROVE conflict' = conflict
    <2>1. CASE Open \/ Materiality \/ Reportability \/ SkipSuppressed \/ Draft \/ Recruit
                 \/ Diff \/ Resolve
      BY <2>1 DEF Open, Materiality, Reportability, Judge, SkipSuppressed, Draft, Recruit,
         Diff, Resolve, dutyVars
    <2>2. CASE BeginRelease \/ SkipUnchecked \/ SignKey \/ Turn
      BY <2>2 DEF BeginRelease, SkipUnchecked, SignKey, Turn, dutyVars
    <2>3. CASE Amend \/ Propose \/ Concur \/ SubmitAmendment \/ AmendDiff \/ BeginRerelease
      BY <2>3 DEF Amend, Propose, Concur, SubmitAmendment, AmendDiff, BeginRerelease, dutyVars
    <2>4. CASE NoHighRisk \/ HighRisk \/ DeficiencyNotice \/ Cure \/ LiftHold \/ Submission \/ Seal
      BY <2>4 DEF NoHighRisk, HighRisk, DeficiencyNotice, Cure, LiftHold, Submission, Seal,
         dutyVars
    <2>5. QED
      BY <1>4, <2>1, <2>2, <2>3, <2>4 DEF Drive
  <1>5. QED
    BY <1>2, <1>3, <1>4

\* A branch that was suppressed has drafted nothing, unless an amendment is posted
\* for it regardless.
NothingDrafted ==
  \A b \in Branches : state[b] = "suppressed" => claims[b] = NoClaims \/ Amends

LEMMA SuppressedDraftsNothing ==
  ASSUME IInv, ~CutShort, Drive, ~CutShort', NothingDrafted, step = "resolve" => Vetoed
  PROVE  NothingDrafted'
  <1>0. FloorTypeOK /\ Running /\ IInv' /\ (Amends' <=> Amends) /\ scenario' = scenario
    <2>1. FloorTypeOK /\ Running /\ IInv'
      BY IInvParts, NextIInv DEF Next
    <2>2. QED
      BY <2>1, RunGoesOn DEF Amends
  <1>1. SUFFICES ASSUME NEW b \in Branches, state'[b] = "suppressed", ~Amends
                 PROVE  claims'[b] = NoClaims
    BY <1>0 DEF NothingDrafted
  <1>2. CASE step' \in Early
    <2>1. RunOK' /\ CustomersOK' /\ clock' \in [Branches \cup StartupClocks ->
                                                  {"none", "running", "stopped"}]
      BY <1>0 DEF IInv, FloorTypeOK
    <2>2. CASE b \in Regulators
      BY <1>1, <1>2, <2>1, <2>2 DEF RunOK
    <2>3. CASE b = AffectedParty
      BY <1>1, <2>1, <2>3 DEF CustomersOK, Joined
    <2>4. QED
      BY <2>2, <2>3 DEF Branches
  <1>3. CASE step' \notin Early
    <2>1. state[b] = "suppressed"
      <3>1. Materiality \/ Reportability => step' \in Early
        <4>1. scenario \in Scenarios /\ Wanted(step)
          BY <1>0 DEF FloorTypeOK, Running, LoopOK
        <4>2. Materiality => step' = After("materiality") /\ scenario.materiality
          BY <4>1 DEF Materiality, Proceed, Wanted
        <4>3. Reportability => step' = "reportability" \/ step' = After("reportability")
          BY DEF Reportability, NextBranch, Proceed
        <4>4. QED
          BY <4>1, <4>2, <4>3, AfterTable DEF Early
      <3>2. QED
        BY <1>0, <1>1, <1>3, <3>1, SuppressedStays
    <2>2. claims[b] = NoClaims
      BY <1>1, <2>1 DEF NothingDrafted
    <2>3. /\ b \in Regulators /\ ~Live(b)
          /\ scenario.mode = "reportability" \/ (scenario.materiality /\ b = "sec")
      <3>1. RunOK /\ CustomersOK
        BY <1>0 DEF Running
      <3>2. b # AffectedParty
        BY <2>1, <3>1 DEF CustomersOK
      <3>3. QED
        BY <2>1, <3>1, <3>2 DEF RunOK, Branches, Live
    <2>4. CASE Resolve
      <3>1. step = "resolve" /\ ContradictedBranch = "sec"
        BY <1>0, <2>4, ContradictedIsSec DEF Resolve
      <3>2. "sec" # b
        BY <2>3, <3>1 DEF Vetoed
      <3>3. QED
        BY <1>0, <2>2, <2>4, <3>1, <3>2 DEF Resolve, FloorTypeOK
    <2>5. ASSUME ~Resolve PROVE claims'[b] = claims[b]
      <3>1. CASE Open \/ Materiality \/ Reportability \/ SkipSuppressed
        BY <3>1 DEF Open, Materiality, Reportability, Judge, SkipSuppressed, branchVars
      <3>2. CASE Draft \/ Recruit
        <4>1. scenario \in Scenarios
          BY <1>0 DEF FloorTypeOK
        <4>2. step' \in {"drafting", After("drafting"), After("recruit_uk"),
                         After("recruit_nydfs")}
          BY <3>2 DEF Draft, Recruit, NextBranch, Proceed
        <4>3. QED
          BY <1>3, <4>1, <4>2, AfterTable DEF Early, Joining
      <3>3. CASE CrossBorderScan \/ CrossBorderSignoff \/ Diff
        BY <3>3 DEF CrossBorderScan, CrossBorderSignoff, Diff, branchVars
      <3>4. CASE BeginRelease \/ SkipUnchecked \/ SignKey \/ Turn
        BY <3>4 DEF BeginRelease, SkipUnchecked, SignKey, Turn, branchVars
      <3>5. CASE Amend \/ Propose \/ Concur \/ AmendDiff \/ BeginRerelease
        BY <3>5 DEF Amend, Propose, Concur, AmendDiff, BeginRerelease, branchVars
      <3>6. CASE NoHighRisk \/ DeficiencyNotice \/ LiftHold \/ Submission \/ Seal
        BY <3>6 DEF NoHighRisk, DeficiencyNotice, LiftHold, Submission, Seal, branchVars
      <3>7. CASE SubmitAmendment \/ HighRisk \/ Cure
        <4>1. Wanted(step) /\ scenario \in Scenarios
          BY <1>0 DEF Running, LoopOK, FloorTypeOK
        <4>2. CASE SubmitAmendment \/ HighRisk
          BY <1>1, <4>1, <4>2 DEF SubmitAmendment, HighRisk, Wanted, Amends
        <4>3. CASE Cure
          <5>1. scenario.mode = "deficiency"
            BY <4>1, <4>3 DEF Cure, Wanted
          <5>2. QED
            BY <2>3, <4>1, <5>1, ScenariosAssumption DEF CliAccepts
        <4>4. QED
          BY <3>7, <4>2, <4>3
      <3>8. QED
        BY <2>5, <3>1, <3>2, <3>3, <3>4, <3>5, <3>6, <3>7 DEF Drive
    <2>6. QED
      BY <2>2, <2>4, <2>5
  <1>4. QED
    BY <1>2, <1>3

\* A branch that takes part goes on taking part once the screens are through.
LEMMA LiveGoesOn ==
  ASSUME IInv, ~CutShort, Drive, NEW b \in Branches, Live(b), step \notin BeforeDiff
  PROVE  Live(b)'
  <1>1. FloorTypeOK
    BY IInvParts
  <1>2. ~(Materiality \/ Reportability)
    BY DEF Materiality, Reportability, BeforeDiff, Early
  <1>3. Joined(b)' /\ state'[b] # "suppressed"
    BY <1>1, <1>2, RunGoesOn, SuppressedStays DEF Live
  <1>4. QED
    BY <1>3 DEF Live

\* A red diff is the SEC filing's.
LEMMA RedIsVetoed ==
  ASSUME IInv, ~CutShort, step = "diff", Contradict(claims, Drafted)
  PROVE  Vetoed
  <1>1. FloorTypeOK /\ Running
    BY IInvParts
  <1>2. scenario.mode = "inject_contradiction" /\ "sec" \in Drafted
    BY <1>1, RedDiff
  <1>3. "sec" \in { b \in Regulators : Live(b) }
    BY <1>1, <1>2, DraftedAre
  <1>4. QED
    BY <1>2, <1>3 DEF Vetoed

LEMMA SecIsABranch == "sec" \in Branches /\ "sec" \in Regulators
  BY DEF Branches, Regulators

\* The phase each action belongs to.
LEMMA ActionSteps ==
  /\ Open => step = "open"
  /\ Materiality => step = "materiality"
  /\ Reportability => step = "reportability"
  /\ SkipSuppressed \/ Draft => step = "drafting"
  /\ Recruit => step \in {"recruit_uk", "recruit_nydfs"}
  /\ CrossBorderScan => step = "cross_border"
  /\ CrossBorderSignoff => step = "cross_border_signoff"
  /\ Diff => step = "diff"
  /\ Resolve => step = "resolve"
  /\ BeginRelease \/ SkipUnchecked => step = "release"
  /\ SignKey \/ Turn => step \in {"release", "amend_release", "affected_party", "cure"}
  /\ Amend => step = "amend"
  /\ Propose => step = "propose"
  /\ Concur => step = "concur"
  /\ SubmitAmendment => step = "amend_submit"
  /\ AmendDiff => step = "amend_diff"
  /\ BeginRerelease => step = "amend_release"
  /\ NoHighRisk \/ HighRisk => step = "affected_party"
  /\ DeficiencyNotice => step = "deficiency"
  /\ Cure => step = "cure"
  /\ LiftHold => step = "lift_hold"
  /\ Submission => step = "submission"
  /\ Seal => step = "seal"
  <1>1. /\ Open => step = "open"
        /\ Materiality => step = "materiality"
        /\ Reportability => step = "reportability"
        /\ SkipSuppressed \/ Draft => step = "drafting"
        /\ Recruit => step \in {"recruit_uk", "recruit_nydfs"}
    BY DEF Open, Materiality, Reportability, SkipSuppressed, Draft, Recruit
  <1>2. /\ CrossBorderScan => step = "cross_border"
        /\ CrossBorderSignoff => step = "cross_border_signoff"
        /\ Diff => step = "diff"
        /\ Resolve => step = "resolve"
    BY DEF CrossBorderScan, CrossBorderSignoff, Diff, Resolve
  <1>3. /\ BeginRelease \/ SkipUnchecked => step = "release"
        /\ SignKey \/ Turn => step \in {"release", "amend_release", "affected_party", "cure"}
    BY DEF BeginRelease, SkipUnchecked, SignKey, Turn, Releases
  <1>4. /\ Amend => step = "amend"
        /\ Propose => step = "propose"
        /\ Concur => step = "concur"
        /\ SubmitAmendment => step = "amend_submit"
        /\ AmendDiff => step = "amend_diff"
        /\ BeginRerelease => step = "amend_release"
    BY DEF Amend, Propose, Concur, SubmitAmendment, AmendDiff, BeginRerelease
  <1>5. /\ NoHighRisk \/ HighRisk => step = "affected_party"
        /\ DeficiencyNotice => step = "deficiency"
        /\ Cure => step = "cure"
        /\ LiftHold => step = "lift_hold"
        /\ Submission => step = "submission"
        /\ Seal => step = "seal"
    BY DEF NoHighRisk, HighRisk, DeficiencyNotice, Cure, LiftHold, Submission, Seal
  <1>6. QED
    BY <1>1, <1>2, <1>3, <1>4, <1>5, Zenon

LEMMA OnlyDiff == ASSUME Drive, step = "diff" PROVE Diff
  BY ActionSteps DEF Drive

LEMMA VetoStands ==
  ASSUME IInv, ~CutShort, Drive, step = "resolve" => Vetoed
  PROVE  step' = "resolve" => Vetoed'
  <1>0. FloorTypeOK /\ scenario' = scenario
    BY IInvParts, RunGoesOn
  <1>1. SUFFICES ASSUME step' = "resolve" PROVE Vetoed'
    OBVIOUS
  <1>2. CASE Diff
    <2>1. step = "diff" /\ Contradict(claims, Drafted)
      <3>1. scenario \in Scenarios
        BY <1>0 DEF FloorTypeOK
      <3>2. After("diff") # "resolve"
        BY <3>1, AfterTable
      <3>3. QED
        BY <1>1, <1>2, <3>2 DEF Diff, Proceed
    <2>2. Vetoed
      BY <2>1, RedIsVetoed
    <2>3. ~(Materiality \/ Reportability)
      BY <2>1 DEF Materiality, Reportability
    <2>4. Live("sec")'
      <3>1. Live("sec")
        BY <2>2 DEF Vetoed
      <3>2. Joined("sec")' /\ state'["sec"] # "suppressed"
        BY <1>0, <2>3, <3>1, RunGoesOn, SuppressedStays, SecIsABranch DEF Live
      <3>3. QED
        BY <3>2 DEF Live
    <2>5. QED
      BY <1>0, <2>2, <2>4 DEF Vetoed
  <1>3. CASE ~Diff
    <2>1. step = "resolve"
      <3>1. scenario \in Scenarios /\ Wanted(step)
        BY <1>0, IInvParts DEF FloorTypeOK, Running, LoopOK
      <3>2. step' \notin Late
        BY <1>1 DEF Late
      <3>3. step \notin Late
        BY <1>1, <3>2, LateStays DEF CutShort
      <3>4. /\ After("open") # "resolve" /\ After("reportability") # "resolve"
            /\ After("drafting") # "resolve" /\ After("recruit_uk") # "resolve"
            /\ After("recruit_nydfs") # "resolve" /\ After("cross_border") # "resolve"
            /\ After("diff") # "resolve"
            /\ step = "materiality" => After("materiality") # "resolve"
        <4>1. step = "materiality" => scenario.materiality
          BY <3>1 DEF Wanted
        <4>2. QED
          BY <3>1, <4>1, AfterTable
      <3>5. step \in PhaseNames \ {"seal"} =>
              step \in Late \/ step \in {"open", "materiality", "reportability", "drafting",
                                      "recruit_uk", "recruit_nydfs", "cross_border", "diff"}
        BY DEF PhaseNames, Late
      <3>6. ~(step = "diff" /\ step' = "resolve")
        BY <1>3, OnlyDiff
      <3>7. QED
        BY <1>1, <3>3, <3>4, <3>5, <3>6, StepMoves
    <2>2. step \notin BeforeDiff
      BY <2>1 DEF BeforeDiff
    <2>3. QED
      BY <1>0, <2>1, <2>2, LiveGoesOn, SecIsABranch DEF Vetoed
  <1>4. QED
    BY <1>2, <1>3

\* A run whose amendment met a suppressed SEC branch ends at its release.
StuckOK ==
  Stuck("sec") =>
    \/ step \in Early \cup {"release", "amend", "propose", "concur", "amend_submit", "amend_diff"}
    \/ step = "amend_release" /\ InTodo("sec")

LEMMA StuckStays ==
  ASSUME IInv, ~CutShort, Drive, ~CutShort', StuckOK
  PROVE  StuckOK'
  <1>0. /\ FloorTypeOK /\ Running /\ TodoOK /\ OnceEach(ran) /\ scenario' = scenario
        /\ scenario \in Scenarios /\ Wanted(step)
    BY IInvParts, RunGoesOn DEF Running, LoopOK, FloorTypeOK
  <1>1. SUFFICES ASSUME Stuck("sec")', step' \in Late
                 PROVE  \/ step' \in {"release", "amend", "propose", "concur",
                                     "amend_submit", "amend_diff"}
                        \/ step' = "amend_release" /\ InTodo("sec")'
    <2>1. step' \in Early \/ step' \in Late
      BY LateStays
    <2>2. QED
      BY <2>1 DEF StuckOK
  <1>2. Amends /\ state'["sec"] = "suppressed"
    BY <1>0, <1>1 DEF Stuck, Amends
  <1>3. Materiality \/ Reportability => step' \in Early
    <2>1. Materiality => step' = After("materiality") /\ scenario.materiality
      BY <1>0 DEF Materiality, Proceed, Wanted
    <2>2. Reportability => step' = "reportability" \/ step' = After("reportability")
      BY DEF Reportability, NextBranch, Proceed
    <2>3. QED
      BY <1>0, <2>1, <2>2, AfterTable DEF Early
  <1>4. ~(step' \in Early /\ step' \in Late)
    BY DEF Early, Joining, Late
  <1>5. Stuck("sec")
    <2>1. state["sec"] = "suppressed"
      BY <1>0, <1>1, <1>2, <1>3, <1>4, SuppressedStays, SecIsABranch
    <2>2. QED
      BY <1>2, <2>1 DEF Stuck
  <1>6. CASE step \in Early
    \* the diff is the last step before the releases
    <2>1. step' = "release"
      <3>1. /\ {After("open"), After("reportability"), After("drafting"), After("recruit_uk"),
                 After("recruit_nydfs"), After("cross_border")} \subseteq Early
            /\ step = "materiality" => After(step) \in Early
            /\ After("diff") = "release"
        <4>1. step = "materiality" => scenario.materiality
          BY <1>0 DEF Wanted
        <4>2. /\ After("open") \in {"materiality", "reportability", "drafting"}
              /\ After("reportability") = "drafting"
              /\ After("drafting") \in {"recruit_uk", "recruit_nydfs", "cross_border", "diff"}
              /\ After("recruit_uk") \in {"recruit_nydfs", "cross_border", "diff"}
              /\ After("recruit_nydfs") \in {"cross_border", "diff"}
              /\ After("cross_border") = "diff" /\ After("diff") = "release"
              /\ scenario.materiality => After("materiality") = "drafting"
          BY <1>0, AfterTable
        <4>3. QED
          BY <4>1, <4>2 DEF Early, Joining
      <3>2. step \in {"open", "materiality", "reportability", "drafting", "recruit_uk",
                     "recruit_nydfs", "cross_border", "cross_border_signoff", "diff", "resolve"}
        BY <1>6 DEF Early, Joining
      <3>3. step' # "resolve" /\ step' # "cross_border_signoff" /\ step' # "raised" /\ step' # step
        BY <1>1, <1>4, <1>6 DEF Late, Early, Joining
      <3>4. CASE step \in {"cross_border_signoff", "resolve"}
        BY <1>1, <1>4, <3>1, <3>3, <3>4, StepMoves DEF PhaseNames
      <3>5. CASE step \in {"open", "materiality", "reportability", "drafting", "recruit_uk",
                          "recruit_nydfs", "cross_border", "diff"}
        <4>1. step' = After(step)
          BY <3>3, <3>5, StepMoves
        <4>2. step = "diff"
          BY <1>1, <1>4, <3>1, <3>5, <4>1
        <4>3. QED
          BY <3>1, <4>1, <4>2
      <3>6. QED
        BY <3>2, <3>4, <3>5
    <2>2. QED
      BY <2>1
  <1>7. CASE step \in {"release", "amend", "propose", "concur", "amend_submit", "amend_diff"}
    <2>1. /\ After("release") = "amend" /\ After("amend") = "propose"
          /\ After("propose") = "concur" /\ After("concur") = "amend_submit"
          /\ After("amend_submit") = "amend_diff" /\ After("amend_diff") = "amend_release"
      BY <1>0, <1>2, AfterTable
    <2>2. step' = step \/ step' = After(step)
      BY <1>1, <1>7, StepMoves DEF Late
    <2>3. CASE step = "amend_diff" /\ step' = "amend_release"
      <3>1. AmendDiff
        BY <2>3, ActionSteps DEF Drive
      <3>2. todo' = AMENDMENT_BRANCHES
        BY <1>1, <2>1, <2>3, <3>1 DEF AmendDiff, Proceed, Raise, Work, Late
      <3>3. Amended("sec")
        BY WorkLists
      <3>4. InTodo("sec")'
        BY <3>2, <3>3 DEF InTodo, Amended
      <3>5. QED
        BY <2>3, <3>4
    <2>4. QED
      BY <1>7, <2>1, <2>2, <2>3
  <1>8. CASE step = "amend_release" /\ InTodo("sec")
    <2>1. BeginRerelease \/ SignKey \/ Turn
      BY <1>8, ActionSteps DEF Drive
    <2>2. BeginRerelease \/ SignKey => step' = step /\ todo' = todo
      BY DEF BeginRerelease, SignKey
    <2>3. CASE Turn
      <3> DEFINE b == Head(todo)
      <3>1. Admits(state[b], "human_released", "human_owner")
        BY <1>1, <2>3 DEF Turn, Raise, Late
      <3>2. NextBranch /\ state[b] = "awaiting_human_signoff" /\ step \in Loops
        BY <1>0, <2>3, <3>1, TurnFacts
      <3>3. b # "sec"
        BY <1>5, <3>2 DEF Stuck
      <3>4. After(step) \in Steps \ {"release"}
        BY <1>0, <1>2, <1>8, AfterTable, StepsAre DEF PhaseNames
      <3>5. step' = step /\ InTodo("sec")'
        <4> HIDE DEF b
        <4>1. \/ step' = step /\ \A a : InTodo(a)' <=> InTodo(a) /\ a # b
              \/ step' = After(step) /\ \A a : InTodo(a) => a = b
          <5>1. \/ step' = step /\ \A a : InTodo(a)' <=> InTodo(a) /\ a # Head(todo)
                \/ step' = After(step) /\ \A a : InTodo(a) => a = Head(todo)
            BY <1>0, <1>8, <3>2, <3>4, NextBranchFacts
          <5>2. QED
            BY <5>1 DEF b
        <4>2. QED
          BY <1>8, <3>3, <4>1
      <3>6. QED
        BY <1>8, <3>5
    <2>4. QED
      BY <1>8, <2>1, <2>2, <2>3 DEF InTodo
  <1>9. QED
    BY <1>5, <1>6, <1>7, <1>8 DEF StuckOK

\* The signatures of the last release of a branch stay until the next one begins.
KeysStand ==
  \A b \in Branches : filed[b] # <<>> /\ ~Signing(b) => keys[b] = LastKeys(b)

LEMMA KeysStandOn ==
  ASSUME IInv, ~CutShort, Drive, ~CutShort', KeysStand
  PROVE  KeysStand'
  <1>0. FloorTypeOK /\ Running /\ TodoOK
    BY IInvParts
  <1>1. /\ keys \in [Branches -> SUBSET (REQUIRED_ROLES \X Nat)]
        /\ filed \in [Branches -> Seq(Claims)]
        /\ lock # "idle" => step \in Releases
        /\ claims \in [Branches -> Claims \cup {NoClaims}]
    BY <1>0 DEF FloorTypeOK, Running, LoopOK
  <1>2. ASSUME UNCHANGED lockVars, lock = "idle" PROVE KeysStand'
    BY <1>2 DEF KeysStand, lockVars, Signing, LastKeys
  <1>3. lock # "idle" => step \in {"release", "amend_release", "affected_party", "cure"}
    BY <1>1 DEF Releases
  <1>4. CASE Open \/ Materiality \/ Reportability \/ SkipSuppressed \/ Draft
    BY <1>2, <1>3, <1>4
       DEF Open, Materiality, Reportability, Judge, SkipSuppressed, Draft
  <1>5. CASE Recruit \/ CrossBorderScan \/ CrossBorderSignoff \/ Diff \/ Resolve
    BY <1>2, <1>3, <1>5 DEF Recruit, CrossBorderScan, CrossBorderSignoff, Diff, Resolve
  <1>6. CASE SkipUnchecked \/ NoHighRisk \/ DeficiencyNotice \/ LiftHold \/ Submission \/ Seal
    BY <1>2, <1>3, <1>6
       DEF SkipUnchecked, NoHighRisk, DeficiencyNotice, LiftHold, Submission, Seal
  <1>7. CASE Amend \/ Propose \/ Concur \/ SubmitAmendment \/ AmendDiff
    BY <1>2, <1>3, <1>7 DEF Amend, Propose, Concur, SubmitAmendment, AmendDiff
  <1>8. CASE BeginRelease
    BY <1>8 DEF BeginRelease, KeysStand, Signing, LastKeys
  <1>9. CASE BeginRerelease \/ Cure \/ HighRisk
    <2>1. step \in Loops /\ lock = "idle" /\ UNCHANGED <<todo, filed>> /\ lock' = "signing"
      BY <1>9 DEF BeginRerelease, Cure, HighRisk, AskSigners, Loops
    <2>2. Cure => Head(todo) = "sec"
      <3>1. Cure => step = "cure" /\ Head(todo) \in Visits("cure")
        BY <1>0, <2>1, HandFacts DEF Cure, TodoOK
      <3>2. QED
        BY <3>1, VisitsAre
    <2>3. \A b \in Branches : b # Head(todo) => keys'[b] = keys[b]
      BY <1>1, <1>9, <2>2 DEF BeginRerelease, Cure, HighRisk, Reset
    <2>4. QED
      BY <2>1, <2>3 DEF KeysStand, Signing, LastKeys
  <1>10. CASE SignKey
    <2>1. lock = "signing" /\ lock' # "idle" /\ UNCHANGED <<todo, filed>>
      BY <1>10 DEF SignKey
    <2>2. \A b \in Branches : b # Head(todo) => keys'[b] = keys[b]
      BY <1>1, <1>10 DEF SignKey
    <2>3. QED
      BY <2>1, <2>2 DEF KeysStand, Signing, LastKeys
  <1>11. CASE Turn
    <2>0. PICK h : h = Head(todo)
      OBVIOUS
    <2>1. Admits(state[h], "human_released", "human_owner")
      BY <1>11, <2>0 DEF Turn, Raise, CutShort
    <2>2. /\ lock = "turned" /\ lock' = "idle" /\ h \in Branches /\ keys' = keys
          /\ filed' = [filed EXCEPT ![h] = Append(@, claims[h])]
      BY <1>0, <1>11, <2>0, <2>1, TurnFacts
    <2>3. keys[h] = {Key("general_counsel", h), Key("head_of_ir", h)}
      BY <1>0, <2>0, <2>2 DEF Running, KeysOK
    <2>4. Len(filed'[h]) - 1 = Len(filed[h])
      <3>1. filed[h] \in Seq(Claims \cup {NoClaims}) /\ claims[h] \in Claims \cup {NoClaims}
        BY <1>1, <2>2
      <3>2. Len(Append(filed[h], claims[h])) = Len(filed[h]) + 1 /\ Len(filed[h]) \in Nat
        BY <3>1, AppendProperties, LenProperties
      <3>3. filed'[h] = Append(filed[h], claims[h])
        BY <1>1, <2>2
      <3>4. QED
        BY <3>2, <3>3
    <2>5. keys'[h] = LastKeys(h)'
      <3>1. LastKeys(h)' = {"head_of_ir", "general_counsel"} \X {Len(filed'[h]) - 1}
        BY DEF LastKeys, REQUIRED_ROLES
      <3> DEFINE n == Len(filed[h])
      <3>2. LastKeys(h)' = {"head_of_ir", "general_counsel"} \X {n}
        BY <2>4, <3>1
      <3>3. keys'[h] = {<<"general_counsel", n>>, <<"head_of_ir", n>>}
        BY <2>2, <2>3 DEF Key
      <3> HIDE DEF n
      <3>4. {"head_of_ir", "general_counsel"} \X {n}
              = {<<"general_counsel", n>>, <<"head_of_ir", n>>}
        OBVIOUS
      <3>5. QED
        BY <3>2, <3>3, <3>4
    <2>6. \A b \in Branches : b # h => filed'[b] = filed[b] /\ ~Signing(b)
      BY <1>1, <2>0, <2>2 DEF Signing
    <2>7. QED
      BY <2>2, <2>5, <2>6 DEF KeysStand, LastKeys
  <1>12. QED
    BY <1>4, <1>5, <1>6, <1>7, <1>8, <1>9, <1>10, <1>11 DEF Drive

LEMMA BeatsKeep ==
  ASSUME IInv, ~CutShort, Drive, ~CutShort', BeatsOK
  PROVE  BeatsOK'
  <1>1. clock'["nis2-early"] # "stopped"
    BY EarlyWarningRuns DEF BeatsOK
  <1>2. conflict' # "none" => scenario'.mode = "cross_border"
    BY ConflictIsCrossBorder DEF BeatsOK
  <1>3. step' = "resolve" => Vetoed'
    BY VetoStands DEF BeatsOK
  <1>4. NothingDrafted'
    BY SuppressedDraftsNothing DEF BeatsOK, NothingDrafted
  <1>5. StuckOK'
    BY StuckStays DEF BeatsOK, StuckOK
  <1>6. KeysStand'
    BY KeysStandOn DEF BeatsOK, KeysStand
  <1>7. QED
    BY <1>1, <1>2, <1>3, <1>4, <1>5, <1>6 DEF BeatsOK, NothingDrafted, StuckOK, KeysStand
-----------------------------------------------------------------------------
(***************************************************************************)
(* The rows of a step fit what has become of the branch.                   *)
(***************************************************************************)
\* What an event of branch b says of the run.
Allowed(b, event, ts) ==
  /\ event \in {"signoff_opened", "human_released"} => Live(b) /\ step \notin Early
  /\ event = "diff_blocked" => Vetoed /\ step \notin BeforeDiff
  /\ event = "human_released" => \E n \in 1..Len(filed[b]) : ts = ReleasedOn(b, n)

Told(b, said) == rows'[b] = rows[b] \o Record(b, said)

\* In this step branch b was told nothing, or what it was told fits.
Grows(b) ==
  \/ rows'[b] = rows[b]
  \/ \E said \in Seq(Spoken) :
       /\ Len(said) <= 5 /\ Told(b, said)
       /\ \/ Stuck(b)'
          \/ /\ Heard(b, said)
             /\ \A i \in 1..Len(said) : Allowed(b, said[i].event, said[i].ts)'

LEMMA FitsStay ==
  ASSUME IInv, ~CutShort, Drive, ~CutShort', NEW b \in Branches, NEW r, Fits(b, r)
  PROVE  Fits(b, r)'
  <1>1. FloorTypeOK /\ scenario' = scenario
    BY IInvParts, RunGoesOn
  <1>2. ASSUME Stuck(b) PROVE Stuck(b)'
    BY <1>1, <1>2, SuppressedStays, SecIsABranch DEF Stuck, Amends
  <1>3. ASSUME ~Stuck(b) PROVE Fits(b, r)'
    <2>1. /\ r.admitted
          /\ r.event \in {"signoff_opened", "human_released"} => Live(b) /\ step \notin Early
          /\ r.event = "diff_blocked" => Vetoed /\ step \notin BeforeDiff
          /\ r.event = "human_released" =>
               \E n \in 1..Len(filed[b]) : r.ts = ReleasedOn(b, n)
      BY <1>3 DEF Fits
    <2>2. step \notin Early => step \notin BeforeDiff /\ step' \notin Early
      BY LateStays DEF BeforeDiff
    <2>3. step \notin BeforeDiff => step' \notin BeforeDiff
      BY LateStays
    <2>4. r.event \in {"signoff_opened", "human_released"} => Live(b)' /\ step' \notin Early
      BY <2>1, <2>2, LiveGoesOn
    <2>5. r.event = "diff_blocked" => Vetoed' /\ step' \notin BeforeDiff
      BY <1>1, <2>1, <2>3, LiveGoesOn, SecIsABranch DEF Vetoed
    <2>6. r.event = "human_released" =>
            \E n \in 1..Len(filed'[b]) : r.ts = ReleasedOn(b, n)'
      <3>1. \A n : ReleasedOn(b, n)' = ReleasedOn(b, n)
        BY <1>1 DEF ReleasedOn, NoticeAt, Anchor, Amends
      <3>2. 1..Len(filed[b]) \subseteq 1..Len(filed'[b])
        BY <1>1, RunGoesOn
      <3>3. QED
        BY <2>1, <3>1, <3>2
    <2>7. QED
      BY <2>1, <2>4, <2>5, <2>6 DEF Fits
  <1>4. QED
    BY <1>2, <1>3 DEF Fits

LEMMA GrowsWell ==
  ASSUME IInv, ~CutShort, Drive, ~CutShort', NEW b \in Branches,
         rows[b] \in Seq(Row), \A r \in RowsOf(b) : Fits(b, r), Grows(b)
  PROVE  /\ RowsOf(b) \subseteq RowsOf(b)'
         /\ \A r \in RowsOf(b)' : Fits(b, r)'
  <1>1. CASE rows'[b] = rows[b]
    BY <1>1, FitsStay DEF RowsOf
  <1>2. CASE rows'[b] # rows[b]
    <2>1. PICK said \in Seq(Spoken) :
            /\ Len(said) <= 5 /\ Told(b, said)
            /\ \/ Stuck(b)'
               \/ /\ Heard(b, said)
                  /\ \A i \in 1..Len(said) : Allowed(b, said[i].event, said[i].ts)'
      BY <1>2 DEF Grows
    <2>2. RowsOf(b)' = RowsOf(b) \cup { Record(b, said)[i] : i \in 1..Len(said) }
      BY <2>1, LogRow DEF Told
    <2>3. ASSUME NEW i \in 1..Len(said), NEW r, r = Record(b, said)[i], ~Stuck(b)'
          PROVE  Fits(b, r)'
      <3>1. r.admitted /\ Allowed(b, said[i].event, said[i].ts)'
        BY <2>1, <2>3 DEF Heard
      <3>2. r.event = said[i].event /\ r.ts = said[i].ts
        BY <2>3, RecordFields
      <3>3. Allowed(b, r.event, r.ts)'
        BY <3>1, <3>2
      <3>4. QED
        BY <3>1, <3>3 DEF Allowed, Fits
    <2>4. ASSUME NEW r \in RowsOf(b)' PROVE Fits(b, r)'
      <3>1. CASE r \in RowsOf(b)
        BY <3>1, FitsStay
      <3>2. CASE Stuck(b)'
        BY <3>2 DEF Fits
      <3>3. CASE r \notin RowsOf(b) /\ ~Stuck(b)'
        BY <2>2, <2>3, <2>4, <3>3
      <3>4. QED
        BY <3>1, <3>2, <3>3
    <2>5. QED
      BY <2>2, <2>4
  <1>3. QED
    BY <1>1, <1>2

\* Which events each script has.
Events(said, es) == \A i \in 1..Len(said) : said[i].event \in es
Plain1 == Event \ {"signoff_opened", "human_released", "diff_blocked"}

LEMMA ScriptEvents ==
  ASSUME NEW b
  PROVE  /\ Events(OpeningSaid(b), Plain1) /\ Events(SuppressSaid(b), Plain1)
         /\ Events(DraftSaid(b), Plain1) /\ Events(RecruitSaid(b), Plain1)
         /\ Events(ResolveSaid(b), Plain1) /\ Events(AmendSaid(b), Plain1)
         /\ Events(AmendedDraftSaid(b), Plain1)
         /\ Events(SignoffSaid(b), Plain1 \cup {"signoff_opened"})
         /\ Events(RereleaseSaid(b), Plain1 \cup {"signoff_opened"})
         /\ Events(NoticeSaid(b), Plain1 \cup {"signoff_opened"})
         /\ Events(CureSaid(b), Plain1 \cup {"signoff_opened"})
         /\ Events(DiffSaid(b), Plain1 \cup {"diff_blocked"})
         /\ ~Contradict(claims, Drafted) => Events(DiffSaid(b), Plain1)
         /\ Contradict(claims, Drafted) => DiffSaid(b)[1].event = "diff_blocked"
         /\ ResolveSaid(b)[1].ts = TS_RESOLVE
  <1> USE DEF Events, Plain1, Event, Said, ByTriage, ByWarden, ByDrafter
  <1>1. /\ Events(OpeningSaid(b), Plain1) /\ Events(SuppressSaid(b), Plain1)
        /\ Events(DraftSaid(b), Plain1) /\ Events(AmendSaid(b), Plain1)
        /\ Events(AmendedDraftSaid(b), Plain1)
        /\ Events(SignoffSaid(b), Plain1 \cup {"signoff_opened"})
        /\ Events(RereleaseSaid(b), Plain1 \cup {"signoff_opened"})
    BY DEF OpeningSaid, SuppressSaid, DraftSaid, AmendSaid, AmendedDraftSaid, SignoffSaid,
       RereleaseSaid
  <1>2. Events(RecruitSaid(b), Plain1)
    BY DEF RecruitSaid
  <1>3. Events(ResolveSaid(b), Plain1) /\ ResolveSaid(b)[1].ts = TS_RESOLVE
    BY DEF ResolveSaid
  <1>4. Events(NoticeSaid(b), Plain1 \cup {"signoff_opened"})
    BY DEF NoticeSaid
  <1>5. Events(CureSaid(b), Plain1 \cup {"signoff_opened"})
    BY DEF CureSaid, RereleaseSaid
  <1>6. /\ Events(DiffSaid(b), Plain1 \cup {"diff_blocked"})
        /\ ~Contradict(claims, Drafted) => Events(DiffSaid(b), Plain1)
        /\ Contradict(claims, Drafted) => DiffSaid(b)[1].event = "diff_blocked"
    BY DEF DiffSaid
  <1>7. QED
    BY <1>1, <1>2, <1>3, <1>4, <1>5, <1>6

\* Every script but the release says something of the branch at most by opening
\* the signoff, and of the run by a block.
LEMMA GrowsBy ==
  ASSUME NEW b \in Branches, NEW said \in Seq(Spoken), Len(said) <= 5, Told(b, said),
         Heard(b, said) \/ Stuck(b)', NEW es, Events(said, es),
         "human_released" \notin es,
         "diff_blocked" \in es => Vetoed' /\ step' \notin BeforeDiff,
         "signoff_opened" \in es => Stuck(b)' \/ (Live(b)' /\ step' \notin Early)
  PROVE  Grows(b)
  <1>1. ASSUME NEW i \in 1..Len(said), ~Stuck(b)'
        PROVE  Allowed(b, said[i].event, said[i].ts)'
    BY <1>1 DEF Events, Allowed
  <1>2. QED
    BY <1>1 DEF Grows

\* A branch that has left the first state takes part, unless it is suppressed.
LEMMA MovedIsLive ==
  ASSUME IInv, ~CutShort, NEW b \in Branches, state[b] \notin {"initiated", "suppressed"}
  PROVE  Live(b)
  <1>1. RunOK /\ CustomersOK
    BY IInvParts DEF Running
  <1>2. Joined(b)
    BY <1>1 DEF RunOK, CustomersOK, Branches
  <1>3. QED
    BY <1>2 DEF Live

\* The amendment finds its two branches alive, or the SEC's suppressed.
LEMMA AmendmentFinds ==
  ASSUME IInv, ~CutShort, Amends, step \notin Early, NEW b, Amended(b)
  PROVE  /\ b \in Branches /\ b \in Regulators
         /\ Live(b) \/ Stuck(b)
  <1>1. b \in {"sec", "nis2"}
    BY WorkLists
  <1>2. RunOK /\ scenario \in Scenarios
    BY IInvParts DEF Running, FloorTypeOK
  <1>3. b \in Regulators /\ b \in Drafters /\ b \in Branches
    BY <1>1 DEF Regulators, Drafters, Branches
  <1>4. Joined(b)
    BY <1>2, <1>3 DEF RunOK, Early
  <1>5. state[b] = "suppressed" => b = "sec"
    BY <1>2, <1>3 DEF RunOK, Amends
  <1>6. QED
    BY <1>3, <1>4, <1>5 DEF Live, Stuck

\* From the fact record to the drafts.
LEMMA OpenGrows ==
  ASSUME IInv, ~CutShort, Open, Log({"nis2", "sec", "dora"}, OpeningSaid),
         NEW b \in Branches
  PROVE  Grows(b)
  <1>1. rows'[b] = IF b \in {"nis2", "sec", "dora"} THEN rows[b] \o Record(b, OpeningSaid(b))
                                                   ELSE rows[b]
    BY DEF Log
  <1>2. SUFFICES ASSUME b \in {"nis2", "sec", "dora"} PROVE Grows(b)
    BY <1>1 DEF Grows
  <1>3. state[b] = "initiated"
    <2>1. RunOK /\ step = "open" /\ b \in Regulators /\ b \in Drafters
      BY <1>2, IInvParts DEF Open, Running, Regulators, Drafters
    <2>2. QED
      BY <2>1 DEF RunOK
  <1>4. PICK said : said = OpeningSaid(b)
    OBVIOUS
  <1>5. said \in Seq(Spoken) /\ Len(said) <= 5 /\ Heard(b, said) /\ Events(said, Plain1)
    <2>1. OpeningSaid(b) \in Seq(Spoken) /\ Len(OpeningSaid(b)) = 1
      BY Scripts
    <2>2. Heard(b, OpeningSaid(b))
      BY <1>3, ScriptsAreHeard
    <2>3. Events(OpeningSaid(b), Plain1)
      BY ScriptEvents
    <2>4. QED
      BY <1>4, <2>1, <2>2, <2>3
  <1>6. Told(b, said)
    BY <1>1, <1>2, <1>4 DEF Told
  <1>7. QED
    BY <1>5, <1>6, GrowsBy DEF Plain1

LEMMA VerdictGrows ==
  ASSUME IInv, ~CutShort, Materiality \/ Reportability,
         Log(Newly("suppressed"), SuppressSaid), NEW b \in Branches
  PROVE  Grows(b)
  <1>1. rows'[b] = IF b \in Newly("suppressed") THEN rows[b] \o Record(b, SuppressSaid(b))
                                               ELSE rows[b]
    BY DEF Log
  <1>2. SUFFICES ASSUME b \in Newly("suppressed") PROVE Grows(b)
    BY <1>1 DEF Grows
  <1>3. Admits(state[b], "suppress", "materiality")
    <2>1. state[b] # "suppressed" /\ state'[b] = "suppressed"
      BY <1>2 DEF Newly
    <2>2. state \in [Branches -> State]
      BY IInvParts DEF FloorTypeOK
    <2>3. state'[b] \in {state[b], Suppress(state[b])}
      BY <2>2 DEF Materiality, Reportability, Judge
    <2>4. QED
      BY <2>1, <2>3, MovedIsAdmitted DEF Suppress
  <1>4. PICK said : said = SuppressSaid(b)
    OBVIOUS
  <1>5. said \in Seq(Spoken) /\ Len(said) = 1 /\ Events(said, Plain1)
    BY <1>4, Scripts, ScriptEvents
  <1>6. said[1].event = "suppress" /\ said[1].role = "materiality"
    BY <1>4 DEF SuppressSaid, Said
  <1>7. Heard(b, said)
    BY <1>3, <1>5, <1>6, HeardOne
  <1>8. Told(b, said) /\ Len(said) <= 5
    BY <1>1, <1>2, <1>4, <1>5 DEF Told
  <1>9. QED
    BY <1>5, <1>7, <1>8, GrowsBy DEF Plain1

LEMMA DraftGrows ==
  ASSUME IInv, ~CutShort, Draft, Log(InHand, DraftSaid), NEW b \in Branches
  PROVE  Grows(b)
  <1>1. rows'[b] = IF b \in InHand THEN rows[b] \o Record(b, DraftSaid(b)) ELSE rows[b]
    BY DEF Log
  <1>2. SUFFICES ASSUME b \in InHand PROVE Grows(b)
    BY <1>1 DEF Grows
  <1>3. state[b] = "fact_record_ready"
    <2>1. step = "drafting" /\ b = Head(todo) /\ state[b] # "suppressed"
      BY <1>2 DEF Draft, InHand
    <2>2. InTodo(b) /\ b \in Visits("drafting") /\ RunOK /\ LiveOK
      BY <2>1, HandFacts, IInvParts DEF Loops, TodoOK, Running
    <2>3. b \in Drafters /\ b \in Regulators
      BY <2>2, VisitsAre DEF Drafters, Regulators
    <2>4. Live(b)
      BY <2>1, <2>2, <2>3 DEF RunOK, Live
    <2>5. QED
      BY <2>1, <2>2, <2>3, <2>4 DEF LiveOK, Stage, Joining
  <1>4. PICK said : said = DraftSaid(b)
    OBVIOUS
  <1>5. said \in Seq(Spoken) /\ Len(said) <= 5 /\ Heard(b, said) /\ Events(said, Plain1)
    <2>1. DraftSaid(b) \in Seq(Spoken) /\ Len(DraftSaid(b)) = 2
      BY Scripts
    <2>2. Heard(b, DraftSaid(b))
      BY <1>3, ScriptsAreHeard
    <2>3. Events(DraftSaid(b), Plain1)
      BY ScriptEvents
    <2>4. QED
      BY <1>4, <2>1, <2>2, <2>3
  <1>6. Told(b, said)
    BY <1>1, <1>2, <1>4 DEF Told
  <1>7. QED
    BY <1>5, <1>6, GrowsBy DEF Plain1

LEMMA RecruitGrows ==
  ASSUME IInv, ~CutShort, Recruit, Log(InHand, RecruitSaid), NEW b \in Branches
  PROVE  Grows(b)
  <1>1. rows'[b] = IF b \in InHand THEN rows[b] \o Record(b, RecruitSaid(b)) ELSE rows[b]
    BY DEF Log
  <1>2. SUFFICES ASSUME b \in InHand PROVE Grows(b)
    BY <1>1 DEF Grows
  <1>3. state[b] = "initiated"
    <2>1. step \in {"recruit_uk", "recruit_nydfs"} /\ b = Head(todo)
      BY <1>2 DEF Recruit, InHand
    <2>2. b \in Visits(step) /\ RunOK /\ LoopOK
      BY <2>1, HandFacts, IInvParts DEF Loops, TodoOK, Running
    <2>3. b \in Regulators /\ ~Joined(b)
      BY <2>1, <2>2, VisitsAre DEF LoopOK, Regulators
    <2>4. QED
      BY <2>2, <2>3 DEF RunOK
  <1>4. PICK said : said = RecruitSaid(b)
    OBVIOUS
  <1>5. said \in Seq(Spoken) /\ Len(said) <= 5 /\ Heard(b, said) /\ Events(said, Plain1)
    <2>1. RecruitSaid(b) \in Seq(Spoken) /\ Len(RecruitSaid(b)) = 3
      BY Scripts
    <2>2. Heard(b, RecruitSaid(b))
      BY <1>3, ScriptsAreHeard
    <2>3. Events(RecruitSaid(b), Plain1)
      BY ScriptEvents
    <2>4. QED
      BY <1>4, <2>1, <2>2, <2>3
  <1>6. Told(b, said)
    BY <1>1, <1>2, <1>4 DEF Told
  <1>7. QED
    BY <1>5, <1>6, GrowsBy DEF Plain1

\* The diff and what follows a red one.
LEMMA DiffGrows ==
  ASSUME IInv, ~CutShort, ~CutShort', step' = "resolve" => Vetoed', Drive,
         Diff, Log(Drafted, DiffSaid), NEW b \in Branches
  PROVE  Grows(b)
  <1>1. rows'[b] = IF b \in Drafted THEN rows[b] \o Record(b, DiffSaid(b)) ELSE rows[b]
    BY DEF Log
  <1>2. SUFFICES ASSUME b \in Drafted PROVE Grows(b)
    BY <1>1 DEF Grows
  <1>3. step = "diff" /\ FloorTypeOK /\ Running
    BY IInvParts DEF Diff
  <1>4. state[b] = "draft_submitted"
    <2>1. b \in Regulators /\ Live(b)
      BY <1>2, <1>3, DraftedAre
    <2>2. QED
      BY <1>3, <2>1 DEF Running, LiveOK, Stage, Joining
  <1>5. PICK said : said = DiffSaid(b)
    OBVIOUS
  <1>6. said \in Seq(Spoken) /\ Len(said) <= 5 /\ Heard(b, said)
    <2>1. DiffSaid(b) \in Seq(Spoken) /\ Len(DiffSaid(b)) = 1
      BY Scripts
    <2>2. Heard(b, DiffSaid(b))
      BY <1>4, ScriptsAreHeard
    <2>3. QED
      BY <1>5, <2>1, <2>2
  <1>7. Told(b, said)
    BY <1>1, <1>2, <1>5 DEF Told
  <1>8. CASE ~Contradict(claims, Drafted)
    <2>1. Events(said, Plain1)
      BY <1>5, <1>8, ScriptEvents
    <2>2. QED
      BY <1>6, <1>7, <2>1, GrowsBy DEF Plain1
  <1>9. CASE Contradict(claims, Drafted)
    <2>1. Events(said, Plain1 \cup {"diff_blocked"})
      BY <1>5, ScriptEvents
    <2>2. step' = "resolve"
      BY <1>9 DEF Diff
    <2>3. Vetoed' /\ step' \notin BeforeDiff
      BY <2>2 DEF BeforeDiff
    <2>4. QED
      BY <1>6, <1>7, <2>1, <2>3, GrowsBy DEF Plain1
  <1>10. QED
    BY <1>8, <1>9

LEMMA ResolveGrows ==
  ASSUME IInv, ~CutShort, Resolve, Log(Drafted, ResolveSaid), NEW b \in Branches
  PROVE  Grows(b)
  <1>1. rows'[b] = IF b \in Drafted THEN rows[b] \o Record(b, ResolveSaid(b)) ELSE rows[b]
    BY DEF Log
  <1>2. SUFFICES ASSUME b \in Drafted PROVE Grows(b)
    BY <1>1 DEF Grows
  <1>3. step = "resolve" /\ FloorTypeOK /\ Running
    BY IInvParts DEF Resolve
  <1>4. state[b] = "drafting"
    <2>1. b \in Regulators /\ Live(b)
      BY <1>2, <1>3, DraftedAre
    <2>2. QED
      BY <1>3, <2>1 DEF Running, LiveOK, Stage, Joining
  <1>5. PICK said : said = ResolveSaid(b)
    OBVIOUS
  <1>6. said \in Seq(Spoken) /\ Len(said) <= 5 /\ Heard(b, said) /\ Events(said, Plain1)
    <2>1. ResolveSaid(b) \in Seq(Spoken) /\ Len(ResolveSaid(b)) \in {1, 2}
      BY Scripts
    <2>2. Heard(b, ResolveSaid(b))
      BY <1>4, ScriptsAreHeard
    <2>3. Events(ResolveSaid(b), Plain1)
      BY ScriptEvents
    <2>4. Len(ResolveSaid(b)) <= 5
      <3>1. Len(ResolveSaid(b)) = 1 \/ Len(ResolveSaid(b)) = 2
        BY <2>1, Zenon
      <3>2. 1 <= 5 /\ 2 <= 5
        OBVIOUS
      <3>3. QED
        BY <3>1, <3>2, Zenon
    <2>5. QED
      BY <1>5, <2>1, <2>2, <2>3, <2>4, Zenon
  <1>7. Told(b, said)
    BY <1>1, <1>2, <1>5 DEF Told
  <1>8. QED
    BY <1>6, <1>7, GrowsBy DEF Plain1

\* The releases.
LEMMA BeginReleaseGrows ==
  ASSUME IInv, ~CutShort, ~CutShort', Drive, BeginRelease, Log(InHand, SignoffSaid),
         NEW b \in Branches
  PROVE  Grows(b)
  <1>1. rows'[b] = IF b \in InHand THEN rows[b] \o Record(b, SignoffSaid(b)) ELSE rows[b]
    BY DEF Log
  <1>2. SUFFICES ASSUME b \in InHand PROVE Grows(b)
    BY <1>1 DEF Grows
  <1>3. step = "release" /\ step' = step /\ state[b] = "contradiction_checked"
    BY <1>2 DEF BeginRelease, InHand
  <1>4. Live(b)' /\ step' \notin Early
    <2>1. step \notin BeforeDiff /\ step \notin Early
      BY <1>3 DEF BeforeDiff, Early, Joining
    <2>2. Live(b)
      BY <1>3, MovedIsLive
    <2>3. QED
      BY <1>3, <2>1, <2>2, LiveGoesOn
  <1>5. PICK said : said = SignoffSaid(b)
    OBVIOUS
  <1>6. /\ said \in Seq(Spoken) /\ Len(said) <= 5 /\ Heard(b, said)
        /\ Events(said, Plain1 \cup {"signoff_opened"})
    <2>1. SignoffSaid(b) \in Seq(Spoken) /\ Len(SignoffSaid(b)) = 1
      BY Scripts
    <2>2. Heard(b, SignoffSaid(b))
      BY <1>3, ScriptsAreHeard
    <2>3. Events(SignoffSaid(b), Plain1 \cup {"signoff_opened"})
      BY ScriptEvents
    <2>4. QED
      BY <1>5, <2>1, <2>2, <2>3
  <1>7. Told(b, said)
    BY <1>1, <1>2, <1>5 DEF Told
  <1>8. QED
    BY <1>4, <1>6, <1>7, GrowsBy DEF Plain1

LEMMA SameMinute ==
  ASSUME scenario' = scenario, NEW b, NEW n
  PROVE  ReleasedOn(b, n)' = ReleasedOn(b, n)
  BY DEF ReleasedOn, NoticeAt, Anchor, Amends

\* A release is recorded at the minute that belongs to it.
LEMMA TurnIsRelease ==
  ASSUME IInv, ~CutShort, ~CutShort', Turn, NEW b, b = Head(todo)
  PROVE  /\ b \in Branches /\ b \in InHand /\ state[b] = "awaiting_human_signoff"
         /\ step \notin Early
         /\ Len(filed'[b]) \in Nat \ {0}
         /\ ReleasedAt(b) = ReleasedOn(b, Len(filed'[b]))
         /\ Live(b) /\ Live(b)'
  <1>0. FloorTypeOK /\ Running /\ TodoOK /\ Drive
    BY IInvParts DEF Drive
  <1>1. Admits(state[b], "human_released", "human_owner")
    BY DEF Turn, Raise, CutShort
  <1>2. /\ step \in Releases /\ lock = "turned" /\ b \in Branches /\ InTodo(b)
        /\ b \in Visits(step) /\ state[b] = "awaiting_human_signoff"
        /\ filed' = [filed EXCEPT ![b] = Append(@, claims[b])]
        /\ scenario' = scenario
    BY <1>0, <1>1, TurnFacts
  <1>3. step \notin Early /\ step \notin BeforeDiff /\ todo # <<>>
    BY <1>0, <1>2 DEF Releases, Early, Joining, BeforeDiff, TodoOK, Loops
  <1>4. Live(b) /\ Live(b)'
    BY <1>0, <1>2, <1>3, MovedIsLive, LiveGoesOn
  <1>5. Len(filed'[b]) = Len(filed[b]) + 1 /\ Len(filed[b]) \in Nat
    <2>1. filed \in [Branches -> Seq(Claims)] /\ claims \in [Branches -> Claims \cup {NoClaims}]
      BY <1>0 DEF FloorTypeOK
    <2>2. filed[b] \in Seq(Claims \cup {NoClaims}) /\ claims[b] \in Claims \cup {NoClaims}
      BY <1>2, <2>1
    <2>3. filed'[b] = Append(filed[b], claims[b])
      BY <1>2, <2>1
    <2>4. QED
      BY <2>2, <2>3, AppendProperties, LenProperties
  <1>6. ReleasedAt(b) = ReleasedOn(b, Len(filed'[b]))
    <2> DEFINE n == Len(filed'[b])
    <2>0. ReleasedOn(b, n) = IF b = AffectedParty THEN NoticeAt(50)
                             ELSE IF n = 1 THEN TS_RELEASE ELSE TS_AMEND_RELEASE
      BY DEF ReleasedOn
    <2>1. CASE b = AffectedParty
      BY <2>0, <2>1 DEF ReleasedAt
    <2>2. CASE b # AffectedParty
      <3>1. b \in Regulators /\ Len(filed[b]) = Versions(b)
        BY <1>0, <1>2, <1>4, <2>2 DEF Branches, Running, LiveOK
      <3>2. step # "affected_party"
        BY <1>2, <2>2, VisitsAre
      <3>3. CASE step = "release"
        <4>1. Versions(b) = 0
          BY <1>2, <3>3 DEF Versions, Early, Joining, Ending
        <4>2. n = 1
          BY <1>5, <3>1, <4>1
        <4>3. QED
          BY <2>0, <2>2, <3>3, <4>2 DEF ReleasedAt
      <3>4. CASE step \in {"amend_release", "cure"}
        <4>1. step = "amend_release" => Amended(b)
          BY <1>2, VisitsAre, WorkLists
        <4>2. Versions(b) = 1
          BY <1>2, <3>4, <4>1 DEF Versions, Early, Joining, Ending
        <4>3. n = 2
          BY <1>5, <3>1, <4>2
        <4>4. QED
          BY <2>0, <2>2, <3>4, <4>3 DEF ReleasedAt
      <3>5. QED
        BY <1>2, <3>2, <3>3, <3>4 DEF Releases
    <2>3. QED
      BY <2>1, <2>2
  <1>7. QED
    BY <1>2, <1>3, <1>4, <1>5, <1>6 DEF InHand

LEMMA TurnGrows ==
  ASSUME IInv, ~CutShort, ~CutShort', Drive, Turn, Log(InHand, ReleaseSaid),
         NEW b \in Branches
  PROVE  Grows(b)
  <1>1. rows'[b] = IF b \in InHand THEN rows[b] \o Record(b, ReleaseSaid(b)) ELSE rows[b]
    BY DEF Log
  <1>2. SUFFICES ASSUME b \in InHand PROVE Grows(b)
    BY <1>1 DEF Grows
  <1>3. b = Head(todo)
    BY <1>2 DEF InHand
  <1>4. /\ state[b] = "awaiting_human_signoff" /\ Live(b)'
        /\ Len(filed'[b]) \in Nat \ {0} /\ ReleasedAt(b) = ReleasedOn(b, Len(filed'[b]))
    BY <1>3, TurnIsRelease
  <1>5. step' \notin Early
    BY <1>3, TurnIsRelease, LateStays
  <1>6. PICK said : said = ReleaseSaid(b)
    OBVIOUS
  <1>7. said \in Seq(Spoken) /\ Len(said) = 1 /\ Heard(b, said)
    <2>1. ReleaseSaid(b) \in Seq(Spoken) /\ Len(ReleaseSaid(b)) = 1
      BY Scripts
    <2>2. Heard(b, ReleaseSaid(b))
      BY <1>4, ScriptsAreHeard
    <2>3. QED
      BY <1>6, <2>1, <2>2
  <1>8. said[1].event = "human_released" /\ said[1].ts = ReleasedAt(b)
    BY <1>6 DEF ReleaseSaid, Said
  <1>9. Allowed(b, said[1].event, said[1].ts)'
    <2>1. \E n \in 1..Len(filed'[b]) : said[1].ts = ReleasedOn(b, n)'
      <3>1. Len(filed'[b]) \in 1..Len(filed'[b])
        BY <1>4
      <3>2. PICK n : n = Len(filed'[b])
        OBVIOUS
      <3>3. said[1].ts = ReleasedOn(b, n)'
        <4>1. said[1].ts = ReleasedOn(b, n)
          BY <1>4, <1>8, <3>2
        <4>2. scenario' = scenario
          BY RunGoesOn, IInvParts
        <4>3. QED
          BY <4>1, <4>2, SameMinute
      <3>4. QED
        BY <3>1, <3>2, <3>3
    <2>2. QED
      BY <1>4, <1>5, <1>8, <2>1 DEF Allowed
  <1>10. Told(b, said) /\ Len(said) <= 5
    BY <1>1, <1>2, <1>6, <1>7 DEF Told
  <1>11. \A i \in 1..Len(said) : Allowed(b, said[i].event, said[i].ts)'
    BY <1>7, <1>9
  <1>12. QED
    BY <1>7, <1>10, <1>11 DEF Grows

\* The amendment.
LEMMA StuckPersists ==
  ASSUME IInv, ~CutShort, Drive, NEW b \in Branches, Stuck(b)
  PROVE  Stuck(b)'
  <1>1. FloorTypeOK /\ scenario' = scenario
    BY IInvParts, RunGoesOn
  <1>2. QED
    BY <1>1, SuppressedStays DEF Stuck, Amends

LEMMA AmendGrows ==
  ASSUME IInv, ~CutShort, Drive, Amend,
         Log({ a \in Branches : Amended(a) }, AmendSaid), NEW b \in Branches
  PROVE  Grows(b)
  <1>1. rows'[b] = IF Amended(b) THEN rows[b] \o Record(b, AmendSaid(b)) ELSE rows[b]
    BY DEF Log
  <1>2. SUFFICES ASSUME Amended(b) PROVE Grows(b)
    BY <1>1 DEF Grows
  <1>3. step = "amend" /\ Amends /\ step \notin Early /\ LiveOK
    BY IInvParts DEF Amend, Running, LoopOK, Wanted, Early, Joining
  <1>4. b \in Regulators /\ (Live(b) \/ Stuck(b))
    BY <1>2, <1>3, AmendmentFinds
  <1>5. PICK said : said = AmendSaid(b)
    OBVIOUS
  <1>6. said \in Seq(Spoken) /\ Len(said) <= 5 /\ Events(said, Plain1)
    <2>1. AmendSaid(b) \in Seq(Spoken) /\ Len(AmendSaid(b)) = 1
      BY Scripts
    <2>2. Events(AmendSaid(b), Plain1)
      BY ScriptEvents
    <2>3. QED
      BY <1>5, <2>1, <2>2
  <1>7. Heard(b, said) \/ Stuck(b)'
    <2>1. CASE Live(b)
      <3>1. state[b] = "released"
        BY <1>3, <1>4, <2>1 DEF LiveOK, Stage, Joining
      <3>2. QED
        BY <1>5, <3>1, ScriptsAreHeard
    <2>2. CASE Stuck(b)
      BY <2>2, StuckPersists
    <2>3. QED
      BY <1>4, <2>1, <2>2
  <1>8. Told(b, said)
    BY <1>1, <1>2, <1>5 DEF Told
  <1>9. QED
    BY <1>6, <1>7, <1>8, GrowsBy DEF Plain1

LEMMA SubmitAmendmentGrows ==
  ASSUME IInv, ~CutShort, Drive, SubmitAmendment,
         Log(IF CanSubmit THEN InHand ELSE {}, AmendedDraftSaid), NEW b \in Branches
  PROVE  Grows(b)
  <1>1. rows'[b] = IF b \in (IF CanSubmit THEN InHand ELSE {})
                     THEN rows[b] \o Record(b, AmendedDraftSaid(b)) ELSE rows[b]
    BY DEF Log
  <1>2. SUFFICES ASSUME CanSubmit, b \in InHand PROVE Grows(b)
    BY <1>1 DEF Grows
  <1>3. /\ step = "amend_submit" /\ Amends /\ step \notin Early /\ LiveOK
        /\ b = Head(todo) /\ TodoOK
    BY <1>2, IInvParts DEF SubmitAmendment, Running, LoopOK, Wanted, Early, Joining, InHand
  <1>4. Amended(b) /\ InTodo(b)
    BY <1>3, HandFacts, VisitsAre, WorkLists DEF Loops, TodoOK
  <1>5. b \in Regulators /\ (Live(b) \/ Stuck(b))
    BY <1>3, <1>4, AmendmentFinds
  <1>6. PICK said : said = AmendedDraftSaid(b)
    OBVIOUS
  <1>7. said \in Seq(Spoken) /\ Len(said) <= 5 /\ Events(said, Plain1)
    <2>1. AmendedDraftSaid(b) \in Seq(Spoken) /\ Len(AmendedDraftSaid(b)) = 1
      BY Scripts
    <2>2. Events(AmendedDraftSaid(b), Plain1)
      BY ScriptEvents
    <2>3. QED
      BY <1>6, <2>1, <2>2
  <1>8. Heard(b, said) \/ Stuck(b)'
    <2>1. CASE Live(b)
      <3>1. state[b] = "amending"
        BY <1>3, <1>4, <1>5, <2>1 DEF LiveOK, Stage, Joining
      <3>2. QED
        BY <1>6, <3>1, ScriptsAreHeard
    <2>2. CASE Stuck(b)
      BY <2>2, StuckPersists
    <2>3. QED
      BY <1>5, <2>1, <2>2
  <1>9. Told(b, said)
    BY <1>1, <1>2, <1>6 DEF Told
  <1>10. QED
    BY <1>7, <1>8, <1>9, GrowsBy DEF Plain1

LEMMA BeginRereleaseGrows ==
  ASSUME IInv, ~CutShort, ~CutShort', Drive, BeginRerelease, Log(InHand, RereleaseSaid),
         NEW b \in Branches
  PROVE  Grows(b)
  <1>1. rows'[b] = IF b \in InHand THEN rows[b] \o Record(b, RereleaseSaid(b)) ELSE rows[b]
    BY DEF Log
  <1>2. SUFFICES ASSUME b \in InHand PROVE Grows(b)
    BY <1>1 DEF Grows
  <1>3. /\ step = "amend_release" /\ step' = step /\ lock = "idle" /\ Amends
        /\ step \notin Early /\ step \notin BeforeDiff /\ LiveOK /\ b = Head(todo) /\ TodoOK
    BY <1>2, IInvParts
       DEF BeginRerelease, Running, LoopOK, Wanted, Early, Joining, BeforeDiff, InHand
  <1>4. Amended(b) /\ InTodo(b) /\ ~Signing(b)
    BY <1>3, HandFacts, VisitsAre, WorkLists DEF Loops, TodoOK, Signing
  <1>5. b \in Regulators /\ (Live(b) \/ Stuck(b))
    BY <1>3, <1>4, AmendmentFinds
  <1>6. PICK said : said = RereleaseSaid(b)
    OBVIOUS
  <1>7. /\ said \in Seq(Spoken) /\ Len(said) <= 5
        /\ Events(said, Plain1 \cup {"signoff_opened"})
    <2>1. RereleaseSaid(b) \in Seq(Spoken) /\ Len(RereleaseSaid(b)) = 2
      BY Scripts
    <2>2. Events(RereleaseSaid(b), Plain1 \cup {"signoff_opened"})
      BY ScriptEvents
    <2>3. QED
      BY <1>6, <2>1, <2>2
  <1>8. /\ Heard(b, said) \/ Stuck(b)'
        /\ Stuck(b)' \/ (Live(b)' /\ step' \notin Early)
    <2>1. CASE Live(b)
      <3>1. state[b] = "draft_submitted"
        BY <1>3, <1>4, <1>5, <2>1 DEF LiveOK, Stage, Joining
      <3>2. Live(b)'
        BY <1>3, <2>1, LiveGoesOn
      <3>3. Heard(b, RereleaseSaid(b))
        BY <3>1, ScriptsAreHeard
      <3>4. QED
        BY <1>3, <1>6, <3>2, <3>3
    <2>2. CASE Stuck(b)
      BY <2>2, StuckPersists
    <2>3. QED
      BY <1>5, <2>1, <2>2
  <1>9. Told(b, said)
    BY <1>1, <1>2, <1>6 DEF Told
  <1>10. QED
    BY <1>7, <1>8, <1>9, GrowsBy DEF Plain1

\* The beats that follow the release.
LEMMA HighRiskGrows ==
  ASSUME IInv, ~CutShort, ~CutShort', Drive, HighRisk, Log(InHand, NoticeSaid),
         NEW b \in Branches
  PROVE  Grows(b)
  <1>1. rows'[b] = IF b \in InHand THEN rows[b] \o Record(b, NoticeSaid(b)) ELSE rows[b]
    BY DEF Log
  <1>2. SUFFICES ASSUME b \in InHand PROVE Grows(b)
    BY <1>1 DEF Grows
  <1>3. /\ step = "affected_party" /\ step' = step /\ lock = "idle" /\ step \notin Early
        /\ b = Head(todo) /\ TodoOK /\ CustomersOK /\ FloorTypeOK /\ step \notin Ending
    BY <1>2, IInvParts DEF HighRisk, Running, Early, Joining, InHand, Ending
  <1>4. b = AffectedParty
    BY <1>3, HandFacts, VisitsAre DEF Loops, TodoOK
  <1>5. state[b] = "initiated"
    BY <1>3, <1>4 DEF CustomersOK
  <1>6. Live(b)'
    <2>1. clock'[b] = "running"
      BY <1>3 DEF HighRisk, FloorTypeOK
    <2>2. CustomersOK'
      BY NextIInv DEF IInv, Next
    <2>3. QED
      BY <1>4, <2>1, <2>2 DEF CustomersOK, Live, Joined
  <1>7. PICK said : said = NoticeSaid(b)
    OBVIOUS
  <1>8. /\ said \in Seq(Spoken) /\ Len(said) <= 5 /\ Heard(b, said)
        /\ Events(said, Plain1 \cup {"signoff_opened"})
    <2>1. NoticeSaid(b) \in Seq(Spoken) /\ Len(NoticeSaid(b)) = 5
      BY Scripts
    <2>2. Events(NoticeSaid(b), Plain1 \cup {"signoff_opened"})
      BY ScriptEvents
    <2>3. Heard(b, NoticeSaid(b))
      BY <1>5, ScriptsAreHeard
    <2>4. QED
      BY <1>7, <2>1, <2>2, <2>3
  <1>9. Told(b, said)
    BY <1>1, <1>2, <1>7 DEF Told
  <1>10. QED
    BY <1>3, <1>6, <1>8, <1>9, GrowsBy DEF Plain1

\* A deficient filing was released.
LEMMA DeficientIsLive ==
  ASSUME IInv, ~CutShort, step \in {"deficiency", "cure"}
  PROVE  Live("sec") /\ LiveOK /\ TodoOK /\ step \notin Early
  <1>1. /\ RunOK /\ LiveOK /\ TodoOK /\ scenario.mode = "deficiency"
        /\ scenario \in Scenarios /\ step \notin Early
    BY IInvParts DEF Running, LoopOK, Wanted, FloorTypeOK, Early, Joining
  <1>2. ~scenario.materiality
    BY <1>1, ScenariosAssumption DEF CliAccepts
  <1>3. "sec" \in Regulators /\ "sec" \in Drafters /\ step # "open"
    BY DEF Regulators, Drafters
  <1>4. Joined("sec") /\ state["sec"] # "suppressed"
    BY <1>1, <1>2, <1>3 DEF RunOK
  <1>5. QED
    BY <1>1, <1>4 DEF Live

LEMMA DeficiencyGrows ==
  ASSUME IInv, ~CutShort, DeficiencyNotice, Log({"sec"}, AmendSaid), NEW b \in Branches
  PROVE  Grows(b)
  <1>1. rows'[b] = IF b \in {"sec"} THEN rows[b] \o Record(b, AmendSaid(b)) ELSE rows[b]
    BY DEF Log
  <1>2. SUFFICES ASSUME b = "sec" PROVE Grows(b)
    BY <1>1 DEF Grows
  <1>3. state[b] = "released"
    <2>1. step = "deficiency" /\ Live(b) /\ LiveOK /\ b \in Regulators
      BY <1>2, DeficientIsLive, SecIsABranch DEF DeficiencyNotice
    <2>2. QED
      BY <2>1 DEF LiveOK, Stage, Joining
  <1>4. PICK said : said = AmendSaid(b)
    OBVIOUS
  <1>5. said \in Seq(Spoken) /\ Len(said) <= 5 /\ Heard(b, said) /\ Events(said, Plain1)
    <2>1. AmendSaid(b) \in Seq(Spoken) /\ Len(AmendSaid(b)) = 1
      BY Scripts
    <2>2. Heard(b, AmendSaid(b))
      BY <1>3, ScriptsAreHeard
    <2>3. Events(AmendSaid(b), Plain1)
      BY ScriptEvents
    <2>4. QED
      BY <1>4, <2>1, <2>2, <2>3
  <1>6. Told(b, said)
    BY <1>1, <1>2, <1>4 DEF Told
  <1>7. QED
    BY <1>5, <1>6, GrowsBy DEF Plain1

LEMMA CureGrows ==
  ASSUME IInv, ~CutShort, ~CutShort', Drive, Cure, Log({"sec"}, CureSaid),
         NEW b \in Branches
  PROVE  Grows(b)
  <1>1. rows'[b] = IF b \in {"sec"} THEN rows[b] \o Record(b, CureSaid(b)) ELSE rows[b]
    BY DEF Log
  <1>2. SUFFICES ASSUME b = "sec" PROVE Grows(b)
    BY <1>1 DEF Grows
  <1>3. /\ step = "cure" /\ step' = step /\ Live(b) /\ LiveOK /\ b \in Regulators
        /\ step \notin Early /\ lock = "idle"
    BY <1>2, DeficientIsLive, SecIsABranch DEF Cure
  <1>4. state[b] = "amending"
    BY <1>2, <1>3 DEF LiveOK, Stage, Joining
  <1>5. Live(b)' /\ step' \notin Early
    <2>1. step \notin BeforeDiff
      BY <1>3 DEF BeforeDiff
    <2>2. QED
      BY <1>3, <2>1, LiveGoesOn
  <1>6. PICK said : said = CureSaid(b)
    OBVIOUS
  <1>7. /\ said \in Seq(Spoken) /\ Len(said) <= 5 /\ Heard(b, said)
        /\ Events(said, Plain1 \cup {"signoff_opened"})
    <2>1. CureSaid(b) \in Seq(Spoken) /\ Len(CureSaid(b)) = 3
      BY Scripts
    <2>2. Heard(b, CureSaid(b))
      BY <1>4, ScriptsAreHeard
    <2>3. Events(CureSaid(b), Plain1 \cup {"signoff_opened"})
      BY ScriptEvents
    <2>4. QED
      BY <1>6, <2>1, <2>2, <2>3
  <1>8. Told(b, said)
    BY <1>1, <1>2, <1>6 DEF Told
  <1>9. QED
    BY <1>5, <1>7, <1>8, GrowsBy DEF Plain1

LEMMA LoggedIsDrive == ASSUME LoggedDrive PROVE Drive /\ UNCHANGED <<slip, packet, disk>>
  <1>1. Drive
    BY Zenon DEF LoggedDrive, Drive
  <1>2. UNCHANGED <<slip, packet, disk>>
    BY DEF LoggedDrive, Log, Quiet, packetVars
  <1>3. QED
    BY <1>1, <1>2

LEMMA LoggedGrows ==
  ASSUME IInv, ~CutShort, ~CutShort', LoggedDrive, step = "resolve" => Vetoed,
         NEW b \in Branches
  PROVE  Grows(b)
  <1>1. Drive
    BY LoggedIsDrive
  <1>2. ASSUME Quiet PROVE Grows(b)
    BY <1>2 DEF Quiet, packetVars, Grows
  <1>3. CASE Open /\ Log({"nis2", "sec", "dora"}, OpeningSaid)
    BY <1>3, OpenGrows
  <1>4. CASE (Materiality \/ Reportability) /\ Log(Newly("suppressed"), SuppressSaid)
    BY <1>4, VerdictGrows
  <1>5. CASE Draft /\ Log(InHand, DraftSaid)
    BY <1>5, DraftGrows
  <1>6. CASE Recruit /\ Log(InHand, RecruitSaid)
    BY <1>6, RecruitGrows
  <1>7. CASE Diff /\ Log(Drafted, DiffSaid)
    BY <1>1, <1>7, VetoStands, DiffGrows
  <1>8. CASE Resolve /\ Log(Drafted, ResolveSaid)
    BY <1>8, ResolveGrows
  <1>9. CASE BeginRelease /\ Log(InHand, SignoffSaid)
    BY <1>1, <1>9, BeginReleaseGrows
  <1>10. CASE Turn /\ Log(InHand, ReleaseSaid)
    BY <1>1, <1>10, TurnGrows
  <1>11. CASE Amend /\ Log({ a \in Branches : Amended(a) }, AmendSaid)
    BY <1>1, <1>11, AmendGrows
  <1>12. CASE SubmitAmendment /\ Log(IF CanSubmit THEN InHand ELSE {}, AmendedDraftSaid)
    BY <1>1, <1>12, SubmitAmendmentGrows
  <1>13. CASE BeginRerelease /\ Log(InHand, RereleaseSaid)
    BY <1>1, <1>13, BeginRereleaseGrows
  <1>14. CASE HighRisk /\ Log(InHand, NoticeSaid)
    BY <1>1, <1>14, HighRiskGrows
  <1>15. CASE DeficiencyNotice /\ Log({"sec"}, AmendSaid)
    BY <1>15, DeficiencyGrows
  <1>16. CASE Cure /\ Log({"sec"}, CureSaid)
    BY <1>1, <1>16, CureGrows
  <1>17. QED
    BY <1>2, <1>3, <1>4, <1>5, <1>6, <1>7, <1>8, <1>9, <1>10, <1>11, <1>12, <1>13, <1>14,
       <1>15, <1>16 DEF LoggedDrive

\* Whatever becomes of the run, what is logged is a row.
LEMMA LoggedIsTyped ==
  ASSUME rows \in [Branches -> Seq(Row)], LoggedDrive
  PROVE  rows' \in [Branches -> Seq(Row)]
  <1>1. ASSUME NEW b \in Branches, NEW said \in Seq(Spoken)
        PROVE  rows[b] \o Record(b, said) \in Seq(Row)
    <2>1. rows[b] \in Seq(Row)
      OBVIOUS
    <2>2. Record(b, said) \in Seq(Row)
      BY RecordTyped
    <2>3. QED
      BY <2>1, <2>2, ConcatProperties
  <1>2. CASE Quiet
    BY <1>2 DEF Quiet, packetVars
  <1>3. CASE Log({"nis2", "sec", "dora"}, OpeningSaid)
    <2>1. \A b \in Branches : OpeningSaid(b) \in Seq(Spoken)
      BY Scripts
    <2>2. QED
      BY <1>1, <1>3, <2>1 DEF Log
  <1>4. CASE Log(Newly("suppressed"), SuppressSaid)
    <2>1. \A b \in Branches : SuppressSaid(b) \in Seq(Spoken)
      BY Scripts
    <2>2. QED
      BY <1>1, <1>4, <2>1 DEF Log
  <1>5. CASE Log(InHand, DraftSaid)
    <2>1. \A b \in Branches : DraftSaid(b) \in Seq(Spoken)
      BY Scripts
    <2>2. QED
      BY <1>1, <1>5, <2>1 DEF Log
  <1>6. CASE Log(InHand, RecruitSaid)
    <2>1. \A b \in Branches : RecruitSaid(b) \in Seq(Spoken)
      BY Scripts
    <2>2. QED
      BY <1>1, <1>6, <2>1 DEF Log
  <1>7. CASE Log(Drafted, DiffSaid)
    <2>1. \A b \in Branches : DiffSaid(b) \in Seq(Spoken)
      BY Scripts
    <2>2. QED
      BY <1>1, <1>7, <2>1 DEF Log
  <1>8. CASE Log(Drafted, ResolveSaid)
    <2>1. \A b \in Branches : ResolveSaid(b) \in Seq(Spoken)
      BY Scripts
    <2>2. QED
      BY <1>1, <1>8, <2>1 DEF Log
  <1>9. CASE Log(InHand, SignoffSaid)
    <2>1. \A b \in Branches : SignoffSaid(b) \in Seq(Spoken)
      BY Scripts
    <2>2. QED
      BY <1>1, <1>9, <2>1 DEF Log
  <1>10. CASE Log(InHand, ReleaseSaid)
    <2>1. \A b \in Branches : ReleaseSaid(b) \in Seq(Spoken)
      BY Scripts
    <2>2. QED
      BY <1>1, <1>10, <2>1 DEF Log
  <1>11. CASE Log({ a \in Branches : Amended(a) }, AmendSaid)
    <2>1. \A b \in Branches : AmendSaid(b) \in Seq(Spoken)
      BY Scripts
    <2>2. QED
      BY <1>1, <1>11, <2>1 DEF Log
  <1>12. CASE Log(IF CanSubmit THEN InHand ELSE {}, AmendedDraftSaid)
    <2>1. \A b \in Branches : AmendedDraftSaid(b) \in Seq(Spoken)
      BY Scripts
    <2>2. QED
      BY <1>1, <1>12, <2>1 DEF Log
  <1>13. CASE Log(InHand, RereleaseSaid)
    <2>1. \A b \in Branches : RereleaseSaid(b) \in Seq(Spoken)
      BY Scripts
    <2>2. QED
      BY <1>1, <1>13, <2>1 DEF Log
  <1>14. CASE Log(InHand, NoticeSaid)
    <2>1. \A b \in Branches : NoticeSaid(b) \in Seq(Spoken)
      BY Scripts
    <2>2. QED
      BY <1>1, <1>14, <2>1 DEF Log
  <1>15. CASE Log({"sec"}, AmendSaid)
    <2>1. \A b \in Branches : AmendSaid(b) \in Seq(Spoken)
      BY Scripts
    <2>2. QED
      BY <1>1, <1>15, <2>1 DEF Log
  <1>16. CASE Log({"sec"}, CureSaid)
    <2>1. \A b \in Branches : CureSaid(b) \in Seq(Spoken)
      BY Scripts
    <2>2. QED
      BY <1>1, <1>16, <2>1 DEF Log
  <1>17. QED
    BY <1>2, <1>3, <1>4, <1>5, <1>6, <1>7, <1>8, <1>9, <1>10, <1>11, <1>12, <1>13, <1>14, <1>15, <1>16 DEF LoggedDrive

\* Where the diff comes in the run.
LEMMA IntoTheDiff ==
  ASSUME IInv, ~CutShort, Drive, ~CutShort'
  PROVE  /\ step \in BeforeDiff /\ step' \notin BeforeDiff => step = "diff"
         /\ step \in Early /\ step' \notin Early => step \in {"diff", "resolve"}
  <1>1. scenario \in Scenarios /\ Wanted(step)
    BY IInvParts DEF FloorTypeOK, Running, LoopOK
  <1>2. /\ After("open") \in BeforeDiff /\ After("reportability") \in BeforeDiff
        /\ After("drafting") \in BeforeDiff /\ After("recruit_uk") \in BeforeDiff
        /\ After("recruit_nydfs") \in BeforeDiff /\ After("cross_border") \in BeforeDiff
        /\ step = "materiality" => After("materiality") \in BeforeDiff
    <2>1. step = "materiality" => scenario.materiality
      BY <1>1 DEF Wanted
    <2>2. /\ After("open") \in {"materiality", "reportability", "drafting"}
          /\ After("reportability") = "drafting"
          /\ After("drafting") \in {"recruit_uk", "recruit_nydfs", "cross_border", "diff"}
          /\ After("recruit_uk") \in {"recruit_nydfs", "cross_border", "diff"}
          /\ After("recruit_nydfs") \in {"cross_border", "diff"}
          /\ After("cross_border") = "diff"
          /\ scenario.materiality => After("materiality") = "drafting"
      BY <1>1, AfterTable
    <2>3. QED
      BY <2>1, <2>2 DEF BeforeDiff, Early, Joining
  <1>3. ASSUME step \in BeforeDiff, step # "diff" PROVE step' \in BeforeDiff
    <2>1. step' # "raised"
      BY DEF CutShort
    <2>2. step \in {"open", "materiality", "reportability", "drafting", "recruit_uk",
                   "recruit_nydfs", "cross_border", "cross_border_signoff"}
      BY <1>3 DEF BeforeDiff, Early, Joining
    <2>3. CASE step = "cross_border_signoff"
      BY <1>2, <2>1, <2>3, StepMoves DEF PhaseNames, BeforeDiff, Early, Joining
    <2>4. CASE step = "cross_border"
      BY <1>2, <2>1, <2>4, StepMoves DEF PhaseNames, BeforeDiff, Early, Joining
    <2>5. CASE step \notin {"cross_border", "cross_border_signoff"}
      <3>1. step' = step \/ step' = After(step)
        BY <2>1, <2>2, <2>5, StepMoves
      <3>2. QED
        BY <1>2, <1>3, <2>2, <2>5, <3>1
    <2>6. QED
      BY <2>3, <2>4, <2>5
  <1>4. BeforeDiff \subseteq Early /\ \A s \in Early : s \in BeforeDiff \/ s = "resolve"
    BY DEF BeforeDiff
  <1>5. QED
    BY <1>3, <1>4

\* A branch that takes part after the screens took part before.
LEMMA LiveCameFrom ==
  ASSUME IInv, ~CutShort, Drive, step # "open", Vetoed'
  PROVE  Vetoed
  <1>1. FloorTypeOK /\ RunOK /\ scenario' = scenario
    BY IInvParts, RunGoesOn DEF Running
  <1>2. "sec" \in Branches /\ "sec" \in Regulators /\ "sec" \in Drafters
    BY SecIsABranch DEF Drafters
  <1>3. state'["sec"] # "suppressed" /\ scenario.mode = "inject_contradiction"
    BY <1>1 DEF Vetoed, Live
  <1>4. state["sec"] # "suppressed"
    BY <1>1, <1>2, <1>3, SuppressedStays
  <1>5. Joined("sec")
    BY <1>1, <1>2 DEF RunOK
  <1>6. QED
    BY <1>3, <1>4, <1>5 DEF Vetoed, Live

\* The diff of a contradiction is red.
LEMMA VetoedIsRed ==
  ASSUME IInv, ~CutShort, step \in {"diff", "resolve"}, Vetoed
  PROVE  "sec" \in Drafted /\ (step = "diff" => Contradict(claims, Drafted))
  <1>1. FloorTypeOK /\ Running
    BY IInvParts
  <1>2. /\ Drafted = { b \in Regulators : Live(b) } /\ "nis2" \in Drafted
        /\ \A b \in Drafted : claims[b] = ClaimFactsFor(b)
    BY <1>1, DraftedAre DEF Vetoed
  <1>3. "sec" \in Drafted
    BY <1>2, SecIsABranch DEF Vetoed
  <1>4. ClaimFactsFor("sec") # CanonicalFacts /\ ClaimFactsFor("nis2") = CanonicalFacts
    BY FactsDiffer DEF Vetoed
  <1>5. Contradict(claims, Drafted)
    BY <1>2, <1>3, <1>4 DEF Contradict
  <1>6. QED
    BY <1>3, <1>5

\* What the diff and the resolution leave in the log.
LEMMA VetoIsLogged ==
  ASSUME IInv, ~CutShort, rows["sec"] \in Seq(Row), LoggedDrive, step = "diff", Vetoed
  PROVE  /\ \E r \in RowsOf("sec")' : Veto(r)
         /\ step' = "resolve"
  <1>1. Diff /\ Log(Drafted, DiffSaid)
    <2>1. Diff
      BY LoggedIsDrive, OnlyDiff
    <2>2. QED
      BY <2>1, ActionSteps DEF LoggedDrive
  <1>2. "sec" \in Drafted /\ Contradict(claims, Drafted) /\ "sec" \in Branches
    BY VetoedIsRed, SecIsABranch
  <1>3. PICK said : said = DiffSaid("sec")
    OBVIOUS
  <1>4. /\ said \in Seq(Spoken) /\ Len(said) = 1 /\ said[1].event = "diff_blocked"
    BY <1>2, <1>3, Scripts, ScriptEvents
  <1>5. rows'["sec"] = rows["sec"] \o Record("sec", said)
    BY <1>1, <1>2, <1>3 DEF Log
  <1>6. RowsOf("sec")' = RowsOf("sec") \cup { Record("sec", said)[i] : i \in 1..Len(said) }
    <2>1. Len(said) <= 5
      BY <1>4
    <2>2. QED
      BY <1>4, <1>5, <2>1, LogRow
  <1>7. Record("sec", said)[1].event = "diff_blocked"
    BY <1>4, RecordFields
  <1>8. step' = "resolve"
    BY <1>1, <1>2 DEF Diff
  <1>9. QED
    BY <1>4, <1>6, <1>7, <1>8 DEF Veto

LEMMA RemedyIsLogged ==
  ASSUME IInv, ~CutShort, rows["sec"] \in Seq(Row), LoggedDrive, step = "resolve", Vetoed
  PROVE  \E r \in RowsOf("sec")' : Remedy(r)
  <1>1. Resolve /\ Log(Drafted, ResolveSaid)
    <2>1. Resolve
      BY LoggedIsDrive, ActionSteps DEF Drive
    <2>2. QED
      BY <2>1, ActionSteps DEF LoggedDrive
  <1>2. "sec" \in Drafted /\ "sec" \in Branches
    BY VetoedIsRed, SecIsABranch
  <1>3. PICK said : said = ResolveSaid("sec")
    OBVIOUS
  <1>4. said \in Seq(Spoken) /\ Len(said) \in {1, 2} /\ said[1].ts = TS_RESOLVE
    BY <1>2, <1>3, Scripts, ScriptEvents
  <1>5. rows'["sec"] = rows["sec"] \o Record("sec", said)
    BY <1>1, <1>2, <1>3 DEF Log
  <1>6. RowsOf("sec")' = RowsOf("sec") \cup { Record("sec", said)[i] : i \in 1..Len(said) }
    <2>1. Len(said) <= 5
      <3>1. Len(said) = 1 \/ Len(said) = 2
        BY <1>4, Zenon
      <3>2. 1 <= 5 /\ 2 <= 5
        OBVIOUS
      <3>3. QED
        BY <3>1, <3>2, Zenon
    <2>2. QED
      BY <1>4, <1>5, <2>1, LogRow
  <1>7. 1 \in 1..Len(said)
    BY <1>4
  <1>8. Record("sec", said)[1].ts = TS_RESOLVE
    BY <1>4, <1>7, RecordFields
  <1>9. QED
    BY <1>6, <1>7, <1>8 DEF Remedy

LEMMA ReleaseIsLogged ==
  ASSUME IInv, ~CutShort, ~CutShort', rows \in [Branches -> Seq(Row)], LoggedDrive,
         Turn, NEW b, b = Head(todo)
  PROVE  \E r \in RowsOf(b)' : IsRelease(b, r)'
  <1>1. Log(InHand, ReleaseSaid)
    <2>1. step \in {"release", "amend_release", "affected_party", "cure"} /\ lock = "turned"
      BY DEF Turn, Releases
    <2>2. /\ ~(BeginRelease \/ SkipUnchecked \/ SignKey \/ BeginRerelease)
          /\ ~(NoHighRisk \/ HighRisk \/ Cure)
      BY <2>1 DEF BeginRelease, SkipUnchecked, SignKey, BeginRerelease, NoHighRisk, HighRisk, Cure
    <2>3. QED
      BY <2>1, <2>2, ActionSteps DEF LoggedDrive
  <1>2. /\ b \in Branches /\ b \in InHand /\ state[b] = "awaiting_human_signoff"
        /\ Len(filed'[b]) \in Nat \ {0} /\ ReleasedAt(b) = ReleasedOn(b, Len(filed'[b]))
    BY TurnIsRelease
  <1>3. PICK said : said = ReleaseSaid(b)
    OBVIOUS
  <1>4. /\ said \in Seq(Spoken) /\ Len(said) = 1 /\ Heard(b, said)
        /\ said[1].event = "human_released" /\ said[1].ts = ReleasedAt(b)
    <2>1. ReleaseSaid(b) \in Seq(Spoken) /\ Len(ReleaseSaid(b)) = 1
      BY <1>2, Scripts
    <2>2. Heard(b, ReleaseSaid(b))
      BY <1>2, ScriptsAreHeard
    <2>3. said[1].event = "human_released" /\ said[1].ts = ReleasedAt(b)
      BY <1>3 DEF ReleaseSaid, Said
    <2>4. QED
      BY <1>3, <2>1, <2>2, <2>3
  <1>5. rows'[b] = rows[b] \o Record(b, said)
    BY <1>1, <1>2, <1>3 DEF Log
  <1>6. RowsOf(b)' = RowsOf(b) \cup { Record(b, said)[i] : i \in 1..Len(said) }
    <2>1. rows[b] \in Seq(Row)
      BY <1>2
    <2>2. Len(said) <= 5 /\ said \in Seq(Spoken)
      BY <1>4
    <2>3. PICK a : a = b
      OBVIOUS
    <2>4. a \in Branches /\ rows[a] \in Seq(Row) /\ rows'[a] = rows[a] \o Record(a, said)
      BY <1>2, <1>5, <2>1, <2>3
    <2>5. RowsOf(a)' = RowsOf(a) \cup { Record(a, said)[i] : i \in 1..Len(said) }
      <3> HIDE <2>3
      <3>1. QED
        BY <2>2, <2>4, LogRow
    <2>6. QED
      BY <2>3, <2>5
  <1>7. PICK r : r = Record(b, said)[1]
    OBVIOUS
  <1>8. r \in RowsOf(b)' /\ r.event = "human_released" /\ r.admitted /\ r.ts = ReleasedAt(b)
    <2>1. 1 \in 1..Len(said) /\ said \in Seq(Spoken)
      BY <1>4
    <2>2. r \in RowsOf(b)'
      BY <1>6, <1>7, <2>1
    <2>3. r.event = said[1].event /\ r.ts = said[1].ts
      BY <1>7, <2>1, RecordFields
    <2>4. r.admitted
      BY <1>4, <1>7, <2>1 DEF Heard
    <2>5. QED
      BY <1>4, <2>2, <2>3, <2>4
  <1>9. r.ts = ReleasedOn(b, Len(filed[b]))'
    <2>1. scenario' = scenario
      BY LoggedIsDrive, RunGoesOn, IInvParts
    <2>2. PICK n : n = Len(filed'[b])
      OBVIOUS
    <2>3. r.ts = ReleasedOn(b, n)
      BY <1>2, <1>8, <2>2
    <2>4. r.ts = ReleasedOn(b, n)'
      BY <2>1, <2>3, SameMinute
    <2>5. ReleasedOn(b, Len(filed[b]))' = ReleasedOn(b, n)'
      BY <2>2 DEF ReleasedOn
    <2>6. QED
      BY <2>4, <2>5
  <1>10. QED
    BY <1>8, <1>9 DEF IsRelease

LEMMA RowsKeep ==
  ASSUME IInv, ~CutShort, ~CutShort', PacketTypeOK, LoggedDrive, BeatsOK, RowsOK
  PROVE  RowsOK'
  <1>1. Drive /\ rows \in [Branches -> Seq(Row)] /\ scenario' = scenario /\ FloorTypeOK
    BY LoggedIsDrive, RunGoesOn, IInvParts DEF PacketTypeOK
  <1>2. ASSUME NEW b \in Branches
        PROVE  RowsOf(b) \subseteq RowsOf(b)' /\ \A r \in RowsOf(b)' : Fits(b, r)'
    <2>1. Grows(b) /\ rows[b] \in Seq(Row) /\ \A r \in RowsOf(b) : Fits(b, r)
      BY <1>1, LoggedGrows DEF BeatsOK, RowsOK
    <2>2. QED
      BY <1>1, <2>1, GrowsWell
  <1>3. ASSUME NEW b \in Branches, filed'[b] # <<>>
        PROVE  \E r \in RowsOf(b)' : IsRelease(b, r)'
    <2>1. CASE Turn /\ b = Head(todo)
      BY <1>1, <2>1, ReleaseIsLogged
    <2>2. CASE ~(Turn /\ b = Head(todo))
      <3>1. filed'[b] = filed[b]
        BY <1>1, <2>2, RunGoesOn
      <3>2. PICK r \in RowsOf(b) : IsRelease(b, r)
        BY <1>3, <3>1 DEF RowsOK
      <3>3. PICK n : n = Len(filed[b])
        OBVIOUS
      <3>4. ReleasedOn(b, n)' = ReleasedOn(b, n)
        BY <1>1, SameMinute
      <3>5. ReleasedOn(b, Len(filed[b]))' = ReleasedOn(b, n)'
        BY <3>1, <3>3 DEF ReleasedOn
      <3>6. IsRelease(b, r)'
        BY <3>2, <3>3, <3>4, <3>5 DEF IsRelease
      <3>7. QED
        BY <1>2, <3>2, <3>6
    <2>3. QED
      BY <2>1, <2>2
  <1>4. ASSUME Vetoed', step' \notin BeforeDiff
        PROVE  \E b \in Branches : \E r \in RowsOf(b)' : Veto(r)
    <2>1. CASE step \in BeforeDiff
      <3>1. step = "diff"
        BY <1>1, <1>4, <2>1, IntoTheDiff
      <3>2. Vetoed
        BY <1>1, <1>4, <3>1, LiveCameFrom
      <3>3. QED
        BY <1>1, <3>1, <3>2, VetoIsLogged, SecIsABranch
    <2>2. CASE step \notin BeforeDiff
      <3>1. step # "open"
        BY <2>2 DEF BeforeDiff, Early
      <3>2. Vetoed
        BY <1>1, <1>4, <3>1, LiveCameFrom
      <3>3. QED
        BY <1>2, <2>2, <3>2 DEF RowsOK
    <2>3. QED
      BY <2>1, <2>2
  <1>5. ASSUME Vetoed', step' \notin Early
        PROVE  \E b \in Branches : \E r \in RowsOf(b)' : Remedy(r)
    <2>1. CASE step \in Early
      <3>1. step \in {"diff", "resolve"}
        BY <1>1, <1>5, <2>1, IntoTheDiff
      <3>2. Vetoed
        BY <1>1, <1>5, <3>1, LiveCameFrom
      <3>3. step # "diff"
        <4>1. step = "diff" => step' = "resolve"
          BY <1>1, <3>2, VetoIsLogged, SecIsABranch
        <4>2. QED
          BY <1>5, <4>1 DEF Early, Joining
      <3>4. QED
        BY <1>1, <3>1, <3>2, <3>3, RemedyIsLogged, SecIsABranch
    <2>2. CASE step \notin Early
      <3>1. step # "open"
        BY <2>2 DEF Early
      <3>2. Vetoed
        BY <1>1, <1>5, <3>1, LiveCameFrom
      <3>3. QED
        BY <1>2, <2>2, <3>2 DEF RowsOK
    <2>3. QED
      BY <2>1, <2>2
  <1>6. QED
    BY <1>2, <1>3, <1>4, <1>5 DEF RowsOK, Veto, Remedy
-----------------------------------------------------------------------------
(***************************************************************************)
(* The packet invariant.                                                   *)
(***************************************************************************)
\* Every step of the packet is a step of the floor, or none of the run's.
LEMMA StepOfTheFloor ==
  ASSUME [PacketNext]_<<vars, packetVars>> PROVE [Next]_vars
  <1>1. CASE LoggedDrive
    BY <1>1, LoggedIsDrive DEF Next
  <1>2. CASE PacketInterrupt
    BY <1>2 DEF PacketInterrupt, Next
  <1>3. CASE Assemble \/ WriteJson \/ WriteHtml \/ SaveLog
    BY <1>3 DEF Assemble, WriteJson, WriteHtml, SaveLog, Write
  <1>4. CASE PacketOver
    BY <1>4 DEF PacketOver
  <1>5. CASE UNCHANGED <<vars, packetVars>>
    BY <1>5
  <1>6. QED
    BY <1>1, <1>2, <1>3, <1>4, <1>5 DEF PacketNext

\* Nothing drives a run that is sealed or was cut short.
LEMMA EndedDrivesNothing ==
  ASSUME step = "sealed" \/ CutShort PROVE ~LoggedDrive /\ ~Interrupt
  <1>1. step \in {"sealed", "raised", "interrupted"}
    BY DEF CutShort
  <1>2. ~Drive
    BY <1>1, ActionSteps DEF Drive
  <1>3. ~Interrupt
    BY <1>1 DEF Interrupt, Finished
  <1>4. QED
    BY <1>2, <1>3, LoggedIsDrive

\* While the run and its log stand still, so does what is made of them.
LEMMA TextStands ==
  ASSUME UNCHANGED <<vars, slip>>, NEW b PROVE FirstText(b)' = FirstText(b)
  <1>1. scenario' = scenario /\ slip' = slip
    BY DEF vars
  <1>2. Amends' = Amends /\ ClaimFactsFor(b)' = ClaimFactsFor(b)
    BY <1>1 DEF Amends, ClaimFactsFor
  <1>3. DraftedFrom(b)' = DraftedFrom(b)
    BY <1>2 DEF DraftedFrom
  <1>4. QED
    BY <1>1, <1>3 DEF FirstText

LEMMA RecordStands ==
  ASSUME UNCHANGED vars, NEW f PROVE RecordFor(f)' = RecordFor(f)
  <1>1. scenario' = scenario
    BY DEF vars
  <1>2. PICK b : b = f.branch
    OBVIOUS
  <1>3. Amends' = Amends /\ ClaimFactsFor(b)' = ClaimFactsFor(b)
    BY <1>1 DEF Amends, ClaimFactsFor
  <1>4. DraftedFrom(b)' = DraftedFrom(b)
    BY <1>3 DEF DraftedFrom
  <1>5. DraftedFrom(f.branch)' = DraftedFrom(b)'
    BY <1>2 DEF DraftedFrom, ClaimFactsFor
  <1>6. QED
    BY <1>2, <1>4, <1>5 DEF RecordFor

LEMMA PacketFilingsStand ==
  ASSUME UNCHANGED <<vars, slip>>
  PROVE  BaseFilings' = BaseFilings /\ AmendedFilings' = AmendedFilings
  <1>1. UNCHANGED <<scenario, ran, claims, slip>>
    BY DEF vars, branchVars
  <1>2. Amends' = Amends /\ \A b : InRun(b)' = InRun(b)
    BY <1>1 DEF Amends, InRun
  <1>3. Drafted' = Drafted
    BY <1>1 DEF Drafted
  <1>4. ASSUME NEW b PROVE FirstText(b)' = FirstText(b)
    BY TextStands
  <1>5. BaseFilings' = BaseFilings
    BY <1>1, <1>2, <1>3, <1>4 DEF BaseFilings
  <1>6. AmendedFilings' = AmendedFilings
    BY <1>2 DEF AmendedFilings
  <1>7. QED
    BY <1>5, <1>6

LEMMA ReviewsStand ==
  ASSUME UNCHANGED <<vars, slip>>
  PROVE  Reviews' = Reviews
  <1>1. Drafted' = Drafted
    BY DEF Drafted, vars, branchVars
  <1>2. ASSUME NEW b PROVE FirstText(b)' = FirstText(b)
    BY TextStands
  <1>3. Ungrounded' <=> Ungrounded
    BY <1>1, <1>2 DEF Ungrounded
  <1>4. QED
    BY <1>3 DEF Reviews

LEMMA BaseStands ==
  ASSUME UNCHANGED <<vars, slip, rows>>, NEW review
  PROVE  BasePacket(review)' = BasePacket(review)
  <1>1. UNCHANGED <<scenario, state, ran, claims, clock, conflict, hold, receipts, rows, slip>>
    BY DEF vars, branchVars, dutyVars
  <1>2. Amends' = Amends /\ Drafted' = Drafted /\ Suppressed' = Suppressed
    BY <1>1 DEF Amends, Drafted, Suppressed
  <1>3. (BaseFilings \cup AmendedFilings)' = BaseFilings \cup AmendedFilings
    <2>1. UNCHANGED <<vars, slip>>
      OBVIOUS
    <2>2. QED
      BY <2>1, PacketFilingsStand
  <1>4. ClockRows' = ClockRows
    <2>1. \A c : StartedAt(c)' = StartedAt(c)
      BY <1>1, <1>2 DEF StartedAt, Anchor
    <2>2. \A c : StoppedAt(c)' = StoppedAt(c)
      BY <1>1, <1>2 DEF StoppedAt, NoticeAt, Anchor
    <2>3. QED
      BY <1>1, <2>1, <2>2 DEF ClockRows
  <1>5. { b \in {"uk", "nydfs"} : InRun(b) }' = { b \in {"uk", "nydfs"} : InRun(b) }
    BY <1>1 DEF InRun
  <1>6. [b \in Drafted |-> claims[b]]' = [b \in Drafted |-> claims[b]]
    BY <1>1, <1>2
  <1>7. PICK blocked : blocked = (\E b \in Branches :
                            \E i \in DOMAIN rows[b] : rows[b][i].event = "diff_blocked")
    OBVIOUS
  <1>8. PICK resolved : resolved = (\E b \in Branches :
                            \E i \in DOMAIN rows[b] : rows[b][i].ts = TS_RESOLVE)
    OBVIOUS
  <1>9. PICK drops : drops = (scenario.mode = "chaos" /\ "sec" \in Drafted)
    OBVIOUS
  <1>10. PICK injected : injected = (scenario.mode = "inject_claims" /\ "sec" \in Drafted)
    OBVIOUS
  <1>11. PICK deficient : deficient = (scenario.mode = "deficiency")
    OBVIOUS
  <1>12. PICK reconciled : reconciled = Amends
    OBVIOUS
  <1>13. PICK materiality : materiality =
                              (IF ~scenario.materiality THEN "absent"
                               ELSE IF "sec" \in Suppressed THEN "not_material"
                               ELSE "material")
    OBVIOUS
  <1>14. PICK regimes : regimes =
                              (IF scenario.mode = "reportability"
                                 THEN {"nis2", "sec", "dora"} ELSE {})
    OBVIOUS
  <1>15. PICK clash : clash = (IF scenario.mode # "cross_border" THEN "absent"
                               ELSE IF conflict = "none" THEN "clean" ELSE conflict)
    OBVIOUS
  <1>16. PICK affected : affected =
                              (IF scenario.mode # "affected_party" THEN "absent"
                               ELSE IF AffectedParty \in Drafted THEN "required"
                               ELSE "not_required")
    OBVIOUS
  <1>17. PICK said : said = [b \in Drafted |-> claims[b]]
    OBVIOUS
  <1>18. PICK filings : filings = BaseFilings \cup AmendedFilings
    OBVIOUS
  <1>19. PICK run : run = { b \in {"uk", "nydfs"} : InRun(b) }
    OBVIOUS
  <1> DEFINE PacketWith(cl, texts, recruits, level, informed, dispute, customers) ==
        [clocks |-> ClockRows, transitions |-> rows, claims |-> cl,
         blocked |-> blocked, resolved |-> resolved,
         filings |-> texts, ledger |-> Drafted, drops |-> drops, injected |-> injected,
         review |-> review, reconciled |-> reconciled,
         materiality |-> level, regimes |-> informed, suppressed |-> Suppressed,
         conflict |-> dispute, affected |-> customers,
         hold |-> hold, deficient |-> deficient, receipts |-> receipts,
         recruited |-> recruits, signoffs |-> {}]
      Full == PacketWith([b \in Drafted |-> claims[b]], BaseFilings \cup AmendedFilings,
                    { b \in {"uk", "nydfs"} : InRun(b) },
                    IF ~scenario.materiality THEN "absent"
                    ELSE IF "sec" \in Suppressed THEN "not_material" ELSE "material",
                    IF scenario.mode = "reportability" THEN {"nis2", "sec", "dora"} ELSE {},
                    IF scenario.mode # "cross_border" THEN "absent"
                    ELSE IF conflict = "none" THEN "clean" ELSE conflict,
                    IF scenario.mode # "affected_party" THEN "absent"
                    ELSE IF AffectedParty \in Drafted THEN "required" ELSE "not_required")
      Now == PacketWith(said, filings, run, materiality, regimes, clash, affected)
  <1>20. BasePacket(review) = Full
    BY <1>7, <1>8, <1>9, <1>10, <1>11, <1>12, Zenon DEF BasePacket
  <1>21. /\ blocked = (\E b \in Branches :
                       \E i \in DOMAIN rows[b] : rows[b][i].event = "diff_blocked")'
         /\ resolved = (\E b \in Branches :
                       \E i \in DOMAIN rows[b] : rows[b][i].ts = TS_RESOLVE)'
         /\ drops = (scenario.mode = "chaos" /\ "sec" \in Drafted)'
         /\ injected = (scenario.mode = "inject_claims" /\ "sec" \in Drafted)'
         /\ deficient = (scenario.mode = "deficiency")'
         /\ reconciled = Amends'
    BY <1>1, <1>2, <1>7, <1>8, <1>9, <1>10, <1>11, <1>12 DEF TS_RESOLVE
  <1>22. /\ materiality = (IF ~scenario.materiality THEN "absent"
                           ELSE IF "sec" \in Suppressed THEN "not_material"
                           ELSE "material")'
         /\ regimes = (IF scenario.mode = "reportability"
                         THEN {"nis2", "sec", "dora"} ELSE {})'
         /\ clash = (IF scenario.mode # "cross_border" THEN "absent"
                     ELSE IF conflict = "none" THEN "clean" ELSE conflict)'
         /\ affected = (IF scenario.mode # "affected_party" THEN "absent"
                        ELSE IF AffectedParty \in Drafted THEN "required"
                        ELSE "not_required")'
    BY <1>1, <1>2, <1>13, <1>14, <1>15, <1>16, Zenon DEF AffectedParty
  <1>23. /\ said = [b \in Drafted |-> claims[b]]'
         /\ filings = (BaseFilings \cup AmendedFilings)'
         /\ run = { b \in {"uk", "nydfs"} : InRun(b) }'
    BY <1>3, <1>5, <1>6, <1>17, <1>18, <1>19, Zenon
  <1>24. BasePacket(review)' = Full'
    BY <1>21, Zenon DEF BasePacket
  <1>25. Full = Now
    BY <1>13, <1>14, <1>15, <1>16, <1>17, <1>18, <1>19
  <1>26. Full' = Now'
    BY <1>22, <1>23
  <1>27. Now' = Now
    BY <1>1, <1>2, <1>4, Zenon
  <1>28. QED
    BY <1>20, <1>24, <1>25, <1>26, <1>27

LEMMA SignoffsStand ==
  ASSUME UNCHANGED vars
  PROVE  Signoffs' = Signoffs
  <1>1. UNCHANGED <<scenario, state, ran, keys>>
    BY DEF vars, branchVars, lockVars
  <1>2. ReleasedBranches' = ReleasedBranches
    BY <1>1 DEF ReleasedBranches, InRun
  <1>3. \A b, key : SignedAt(b, key)' = SignedAt(b, key)
    BY <1>1 DEF SignedAt, NoticeAt, Anchor, Amends
  <1>4. QED
    BY <1>1, <1>2, <1>3 DEF Signoffs

LEMMA PacketStands ==
  ASSUME UNCHANGED <<vars, slip, rows>>, NEW review
  PROVE  Assembled(review)' = Assembled(review)
  <1>1. BasePacket(review)' = BasePacket(review)
    BY BaseStands
  <1>2. Signoffs' = Signoffs
    BY SignoffsStand
  <1>3. ASSUME NEW F PROVE Grounding(F)' = Grounding(F)
    <2>1. ASSUME NEW f PROVE RecordFor(f)' = RecordFor(f)
      BY RecordStands
    <2>2. QED
      BY <2>1 DEF Grounding
  <1>4. QED
    BY <1>1, <1>2, <1>3 DEF Assembled

LEMMA InitPacketIInv == PacketInit => PacketIInv
  <1> SUFFICES ASSUME PacketInit PROVE PacketIInv
    OBVIOUS
  <1>1. /\ Init /\ slip \in ModelSlips /\ packet = NoPacket
        /\ rows = [b \in Branches |-> <<>>]
    BY DEF PacketInit
  <1>2. IInv
    BY <1>1, InitIInv
  <1>3. PacketTypeOK /\ PacketOK
    BY <1>1 DEF PacketTypeOK, PacketOK
  <1>4. /\ step = "open" /\ lock = "idle" /\ conflict = "none"
        /\ state = [b \in Branches |-> "initiated"]
        /\ filed = [b \in Branches |-> <<>>]
        /\ clock = [c \in Branches \cup StartupClocks |-> "none"]
    BY <1>1 DEF Init
  <1>5. BeatsOK
    <2>1. "nis2-early" \in Branches \cup StartupClocks
      BY DEF StartupClocks
    <2>2. clock["nis2-early"] # "stopped"
      BY <1>4, <2>1
    <2>3. \A b \in Branches : state[b] # "suppressed" /\ filed[b] = <<>>
      BY <1>4
    <2>4. ~Stuck("sec")
      BY <2>3, SecIsABranch DEF Stuck
    <2>5. QED
      BY <1>4, <2>2, <2>3, <2>4 DEF BeatsOK
  <1>6. RowsOK
    <2>1. \A b \in Branches : RowsOf(b) = {}
      BY <1>1 DEF RowsOf
    <2>2. \A b \in Branches : filed[b] = <<>>
      BY <1>4
    <2>3. ~Vetoed
      <3>1. "sec" \in Branches \cup StartupClocks
        BY SecIsABranch
      <3>2. clock["sec"] = "none"
        BY <1>4, <3>1
      <3>3. QED
        BY <3>2 DEF Vetoed, Live, Joined
    <2>4. QED
      BY <2>1, <2>2, <2>3 DEF RowsOK
  <1>7. QED
    BY <1>2, <1>3, <1>5, <1>6 DEF PacketIInv

LEMMA NextPacketIInv == PacketIInv /\ [PacketNext]_<<vars, packetVars>> => PacketIInv'
  <1> SUFFICES ASSUME PacketIInv, [PacketNext]_<<vars, packetVars>>
               PROVE  PacketIInv'
    OBVIOUS
  <1>1. IInv /\ PacketTypeOK /\ PacketOK /\ (~CutShort => BeatsOK /\ RowsOK)
    BY DEF PacketIInv
  <1>2. IInv'
    BY <1>1, StepOfTheFloor, NextIInv
  <1>3. CASE LoggedDrive
    <2>1. step # "sealed" /\ ~CutShort
      BY <1>3, EndedDrivesNothing
    <2>2. Drive /\ UNCHANGED <<slip, packet, disk>>
      BY <1>3, LoggedIsDrive
    <2>3. PacketTypeOK'
      BY <1>1, <1>3, <2>2, LoggedIsTyped DEF PacketTypeOK
    <2>4. PacketOK'
      <3>1. packet' = NoPacket
        BY <1>1, <2>1, <2>2 DEF PacketOK
      <3>2. NoPacket' = NoPacket
        BY DEF NoPacket
      <3>3. QED
        BY <3>1, <3>2 DEF PacketOK
    <2>5. ASSUME ~CutShort' PROVE BeatsOK' /\ RowsOK'
      BY <1>1, <1>3, <2>1, <2>2, <2>5, BeatsKeep, RowsKeep
    <2>6. QED
      BY <1>2, <2>3, <2>4, <2>5 DEF PacketIInv
  <1>4. CASE PacketInterrupt
    <2>1. Interrupt /\ UNCHANGED packetVars
      BY <1>4 DEF PacketInterrupt, Quiet
    <2>2. step # "sealed"
      BY <2>1, EndedDrivesNothing
    <2>3. PacketTypeOK'
      BY <1>1, <2>1 DEF PacketTypeOK, packetVars
    <2>4. PacketOK'
      BY <1>1, <2>1, <2>2 DEF PacketOK, packetVars, NoPacket
    <2>5. CutShort'
      BY <2>1 DEF Interrupt, CutShort
    <2>6. QED
      BY <1>2, <2>3, <2>4, <2>5 DEF PacketIInv
  <1>5. ASSUME UNCHANGED <<vars, slip, rows>>
        PROVE  PacketTypeOK' /\ CutShort' = CutShort /\ BeatsOK' = BeatsOK /\ RowsOK' = RowsOK
    <2>1. PacketTypeOK'
      BY <1>1, <1>5 DEF PacketTypeOK
    <2>2. CutShort' = CutShort
      BY <1>5 DEF CutShort, vars
    <2>3. UNCHANGED <<scenario, step, todo, state, claims, keys, lock, filed, clock, conflict, rows>>
      BY <1>5 DEF vars, branchVars, lockVars, dutyVars
    <2>4. BeatsOK' = BeatsOK
      BY <2>3 DEF BeatsOK, Vetoed, Live, Joined, Amends, Stuck, InTodo, Signing, LastKeys
    <2>5. \A b : RowsOf(b)' = RowsOf(b) /\ Stuck(b)' = Stuck(b) /\ Live(b)' = Live(b)
      BY <2>3 DEF RowsOf, Stuck, Live, Joined, Amends
    <2>6. Vetoed' = Vetoed /\ \A b, n : ReleasedOn(b, n)' = ReleasedOn(b, n)
      BY <2>3, <2>5 DEF Vetoed, ReleasedOn, NoticeAt, Anchor, Amends
    <2>7. \A b, r : Fits(b, r)' = Fits(b, r) /\ IsRelease(b, r)' = IsRelease(b, r)
      BY <2>3, <2>5, <2>6 DEF Fits, IsRelease
    <2>8. RowsOK' = RowsOK
      BY <2>3, <2>5, <2>6, <2>7 DEF RowsOK
    <2>9. QED
      BY <2>1, <2>2, <2>4, <2>8
  <1>6. CASE Assemble
    <2>1. step = "sealed" /\ UNCHANGED <<vars, slip, rows, disk>>
      BY <1>6 DEF Assemble
    <2>2. PICK review \in Reviews : packet' = Assembled(review)
      BY <1>6 DEF Assemble
    <2>3. Reviews' = Reviews /\ Assembled(review)' = Assembled(review) /\ step' = step
      BY <2>1, ReviewsStand, PacketStands DEF vars
    <2>4. PacketOK'
      BY <2>1, <2>2, <2>3 DEF PacketOK
    <2>5. QED
      BY <1>1, <1>2, <1>5, <2>1, <2>4 DEF PacketIInv
  <1>7. CASE WriteJson \/ WriteHtml \/ SaveLog \/ PacketOver \/ UNCHANGED <<vars, packetVars>>
    <2>1. UNCHANGED <<vars, slip, rows, packet>>
      BY <1>7 DEF WriteJson, WriteHtml, SaveLog, Write, PacketOver, packetVars
    <2>2. PacketOK'
      <3>1. SUFFICES ASSUME packet' # NoPacket
                     PROVE  (step = "sealed" /\ \E review \in Reviews : packet = Assembled(review))'
        BY DEF PacketOK, NoPacket
      <3>2. step = "sealed" /\ \E review \in Reviews : packet = Assembled(review)
        BY <1>1, <2>1, <3>1 DEF PacketOK
      <3>3. PICK review \in Reviews : packet = Assembled(review)
        BY <3>2
      <3>4. Reviews' = Reviews /\ Assembled(review)' = Assembled(review) /\ step' = step
        BY <2>1, ReviewsStand, PacketStands DEF vars
      <3>5. QED
        BY <2>1, <3>2, <3>3, <3>4
    <2>3. QED
      BY <1>1, <1>2, <1>5, <2>1, <2>2 DEF PacketIInv
  <1>8. QED
    BY <1>3, <1>4, <1>6, <1>7 DEF PacketNext

\* The log, the packet and the branches of every run belong together.
THEOREM PacketInvariant == PacketSpec => []PacketIInv
  BY InitPacketIInv, NextPacketIInv, PTL DEF PacketSpec
-----------------------------------------------------------------------------
(***************************************************************************)
(* A sealed run, and the packet of it.                                     *)
(***************************************************************************)
\* What a sealed run has come to.
Sealed == step = "sealed" /\ IInv /\ PacketTypeOK /\ BeatsOK /\ RowsOK

LEMMA AssembledIsSealed ==
  ASSUME PacketIInv, IsAssembled
  PROVE  Sealed /\ \E review \in Reviews : packet = Assembled(review)
  <1>1. step = "sealed" /\ \E review \in Reviews : packet = Assembled(review)
    BY DEF PacketIInv, PacketOK, IsAssembled
  <1>2. ~CutShort
    BY <1>1 DEF CutShort
  <1>3. QED
    BY <1>1, <1>2 DEF PacketIInv, Sealed

LEMMA SealedParts ==
  ASSUME Sealed
  PROVE  /\ ~CutShort /\ FloorTypeOK /\ RunOK /\ LiveOK /\ CustomersOK /\ DutyOK
         /\ SealedRunIsComplete /\ lock = "idle"
         /\ scenario \in AllScenarios /\ CliAccepts(scenario)
         /\ clock \in [Branches \cup StartupClocks -> {"none", "running", "stopped"}]
         /\ step \notin Early /\ step \in Ending /\ step \notin BeforeDiff
  <1>1. ~CutShort /\ step \notin Early /\ step \in Ending /\ step \notin BeforeDiff
    BY DEF Sealed, CutShort, Early, Joining, Ending, BeforeDiff
  <1>2. FloorTypeOK /\ Running
    BY <1>1, IInvParts DEF Sealed
  <1>3. SealedRunIsComplete
    BY IInvGivesSealed DEF Sealed
  <1>4. lock = "idle"
    BY <1>3 DEF Sealed, SealedRunIsComplete
  <1>5. scenario \in AllScenarios /\ CliAccepts(scenario)
    BY <1>2, ScenariosAssumption DEF FloorTypeOK
  <1>6. QED
    BY <1>1, <1>2, <1>3, <1>4, <1>5 DEF Running, FloorTypeOK

\* Nobody's filing was closed before the amendment.
LEMMA SealedIsNotStuck == ASSUME Sealed PROVE ~Stuck("sec")
  BY DEF Sealed, BeatsOK, Early, Joining

LEMMA SealedSuppressed ==
  ASSUME Sealed, NEW b \in Branches, state[b] = "suppressed"
  PROVE  /\ b \in {"nis2", "sec", "dora"} /\ clock[b] = "stopped" /\ ~Amends
         /\ claims[b] = NoClaims /\ filed[b] = <<>>
         /\ scenario.mode = "reportability" \/ (scenario.materiality /\ b = "sec")
  <1>1. b \in Regulators
    BY SealedParts DEF Branches, CustomersOK
  <1>2. /\ scenario.mode = "reportability" \/ (scenario.materiality /\ b = "sec")
        /\ clock[b] = "stopped" /\ b \in Drafters
    BY <1>1, SealedParts DEF RunOK
  <1>3. ~Amends
    BY <1>2, SealedIsNotStuck DEF Stuck, Amends
  <1>4. claims[b] = NoClaims
    BY <1>3 DEF Sealed, BeatsOK
  <1>5. filed[b] = <<>>
    BY <1>1, SealedParts DEF RunOK, Live
  <1>6. QED
    BY <1>2, <1>3, <1>4, <1>5 DEF Drafters

LEMMA SealedOutside ==
  ASSUME Sealed, NEW b \in Branches, clock[b] = "none"
  PROVE  /\ b \notin {"nis2", "sec", "dora"}
         /\ state[b] = "initiated" /\ claims[b] = NoClaims /\ filed[b] = <<>> /\ ~InRun(b)
  <1>1. ~Joined(b)
    BY DEF Joined
  <1>2. CASE b = AffectedParty
    BY <1>1, <1>2, SealedParts DEF CustomersOK, AffectedParty
  <1>3. CASE b \in Regulators
    <2>1. RunOK /\ step = "sealed"
      BY SealedParts DEF Sealed
    <2>2. b \notin Drafters
      BY <1>1, <1>3, <2>1 DEF RunOK
    <2>3. state[b] = "initiated" /\ claims[b] = NoClaims /\ ~InRun(b)
      BY <1>1, <1>3, <2>1 DEF RunOK
    <2>4. filed[b] = <<>>
      BY <1>1, <1>3, <2>1 DEF RunOK, Live
    <2>5. QED
      BY <2>2, <2>3, <2>4 DEF Drafters
  <1>4. QED
    BY <1>2, <1>3 DEF Branches

\* What the last filing of a branch asserts, and how often it filed.
LastFacts(b) == IF Amends /\ Amended(b) THEN AmendedFacts ELSE CanonicalFacts
HowOften(b) ==
  IF b \in Regulators
       /\ (\/ Amends /\ Amended(b)
           \/ scenario.mode = "deficiency" /\ b = "sec")
    THEN 2 ELSE 1

LEMMA SealedLive ==
  ASSUME Sealed, NEW b \in Branches, clock[b] # "none", state[b] # "suppressed"
  PROVE  /\ state[b] = "released" /\ clock[b] = "stopped" /\ InRun(b)
         /\ claims[b] # NoClaims /\ filed[b] # <<>>
         /\ Len(filed[b]) = HowOften(b)
         /\ b \in Regulators => claims[b] = LastFacts(b)
         /\ b = AffectedParty => scenario.mode = "affected_party"
  <1>1. state[b] = "released" /\ clock[b] = "stopped" /\ InRun(b)
    BY SealedParts DEF SealedRunIsComplete, Sealed
  <1>2. CASE b = AffectedParty
    <2>1. /\ filed[b] = <<claims[b]>> /\ scenario.mode = "affected_party"
          /\ claims[b] # NoClaims
      <3>1. step = "sealed" /\ lock = "idle" /\ CustomersOK
        BY SealedParts DEF Sealed
      <3>2. /\ filed[b] = <<claims[b]>> /\ scenario.mode = "affected_party"
        BY <1>2, <3>1 DEF CustomersOK, Joined
      <3>3. filed[b] \in Seq(Claims)
        BY SealedParts DEF FloorTypeOK
      <3>4. claims[b] \in Claims
        BY <3>2, <3>3, ElementOfSeq
      <3>5. QED
        BY <3>2, <3>4 DEF NoClaims, Claims
    <2>2. b \notin Regulators
      BY <1>2 DEF AffectedParty, Regulators
    <2>3. filed[b] # <<>> /\ Len(filed[b]) = 1
      BY <2>1
    <2>4. QED
      BY <1>1, <1>2, <2>1, <2>2, <2>3 DEF HowOften
  <1>3. CASE b \in Regulators
    <2>1. Live(b) /\ step = "sealed" /\ LiveOK
      BY SealedParts DEF Live, Joined, Sealed
    <2>2. claims[b] = Asserts(b) /\ Len(filed[b]) = Versions(b)
      BY <1>3, <2>1 DEF LiveOK
    <2>3. Asserts(b) = LastFacts(b)
      BY <2>1 DEF Asserts, LastFacts, Joining, Ending
    <2>4. Versions(b) = HowOften(b)
      BY <1>3, <2>1 DEF Versions, HowOften, Early, Joining, Ending
    <2>5. LastFacts(b) # NoClaims
      BY DEF LastFacts, NoClaims, AmendedFacts, CanonicalFacts
    <2>6. filed[b] # <<>>
      BY <2>2, <2>4 DEF HowOften
    <2>7. b # AffectedParty
      BY <1>3 DEF AffectedParty, Regulators
    <2>8. QED
      BY <1>1, <1>3, <2>2, <2>3, <2>4, <2>5, <2>6, <2>7
  <1>4. QED
    BY <1>2, <1>3 DEF Branches

\* The branches that filed are the ones that drafted, took part and were not closed.
LEMMA SealedBranches ==
  ASSUME Sealed
  PROVE  /\ Drafted = ReleasedBranches
         /\ Drafted = { b \in Branches : clock[b] # "none" /\ state[b] # "suppressed" }
         /\ Drafted = { b \in Branches : InRun(b) } \ Suppressed
         /\ \A b \in Drafted : InRun(b)
         /\ Suppressed \subseteq {"nis2", "sec", "dora"}
         /\ Suppressed # {} => ~Amends
         /\ \A b \in Branches : clock[b] = "stopped" <=> state[b] \in {"released", "suppressed"}
         /\ \A b \in Branches : b \in Drafted <=> Live(b)
  <1>1. ASSUME NEW b \in Branches
        PROVE  \/ /\ clock[b] = "none" /\ state[b] = "initiated" /\ claims[b] = NoClaims
                  /\ ~InRun(b)
               \/ /\ clock[b] = "stopped" /\ state[b] = "suppressed" /\ claims[b] = NoClaims
                  /\ b \in {"nis2", "sec", "dora"} /\ ~Amends
               \/ /\ clock[b] = "stopped" /\ state[b] = "released" /\ claims[b] # NoClaims
                  /\ InRun(b)
    <2>1. CASE clock[b] = "none"
      BY <2>1, SealedOutside
    <2>2. CASE state[b] = "suppressed"
      BY <2>2, SealedSuppressed
    <2>3. CASE clock[b] # "none" /\ state[b] # "suppressed"
      BY <2>3, SealedLive
    <2>4. QED
      BY <2>1, <2>2, <2>3
  <1>2. QED
    BY <1>1 DEF Drafted, ReleasedBranches, Suppressed, Live, Joined

\* What its log says.
LEMMA SealedRows ==
  ASSUME Sealed, NEW b \in Branches, NEW r \in RowsOf(b)
  PROVE  /\ r \in Row /\ r.admitted
         /\ r.event \in {"signoff_opened", "human_released"} => b \in Drafted
         /\ r.event = "diff_blocked" => Vetoed
         /\ r.event = "human_released" => \E n \in 1..Len(filed[b]) : r.ts = ReleasedOn(b, n)
  <1>1. r \in Row
    <2>1. rows[b] \in Seq(Row)
      BY DEF Sealed, PacketTypeOK
    <2>2. QED
      BY <2>1, ElementOfSeq, LenProperties DEF RowsOf
  <1>2. ~Stuck(b)
    BY SealedIsNotStuck DEF Stuck
  <1>3. Fits(b, r)
    BY DEF Sealed, RowsOK
  <1>4. b \in Drafted <=> Live(b)
    BY SealedBranches
  <1>5. QED
    BY <1>1, <1>2, <1>3, <1>4 DEF Fits

LEMMA SealedReleases ==
  ASSUME Sealed, NEW b \in Drafted
  PROVE  /\ b \in Branches /\ keys[b] = LastKeys(b)
         /\ \E r \in RowsOf(b) : IsRelease(b, r)
  <1>1. b \in Branches /\ clock[b] # "none" /\ state[b] # "suppressed"
    BY SealedBranches
  <1>2. filed[b] # <<>>
    BY <1>1, SealedLive
  <1>3. ~Signing(b)
    BY SealedParts DEF Signing
  <1>4. QED
    BY <1>1, <1>2, <1>3 DEF Sealed, BeatsOK, RowsOK

LEMMA SealedVetoes ==
  ASSUME Sealed
  PROVE  /\ Vetoed <=> (scenario.mode = "inject_contradiction" /\ "sec" \in Drafted)
         /\ Vetoed => /\ \E b \in Branches : \E r \in RowsOf(b) : r.event = "diff_blocked"
                      /\ \E b \in Branches : \E r \in RowsOf(b) : r.ts = TS_RESOLVE
         /\ (\E b \in Branches : \E r \in RowsOf(b) : r.event = "diff_blocked") => Vetoed
  <1>1. Vetoed <=> (scenario.mode = "inject_contradiction" /\ "sec" \in Drafted)
    BY SealedBranches, SecIsABranch DEF Vetoed
  <1>2. step \notin BeforeDiff /\ step \notin Early
    BY SealedParts
  <1>3. QED
    BY <1>1, <1>2, SealedRows DEF Sealed, RowsOK, Veto, Remedy

\* The parts of the packet.
LEMMA BaseParts ==
  ASSUME NEW review \in Reviews, packet = Assembled(review)
  PROVE  /\ Base.clocks = ClockRows /\ Base.transitions = rows
         /\ Base.claims = [b \in Drafted |-> claims[b]]
         /\ Base.filings = BaseFilings \cup AmendedFilings
         /\ Base.ledger = Drafted
         /\ Base.review = review /\ Base.suppressed = Suppressed
         /\ Base.hold = hold /\ Base.receipts = receipts
         /\ Base.signoffs = Signoffs
         /\ Base.regimes = IF scenario.mode = "reportability" THEN {"nis2", "sec", "dora"} ELSE {}
         /\ Base.conflict = IF scenario.mode # "cross_border" THEN "absent"
                            ELSE IF conflict = "none" THEN "clean" ELSE conflict
         /\ Base.affected = IF scenario.mode # "affected_party" THEN "absent"
                            ELSE IF AffectedParty \in Drafted THEN "required"
                            ELSE "not_required"
         /\ Base.materiality = IF ~scenario.materiality THEN "absent"
                               ELSE IF "sec" \in Suppressed THEN "not_material"
                               ELSE "material"
  <1>1. packet.base = [BasePacket(review) EXCEPT !.signoffs = Signoffs]
    BY Zenon DEF Assembled
  <1>2. QED
    BY <1>1 DEF Base, BasePacket

LEMMA BaseFlags ==
  ASSUME NEW review \in Reviews, packet = Assembled(review)
  PROVE  /\ Base.blocked <=> \E b \in Branches : \E i \in DOMAIN rows[b] :
                                rows[b][i].event = "diff_blocked"
         /\ Base.resolved <=> \E b \in Branches : \E i \in DOMAIN rows[b] :
                                rows[b][i].ts = TS_RESOLVE
         /\ Base.injected <=> (scenario.mode = "inject_claims" /\ "sec" \in Drafted)
         /\ Base.reconciled <=> Amends
         /\ Base.deficient <=> scenario.mode = "deficiency"
  <1> DEFINE Blocked == \E b \in Branches : \E i \in DOMAIN rows[b] :
                                rows[b][i].event = "diff_blocked"
             Resolved == \E b \in Branches : \E i \in DOMAIN rows[b] :
                                rows[b][i].ts = TS_RESOLVE
             Injected == scenario.mode = "inject_claims" /\ "sec" \in Drafted
             Deficient == scenario.mode = "deficiency"
  <1>1. PICK blocked : blocked = Blocked
    OBVIOUS
  <1>2. PICK resolved : resolved = Resolved
    OBVIOUS
  <1>3. PICK injected : injected = Injected
    OBVIOUS
  <1>4. PICK reconciled : reconciled = Amends
    OBVIOUS
  <1>5. PICK deficient : deficient = Deficient
    OBVIOUS
  <1>6. /\ BasePacket(review).blocked = blocked
        /\ BasePacket(review).resolved = resolved
        /\ BasePacket(review).injected = injected
        /\ BasePacket(review).reconciled = reconciled
        /\ BasePacket(review).deficient = deficient
    BY <1>1, <1>2, <1>3, <1>4, <1>5 DEF BasePacket
  <1>7. packet.base = [BasePacket(review) EXCEPT !.signoffs = Signoffs]
    BY Zenon DEF Assembled
  <1>8. DOMAIN BasePacket(review) =
          {"clocks", "transitions", "claims", "blocked", "resolved", "filings", "ledger",
           "drops", "injected", "review", "reconciled", "materiality", "regimes",
           "suppressed", "conflict", "affected", "hold", "deficient", "receipts",
           "recruited", "signoffs"}
    BY DEF BasePacket
  <1>9. /\ Base.blocked = blocked /\ Base.resolved = resolved /\ Base.injected = injected
        /\ Base.reconciled = reconciled /\ Base.deficient = deficient
    BY <1>6, <1>7, <1>8 DEF Base
  <1>10. Base.blocked <=> Blocked
    BY <1>1, <1>9, Zenon
  <1>11. Base.resolved <=> Resolved
    BY <1>2, <1>9, Zenon
  <1>12. Base.injected <=> Injected
    BY <1>3, <1>9, Zenon
  <1>13. Base.reconciled <=> Amends
    <2>1. Base.reconciled = Amends /\ Amends \in BOOLEAN
      BY <1>4, <1>9 DEF Amends
    <2>2. QED
      BY <2>1
  <1>14. Base.deficient <=> Deficient
    <2>1. Base.deficient = Deficient
      BY <1>5, <1>9
    <2>2. QED
      BY <2>1
  <1>15. QED
    BY <1>10, <1>11, <1>12, <1>13, <1>14

LEMMA SheetParts ==
  ASSUME NEW review \in Reviews, packet = Assembled(review)
  PROVE  /\ Sheets.completeness = CompletenessRecord(Base)
         /\ Sheets.consistency = ConflictingFacts(Base)
         /\ Sheets.controls = ControlRegister(BasePacket(review))
         /\ Sheets.grounding = Grounding(Base.filings)
         /\ Sheets.sod = SodMatrix(Base)
         /\ Sheets.assertion = ControlRegister(Base)
         /\ Sheets.attestation = Attestation(Base)
         /\ Sheets.edgar = EdgarExport(Base)
         /\ Sheets.after_action = AfterAction(Base)
  <1> DEFINE p == [BasePacket(review) EXCEPT !.signoffs = Signoffs]
  <1>2. Base = p
    BY Zenon DEF Base, Assembled
  <1> DEFINE s == [completeness |-> CompletenessRecord(p),
            consistency |-> ConflictingFacts(p),
            controls |-> ControlRegister(BasePacket(review)),
            grounding |-> Grounding(p.filings),
            sod |-> SodMatrix(p),
            assertion |-> ControlRegister(p),
            attestation |-> Attestation(p),
            edgar |-> EdgarExport(p),
            after_action |-> AfterAction(p)]
  <1>3. packet.sheets = [name \in DOMAIN s \cup {"privilege"} |->
                     IF name = "privilege" THEN Designate(p, s) ELSE s[name]]
    BY Zenon DEF Assembled
  <1> HIDE DEF p
  <1>4. DOMAIN s = {"completeness", "consistency", "controls", "grounding", "sod",
                    "assertion", "attestation", "edgar", "after_action"}
    OBVIOUS
  <1>5. /\ packet.sheets.completeness = s.completeness
        /\ packet.sheets.consistency = s.consistency
        /\ packet.sheets.controls = s.controls
        /\ packet.sheets.grounding = s.grounding
        /\ packet.sheets.sod = s.sod
        /\ packet.sheets.assertion = s.assertion
        /\ packet.sheets.attestation = s.attestation
        /\ packet.sheets.edgar = s.edgar
        /\ packet.sheets.after_action = s.after_action
    <2> HIDE DEF s
    <2>1. QED
      BY <1>3, <1>4
  <1>6. QED
    BY <1>2, <1>5 DEF Sheets
-----------------------------------------------------------------------------
(***************************************************************************)
(* The accounts.                                                           *)
(***************************************************************************)
Closed == { b \in Branches : state[b] \in {"released", "suppressed"} }

\* Every clock that was shown as stopped is of a closed branch, and it was in time.
LEMMA ClocksShown ==
  ASSUME Sealed
  PROVE  /\ { c \in DOMAIN ClockRows : ClockRows[c].stopped # {} } = Closed
         /\ \A c \in DOMAIN ClockRows : \A t \in ClockRows[c].stopped :
              t <= ClockRows[c].deadline /\ ~(t > ClockRows[c].deadline)
         /\ \A c \in DOMAIN ClockRows : c \in Branches => clock[c] # "none"
         /\ \A b \in Branches : clock[b] # "none" => b \in DOMAIN ClockRows
  <1>1. /\ DOMAIN clock = Branches \cup StartupClocks
        /\ clock["nis2-early"] # "stopped"
        /\ \A b \in Branches : clock[b] = "stopped" <=> state[b] \in {"released", "suppressed"}
    BY SealedParts, SealedBranches DEF Sealed, BeatsOK
  <1>2. DOMAIN ClockRows = { c \in Branches \cup StartupClocks : clock[c] # "none" }
    BY <1>1 DEF ClockRows
  <1>3. \A c \in DOMAIN ClockRows :
          /\ ClockRows[c].stopped = StoppedAt(c)
          /\ ClockRows[c].deadline = StartedAt(c) + ShortestWindow
    BY DEF ClockRows
  <1>4. \A c \in Branches \cup StartupClocks : c \in Branches \/ c = "nis2-early"
    BY DEF StartupClocks, Branches, Regulators
  <1>5. \A c \in Branches \cup StartupClocks : StoppedAt(c) # {} <=> clock[c] = "stopped"
    BY DEF StoppedAt
  <1>6. { c \in DOMAIN ClockRows : ClockRows[c].stopped # {} } = Closed
    BY <1>1, <1>2, <1>3, <1>4, <1>5 DEF Closed
  <1>7. ASSUME NEW c \in DOMAIN ClockRows, NEW t \in ClockRows[c].stopped
        PROVE  t <= ClockRows[c].deadline /\ ~(t > ClockRows[c].deadline)
    <2>1. c \in Branches \cup StartupClocks /\ t \in StoppedAt(c)
      BY <1>2, <1>3, <1>7
    <2>2. c # "nis2-early" /\ c \in Branches
      BY <1>1, <1>4, <2>1 DEF StoppedAt
    <2>3. t = TS_FACTS \/ t = TS_RELEASE \/ (c = AffectedParty /\ t = NoticeAt(50))
      BY <2>1 DEF StoppedAt
    <2>4. StartedAt(c) \in Nat /\ (c = AffectedParty => StartedAt(c) = Anchor) /\ Anchor \in Nat
      BY <2>2 DEF StartedAt, Branches, Regulators, AffectedParty, Anchor, RecruitedAt,
         TS_FACTS, TS_AMEND_RELEASE, TS_RELEASE
    <2>5. t <= StartedAt(c) + ShortestWindow /\ ~(t > StartedAt(c) + ShortestWindow)
      <3>1. CASE t = TS_FACTS \/ t = TS_RELEASE
        BY <2>4, <3>1 DEF TS_FACTS, TS_RELEASE, ShortestWindow
      <3>2. CASE c = AffectedParty /\ t = NoticeAt(50)
        BY <2>4, <3>2 DEF NoticeAt, ShortestWindow
      <3>3. QED
        BY <2>3, <3>1, <3>2
    <2>6. QED
      BY <1>3, <2>5
  <1>8. QED
    BY <1>2, <1>6, <1>7

LEMMA ClocksAgree ==
  ASSUME Sealed, NEW review \in Reviews, packet = Assembled(review)
  PROVE  /\ Attestation(Base).filed = Closed /\ Attestation(Base).met = Closed
         /\ Landed(Base) = Closed /\ Breached(Base) = {}
         /\ AfterAction(Base).met = Closed
         /\ { c \in DOMAIN Base.clocks : ClockStatus(Base, c) = "filed" } = Closed
         /\ Closed # {}
  <1>1. Base.clocks = ClockRows
    BY BaseParts
  <1>2. Landed(Base) = Closed
    BY <1>1, ClocksShown DEF Landed
  <1>3. Breached(Base) = {}
    BY <1>1, ClocksShown DEF Landed, Breached
  <1>4. Attestation(Base).filed = Closed
    BY <1>1, ClocksShown DEF Attestation, Stopped
  <1>5. Attestation(Base).met = Closed
    BY <1>1, ClocksShown DEF Attestation, Stopped, InTime
  <1>6. AfterAction(Base).met = Closed
    BY <1>2, <1>3 DEF AfterAction
  <1>7. { c \in DOMAIN Base.clocks : ClockStatus(Base, c) = "filed" } = Closed
    <2>1. Closed \subseteq DOMAIN Base.clocks
      BY <1>2 DEF Landed
    <2>2. QED
      BY <1>2, <1>3, <2>1 DEF ClockStatus
  <1>8. Closed # {}
    <2>1. clock["sec"] # "none"
      BY SealedOutside, SecIsABranch
    <2>2. state["sec"] = "suppressed" \/ state["sec"] = "released"
      BY <2>1, SealedLive, SecIsABranch
    <2>3. QED
      BY <2>2, SecIsABranch DEF Closed
  <1>9. QED
    BY <1>2, <1>3, <1>4, <1>5, <1>6, <1>7, <1>8

\* The signatures in the packet are the standing keys of the released branches.
LEMMA SignoffsAre ==
  ASSUME Sealed, NEW k
  PROVE  k \in Signoffs <=>
           \E b \in Drafted : \E role \in REQUIRED_ROLES :
             k = <<b, role, SignedAt(b, <<role, Len(filed[b]) - 1>>)>>
  <1>1. Drafted = ReleasedBranches /\ \A b \in Drafted : keys[b] = LastKeys(b)
    BY SealedBranches, SealedReleases
  <1>2. ASSUME NEW b \in Drafted
        PROVE  (\E key \in keys[b] : k = <<b, key[1], SignedAt(b, key)>>)
                 <=> \E role \in REQUIRED_ROLES :
                       k = <<b, role, SignedAt(b, <<role, Len(filed[b]) - 1>>)>>
    <2>1. PICK last : last = Len(filed[b]) - 1
      OBVIOUS
    <2>2. keys[b] = REQUIRED_ROLES \X {last}
      BY <1>1, <2>1 DEF LastKeys
    <2>3. ASSUME NEW key \in keys[b]
          PROVE  key[1] \in REQUIRED_ROLES /\ key = <<key[1], last>>
      BY <2>2
    <2>4. ASSUME NEW role \in REQUIRED_ROLES
          PROVE  <<role, last>> \in keys[b] /\ <<role, last>>[1] = role
      BY <2>2
    <2>5. QED
      BY <2>1, <2>3, <2>4, Zenon
  <1>3. k \in Signoffs <=> \E b \in Drafted : \E key \in keys[b] : k = <<b, key[1], SignedAt(b, key)>>
    <2>1. k \in Signoffs <=> \E b \in ReleasedBranches :
                              k \in { <<b, key[1], SignedAt(b, key)>> : key \in keys[b] }
      BY Zenon DEF Signoffs
    <2>2. QED
      BY <1>1, <2>1
  <1>4. QED
    BY <1>2, <1>3

\* The two keys of a branch, and when they were given.
LEMMA KeysShown ==
  ASSUME Sealed, NEW b \in Drafted
  PROVE  /\ { k[2] : k \in { x \in Signoffs : x[1] = b } } = REQUIRED_ROLES
         /\ \A k \in Signoffs : k[1] = b =>
              \E role \in REQUIRED_ROLES : k[3] = SignedAt(b, <<role, Len(filed[b]) - 1>>)
         /\ \A role \in REQUIRED_ROLES : \E k \in Signoffs :
              k[1] = b /\ k[3] = SignedAt(b, <<role, Len(filed[b]) - 1>>)
  <1>1. ASSUME NEW k \in Signoffs, k[1] = b
        PROVE  /\ k[2] \in REQUIRED_ROLES
               /\ k[3] = SignedAt(b, <<k[2], Len(filed[b]) - 1>>)
    <2>1. PICK a \in Drafted : \E role \in REQUIRED_ROLES :
            k = <<a, role, SignedAt(a, <<role, Len(filed[a]) - 1>>)>>
      BY SignoffsAre
    <2>2. PICK role \in REQUIRED_ROLES : k = <<a, role, SignedAt(a, <<role, Len(filed[a]) - 1>>)>>
      BY <2>1
    <2>3. a = b /\ k[2] = role /\ k[3] = SignedAt(a, <<role, Len(filed[a]) - 1>>)
      BY <1>1, <2>2
    <2>4. QED
      BY <2>3
  <1>2. ASSUME NEW role \in REQUIRED_ROLES
        PROVE  \E k \in Signoffs : /\ k[1] = b /\ k[2] = role
                                   /\ k[3] = SignedAt(b, <<role, Len(filed[b]) - 1>>)
    <2>1. PICK at : at = SignedAt(b, <<role, Len(filed[b]) - 1>>)
      OBVIOUS
    <2>2. <<b, role, at>> \in Signoffs
      BY <2>1, SignoffsAre
    <2>3. <<b, role, at>>[1] = b /\ <<b, role, at>>[2] = role /\ <<b, role, at>>[3] = at
      OBVIOUS
    <2>4. QED
      BY <2>1, <2>2, <2>3
  <1>3. QED
    BY <1>1, <1>2

\* The keys of the last release were given between the release before and it.
LEMMA SignedInTime ==
  ASSUME Sealed, NEW b \in Drafted
  PROVE  /\ Len(filed[b]) \in {1, 2} /\ (b = AffectedParty => Len(filed[b]) = 1)
         /\ SignedAt(b, <<"head_of_ir", Len(filed[b]) - 1>>) = ReleasedOn(b, Len(filed[b]))
         /\ \A role \in REQUIRED_ROLES : \A n \in 1..Len(filed[b]) :
              \/ n = Len(filed[b])
              \/ ReleasedOn(b, n) < SignedAt(b, <<role, Len(filed[b]) - 1>>)
         /\ \A n \in 1..Len(filed[b]) : ReleasedOn(b, n) <= ReleasedOn(b, Len(filed[b]))
  <1>1. b \in Branches /\ clock[b] # "none" /\ state[b] # "suppressed"
    BY SealedBranches
  <1>2. PICK n : n = Len(filed[b])
    OBVIOUS
  <1>3. n = HowOften(b)
    BY <1>1, <1>2, SealedLive
  <1>4. n \in {1, 2} /\ (b = AffectedParty => n = 1)
    BY <1>3 DEF HowOften, AffectedParty, Regulators
  <1>5. CASE b = AffectedParty
    <2>1. n = 1
      BY <1>4, <1>5
    <2>2. Anchor \in Nat
      BY DEF Anchor, TS_AMEND_RELEASE, TS_RELEASE
    <2>3. ReleasedOn(b, 1) = NoticeAt(50) /\ NoticeAt(50) \in Nat
      BY <1>5, <2>2 DEF ReleasedOn, NoticeAt
    <2>4. SignedAt(b, <<"head_of_ir", 0>>) = NoticeAt(50)
      BY <1>5 DEF SignedAt
    <2>5. \A i \in 1..1 : i = 1
      OBVIOUS
    <2>6. NoticeAt(50) <= NoticeAt(50)
      BY <2>3
    <2>7. QED
      BY <1>2, <1>4, <2>1, <2>3, <2>4, <2>5, <2>6
  <1>6. CASE b # AffectedParty /\ n = 1
    <2>1. ReleasedOn(b, 1) = TS_RELEASE
      BY <1>6 DEF ReleasedOn
    <2>2. SignedAt(b, <<"head_of_ir", 0>>) = TS_RELEASE
      BY <1>6 DEF SignedAt
    <2>3. \A i \in 1..1 : i = 1
      OBVIOUS
    <2>4. TS_RELEASE <= TS_RELEASE
      BY DEF TS_RELEASE
    <2>5. QED
      BY <1>2, <1>4, <1>6, <2>1, <2>2, <2>3, <2>4
  <1>7. CASE b # AffectedParty /\ n = 2
    <2>1. ReleasedOn(b, 1) = TS_RELEASE /\ ReleasedOn(b, 2) = TS_AMEND_RELEASE
      BY <1>7 DEF ReleasedOn
    <2>2. /\ SignedAt(b, <<"head_of_ir", 1>>) = TS_AMEND_RELEASE
          /\ SignedAt(b, <<"general_counsel", 1>>) = TS_AMEND_SIGN_GC
      BY <1>7 DEF SignedAt
    <2>3. \A i \in 1..2 : i = 1 \/ i = 2
      OBVIOUS
    <2>4. /\ TS_RELEASE < TS_AMEND_RELEASE /\ TS_RELEASE < TS_AMEND_SIGN_GC
          /\ TS_RELEASE <= TS_AMEND_RELEASE /\ TS_AMEND_RELEASE <= TS_AMEND_RELEASE
      BY DEF TS_RELEASE, TS_AMEND_RELEASE, TS_AMEND_SIGN_GC
    <2>5. n - 1 = 1
      BY <1>7
    <2>6. \A role \in REQUIRED_ROLES : role = "head_of_ir" \/ role = "general_counsel"
      BY DEF REQUIRED_ROLES
    <2>7. \A role \in REQUIRED_ROLES : TS_RELEASE < SignedAt(b, <<role, 1>>)
      BY <2>2, <2>4, <2>6
    <2>8. QED
      BY <1>2, <1>4, <1>7, <2>1, <2>2, <2>3, <2>4, <2>5, <2>7
  <1>8. QED
    BY <1>4, <1>5, <1>6, <1>7

LEMMA StandingKeysNamed ==
  ASSUME Sealed, NEW review \in Reviews, packet = Assembled(review)
  PROVE  PacketNamesStandingKeys
  <1>1. ReleasedBranches = Drafted /\ Base.signoffs = Signoffs
    BY SealedBranches, BaseParts
  <1> SUFFICES ASSUME NEW b \in Drafted
               PROVE  LET given == { k \in Signoffs : k[1] = b }
                          releases == { rows[b][i].ts : i \in { j \in DOMAIN rows[b] :
                             rows[b][j].event = "human_released" /\ rows[b][j].admitted } }
                      IN  /\ { k[2] : k \in given } = REQUIRED_ROLES
                          /\ \A k \in given : \A t \in releases :
                               t < k[3] \/ \A u \in releases : u <= t
                          /\ \E k \in given : k[3] \in releases
    BY <1>1 DEF PacketNamesStandingKeys
  <1> DEFINE given == { k \in Signoffs : k[1] = b }
             releases == { rows[b][i].ts : i \in { j \in DOMAIN rows[b] :
                             rows[b][j].event = "human_released" /\ rows[b][j].admitted } }
  <1>2. b \in Branches
    BY SealedReleases
  <1>3. { k[2] : k \in given } = REQUIRED_ROLES
    BY KeysShown
  <1>4. PICK last : last = Len(filed[b])
    OBVIOUS
  <1>5. ASSUME NEW t \in releases
        PROVE  \E n \in 1..last : t = ReleasedOn(b, n)
    <2>1. PICK i \in DOMAIN rows[b] : /\ rows[b][i].event = "human_released" /\ rows[b][i].admitted
                                      /\ t = rows[b][i].ts
      BY <1>5
    <2>2. rows[b][i] \in RowsOf(b)
      BY DEF RowsOf
    <2>3. QED
      BY <1>2, <1>4, <2>1, <2>2, SealedRows
  <1>6. ReleasedOn(b, last) \in releases
    <2>1. PICK r \in RowsOf(b) : IsRelease(b, r)
      BY SealedReleases
    <2>2. PICK i \in DOMAIN rows[b] : r = rows[b][i]
      BY DEF RowsOf
    <2>3. QED
      BY <1>4, <2>1, <2>2 DEF IsRelease
  <1>7. /\ last \in {1, 2}
        /\ SignedAt(b, <<"head_of_ir", last - 1>>) = ReleasedOn(b, last)
        /\ \A role \in REQUIRED_ROLES : \A n \in 1..last :
             n = last \/ ReleasedOn(b, n) < SignedAt(b, <<role, last - 1>>)
        /\ \A n \in 1..last : ReleasedOn(b, n) <= ReleasedOn(b, last)
    BY <1>4, SignedInTime
  <1>8. /\ \A k \in given : \E role \in REQUIRED_ROLES : k[3] = SignedAt(b, <<role, last - 1>>)
        /\ \A role \in REQUIRED_ROLES : \E k \in given : k[3] = SignedAt(b, <<role, last - 1>>)
    BY <1>4, KeysShown
  <1> HIDE DEF given, releases
  <1>9. ASSUME NEW k \in given, NEW t \in releases
        PROVE  t < k[3] \/ \A u \in releases : u <= t
    <2>1. PICK n \in 1..last : t = ReleasedOn(b, n)
      BY <1>5
    <2>2. CASE n = last
      BY <1>5, <1>7, <2>1, <2>2
    <2>3. CASE n # last
      BY <1>7, <1>8, <2>1, <2>3
    <2>4. QED
      BY <2>2, <2>3
  <1>10. \E k \in given : k[3] \in releases
    BY <1>6, <1>7, <1>8 DEF REQUIRED_ROLES
  <1>11. QED
    BY <1>3, <1>9, <1>10 DEF given, releases

\* The rows of the packet are the rows of the log.
LEMMA RowsShown ==
  ASSUME Sealed, NEW p, p.transitions = rows
  PROVE  /\ \A r : r \in Rows(p) <=> \E b \in Branches : r \in RowsOf(b)
         /\ \A r : r \in Admitted(p) <=> \E b \in Branches : r \in RowsOf(b)
         /\ \A e : e \in AdmittedEvents(p) <=>
              \E b \in Branches : \E r \in RowsOf(b) : r.event = e
  <1>1. DOMAIN rows = Branches
    BY DEF Sealed, PacketTypeOK
  <1>2. ASSUME NEW r PROVE r \in Rows(p) <=> \E b \in Branches : r \in RowsOf(b)
    BY <1>1 DEF Rows, RowsOf
  <1>3. ASSUME NEW r PROVE r \in Admitted(p) <=> \E b \in Branches : r \in RowsOf(b)
    BY <1>2, SealedRows DEF Admitted
  <1>4. ASSUME NEW e
        PROVE  e \in AdmittedEvents(p) <=> \E b \in Branches : \E r \in RowsOf(b) : r.event = e
    BY <1>3 DEF AdmittedEvents
  <1>5. QED
    BY <1>2, <1>3, <1>4

\* Duties are separate: the drafters draft, the Warden gates, the officers sign.
LEMMA DutiesAreSeparate ==
  ASSUME Sealed, NEW review \in Reviews, packet = Assembled(review)
  PROVE  AllHold(SodMatrix(Base))
  <1>1. Base.signoffs = Signoffs /\ Base.transitions = rows
    BY BaseParts
  <1>2. \A r \in Admitted(Base) : r \in Row
    BY <1>1, RowsShown, SealedRows
  <1>3. ASSUME NEW k \in Signoffs
        PROVE  k[1] \in Drafted /\ k[2] \in REQUIRED_ROLES
    <2>1. PICK b \in Drafted : \E role \in REQUIRED_ROLES :
            k = <<b, role, SignedAt(b, <<role, Len(filed[b]) - 1>>)>>
      BY SignoffsAre
    <2>2. QED
      BY <2>1
  <1>4. \A k \in Signoffs : KeysOfBranch(Base, k[1]) = DOMAIN KeyHolder
    <2>1. DOMAIN KeyHolder = REQUIRED_ROLES
      BY DEF KeyHolder, REQUIRED_ROLES
    <2>2. QED
      BY <1>1, <1>3, <2>1, KeysShown DEF KeysOfBranch
  <1>5. \A e \in Event : "drafter" \in EVENT_AUTHORITY[e] => EVENT_AUTHORITY[e] = {"drafter"}
    BY DEF EVENT_AUTHORITY, Event
  <1>6. ASSUME NEW r \in Admitted(Base), "drafter" \in EVENT_AUTHORITY[r.event]
        PROVE  r.role = "drafter" /\ r.actor \in { DrafterOf[b] : b \in Branches }
    <2>1. r.event \in Event /\ r.role \in EVENT_AUTHORITY[r.event] /\ r.actor \in Voice[r.role]
      BY <1>2 DEF Row
    <2>2. r.role = "drafter"
      BY <1>5, <1>6, <2>1
    <2>3. QED
      BY <2>1, <2>2 DEF Voice
  <1>7. Authors(Base) \subseteq { DrafterOf[b] : b \in Branches }
    BY <1>6 DEF Authors
  <1>8. Gatekeepers(Base) \subseteq {"warden"}
    <2>1. ASSUME NEW r \in Admitted(Base), r.role = "warden" PROVE r.actor = "warden"
      <3>1. r.actor \in Voice[r.role]
        BY <1>2 DEF Row
      <3>2. QED
        BY <2>1, <3>1 DEF Voice
    <2>2. QED
      BY <2>1 DEF Gatekeepers
  <1>9. Releasers(Base) \subseteq {"gc", "lena"}
    BY <1>1, <1>3 DEF Releasers, KeyHolder, REQUIRED_ROLES
  <1>10. { DrafterOf[b] : b \in Branches } \cap {"gc", "lena", "warden"} = {}
    BY DEF DrafterOf, Branches, Regulators, AffectedParty
  <1>11. { r.role : r \in { x \in Admitted(Base) : "drafter" \in EVENT_AUTHORITY[x.event] } }
           \subseteq {"drafter"}
    BY <1>6
  <1>12. { k[2] : k \in Base.signoffs } \subseteq REQUIRED_ROLES
    BY <1>1, <1>3
  <1>13. "drafter" \notin REQUIRED_ROLES
    BY DEF REQUIRED_ROLES
  <1>14. /\ \A k \in Base.signoffs : KeysOfBranch(Base, k[1]) = DOMAIN KeyHolder
         /\ Authors(Base) \cap Releasers(Base) = {}
         /\ Gatekeepers(Base) \cap Authors(Base) = {}
         /\ { r.role : r \in { x \in Admitted(Base) : "drafter" \in EVENT_AUTHORITY[x.event] } }
              \cap { k[2] : k \in Base.signoffs } = {}
    BY <1>1, <1>4, <1>7, <1>8, <1>9, <1>10, <1>11, <1>12, <1>13
  <1> DEFINE Distinct == \A k \in Base.signoffs : KeysOfBranch(Base, k[1]) = DOMAIN KeyHolder
             Apart == Authors(Base) \cap Releasers(Base) = {}
             Nothing == Gatekeepers(Base) \cap Authors(Base) = {}
             Roled == { r.role : r \in { x \in Admitted(Base) :
                                         "drafter" \in EVENT_AUTHORITY[x.event] } }
                        \cap { k[2] : k \in Base.signoffs } = {}
  <1>15. PICK distinct : distinct = Distinct
    OBVIOUS
  <1>16. PICK apart : apart = Apart
    OBVIOUS
  <1>17. PICK nothing : nothing = Nothing
    OBVIOUS
  <1>18. PICK roled : roled = Roled
    OBVIOUS
  <1>19. SodMatrix(Base) = [distinct_keys |-> distinct, no_draft_and_release |-> apart,
                            warden_authors_nothing |-> nothing, roles_apart |-> roled]
    BY <1>15, <1>16, <1>17, <1>18, Zenon DEF SodMatrix
  <1>20. distinct /\ apart /\ nothing /\ roled
    <2>1. Distinct /\ Apart /\ Nothing /\ Roled
      BY <1>14
    <2> HIDE DEF Distinct, Apart, Nothing, Roled
    <2>2. QED
      BY <1>15, <1>16, <1>17, <1>18, <2>1
  <1>21. QED
    BY <1>19, <1>20 DEF AllHold

\* When a control is shown to have operated.
LEMMA OperatedAre ==
  ASSUME Sealed, NEW p, p.transitions = rows,
         p.signoffs # {} => Drafted # {},
         p.blocked => Vetoed
  PROVE  /\ "SOD-01" \in Operated(ControlRegister(p)) <=> Drafted # {}
         /\ "VAL-01" \in Operated(ControlRegister(p)) <=> Vetoed
         /\ \A id \in ControlCatalog \ {"SOD-01", "VAL-01"} :
              id \in Operated(ControlRegister(p)) <=> SectionPresent(id, p)
         /\ Operated(ControlRegister(p)) \subseteq ControlCatalog
  <1>1. \A id \in ControlCatalog :
          id \in Operated(ControlRegister(p)) <=> Found(id, p) # {}
    BY DEF Operated, ControlRegister
  <1>2. \A e : e \in AdmittedEvents(p) <=>
          \E b \in Branches : \E r \in RowsOf(b) : r.event = e
    BY RowsShown
  <1>3. "SOD-01" \in ControlCatalog /\ "VAL-01" \in ControlCatalog
    BY DEF ControlCatalog
  <1>4. Found("SOD-01", p) # {} <=> Drafted # {}
    <2>1. Found("SOD-01", p) # {} <=>
            \/ "human_released" \in AdmittedEvents(p) \/ "signoff_opened" \in AdmittedEvents(p)
            \/ p.signoffs # {}
      BY DEF Found, ProvingEvents, SectionPresent
    <2>2. "human_released" \in AdmittedEvents(p) \/ "signoff_opened" \in AdmittedEvents(p)
            => Drafted # {}
      BY <1>2, SealedRows
    <2>3. Drafted # {} => "human_released" \in AdmittedEvents(p)
      BY <1>2, SealedReleases DEF IsRelease
    <2>4. QED
      BY <2>1, <2>2, <2>3
  <1>5. Found("VAL-01", p) # {} <=> Vetoed
    <2>1. Found("VAL-01", p) # {} <=> "diff_blocked" \in AdmittedEvents(p) \/ p.blocked
      BY DEF Found, ProvingEvents, SectionPresent
    <2>2. "diff_blocked" \in AdmittedEvents(p) <=> Vetoed
      BY <1>2, SealedVetoes
    <2>3. QED
      BY <2>1, <2>2
  <1>6. ASSUME NEW id \in ControlCatalog \ {"SOD-01", "VAL-01"}
        PROVE  Found(id, p) # {} <=> SectionPresent(id, p)
    BY DEF Found, ProvingEvents
  <1>7. Operated(ControlRegister(p)) \subseteq ControlCatalog
    BY DEF Operated
  <1>8. QED
    BY <1>1, <1>3, <1>4, <1>5, <1>6, <1>7

LEMMA ControlsAgree ==
  ASSUME Sealed, NEW review \in Reviews, packet = Assembled(review)
  PROVE  /\ Operated(Sheets.controls) = Operated(Sheets.assertion)
         /\ "SOD-01" \in Operated(Sheets.controls) <=> ReleasedBranches # {}
         /\ "VAL-01" \in Operated(Sheets.controls) <=> Vetoed
  <1>1. PICK early : early = BasePacket(review)
    OBVIOUS
  <1>2. Sheets.controls = ControlRegister(early) /\ Sheets.assertion = ControlRegister(Base)
    BY <1>1, SheetParts
  <1>3. /\ early.transitions = rows /\ early.signoffs = {}
        /\ early.ledger = Drafted
        /\ early.regimes = IF scenario.mode = "reportability" THEN {"nis2", "sec", "dora"} ELSE {}
    BY <1>1 DEF BasePacket
  <1>4. early.blocked = Base.blocked
    <2>1. Base = [BasePacket(review) EXCEPT !.signoffs = Signoffs]
      BY Zenon DEF Assembled, Base
    <2>2. "blocked" \in DOMAIN BasePacket(review)
      BY DEF BasePacket
    <2>3. QED
      BY <1>1, <2>1, <2>2
  <1>5. /\ Base.transitions = rows /\ Base.signoffs = Signoffs /\ Base.ledger = Drafted
        /\ Base.regimes = IF scenario.mode = "reportability" THEN {"nis2", "sec", "dora"} ELSE {}
    BY BaseParts
  <1>6. Base.blocked => Vetoed
    BY BaseFlags, SealedVetoes DEF RowsOf
  <1>7. Signoffs # {} => Drafted # {}
    BY SignoffsAre
  <1>8. \A id \in ControlCatalog \ {"SOD-01", "VAL-01"} :
          SectionPresent(id, early) <=> SectionPresent(id, Base)
    BY <1>3, <1>5 DEF SectionPresent, ControlCatalog
  <1>9. /\ "SOD-01" \in Operated(ControlRegister(early)) <=> Drafted # {}
        /\ "VAL-01" \in Operated(ControlRegister(early)) <=> Vetoed
        /\ \A id \in ControlCatalog \ {"SOD-01", "VAL-01"} :
             id \in Operated(ControlRegister(early)) <=> SectionPresent(id, early)
        /\ Operated(ControlRegister(early)) \subseteq ControlCatalog
    BY <1>3, <1>4, <1>6, OperatedAre
  <1>10. /\ "SOD-01" \in Operated(ControlRegister(Base)) <=> Drafted # {}
         /\ "VAL-01" \in Operated(ControlRegister(Base)) <=> Vetoed
         /\ \A id \in ControlCatalog \ {"SOD-01", "VAL-01"} :
              id \in Operated(ControlRegister(Base)) <=> SectionPresent(id, Base)
         /\ Operated(ControlRegister(Base)) \subseteq ControlCatalog
    BY <1>5, <1>6, <1>7, OperatedAre
  <1>11. Operated(ControlRegister(early)) = Operated(ControlRegister(Base))
    BY <1>8, <1>9, <1>10
  <1>12. QED
    BY <1>2, <1>9, <1>11, SealedBranches

LEMMA PacketAgrees == PacketIInv => AccountsAgree
  <1> SUFFICES ASSUME PacketIInv, IsAssembled
               PROVE  AccountsAgree
    BY DEF AccountsAgree
  <1>1. PICK review \in Reviews : packet = Assembled(review)
    BY AssembledIsSealed
  <1>2. Sealed
    BY AssembledIsSealed
  <1>3. /\ Sheets.attestation.met = Closed /\ Sheets.after_action.met = Closed
        /\ { c \in DOMAIN Base.clocks : ClockStatus(Base, c) = "filed" } = Closed
    BY <1>1, <1>2, SheetParts, ClocksAgree
  <1>4. /\ Operated(Sheets.controls) = Operated(Sheets.assertion)
        /\ "SOD-01" \in Operated(Sheets.controls) <=> ReleasedBranches # {}
        /\ "VAL-01" \in Operated(Sheets.controls) <=> Vetoed
    BY <1>1, <1>2, ControlsAgree
  <1>5. Vetoed <=> (scenario.mode = "inject_contradiction" /\ "sec" \in Drafted)
    BY <1>2, SealedVetoes
  <1>6. AllHold(Sheets.sod) /\ PacketNamesStandingKeys
    BY <1>1, <1>2, SheetParts, DutiesAreSeparate, StandingKeysNamed
  <1>7. QED
    BY <1>3, <1>4, <1>5, <1>6 DEF AccountsAgree, Closed

\* The sheets tell one story of every run, that of its branches.
THEOREM SheetsAgree == PacketSpec => []AccountsAgree
  BY PacketInvariant, PacketAgrees, PTL
-----------------------------------------------------------------------------
(***************************************************************************)
(* The texts.                                                              *)
(***************************************************************************)
\* Every span is counted as grounded exactly when every span is.
LEMMA AllGrounded ==
  ASSUME NEW S, NEW s \in Seq(S), NEW known
  PROVE  /\ Grounded(s, known) \in Nat /\ Grounded(s, known) <= Len(s) /\ Len(s) \in Nat
         /\ Grounded(s, known) = Len(s) <=> \A i \in 1..Len(s) : s[i] \in known
  <1>1. Len(s) \in Nat /\ DOMAIN s = 1..Len(s)
    BY LenProperties
  <1>2. IsFiniteSet(1..Len(s)) /\ Cardinality(1..Len(s)) = Len(s)
    <2>1. PICK n \in Nat : n = Len(s)
      BY <1>1
    <2>2. n \in Int /\ 1 \in Int
      OBVIOUS
    <2>3. /\ IsFiniteSet(1..n)
          /\ Cardinality(1..n) = IF 1 > n THEN 0 ELSE n - 1 + 1
      BY <2>2, FS_Interval, Zenon
    <2>4. (IF 1 > n THEN 0 ELSE n - 1 + 1) = n
      OBVIOUS
    <2>5. QED
      BY <2>1, <2>3, <2>4, Zenon
  <1> DEFINE hits == { i \in DOMAIN s : s[i] \in known }
  <1>3. hits \subseteq 1..Len(s) /\ Grounded(s, known) = Cardinality(hits)
    BY <1>1 DEF Grounded
  <1>4. /\ IsFiniteSet(hits) /\ Cardinality(hits) \in Nat
        /\ Cardinality(hits) <= Cardinality(1..Len(s))
        /\ Cardinality(hits) = Cardinality(1..Len(s)) => hits = 1..Len(s)
    BY <1>2, <1>3, FS_Subset, FS_CardinalityType
  <1>5. hits = 1..Len(s) <=> \A i \in 1..Len(s) : s[i] \in known
    BY <1>1
  <1>6. QED
    BY <1>1, <1>2, <1>3, <1>4, <1>5

\* A text passes when each of its spans is known.
LEMMA PassesIff ==
  ASSUME NEW text, NEW record,
         text.dates \in Seq(Date), text.actors \in Seq(Actor), text.figures \in Seq(Figure)
  PROVE  Passes(ScoreFiling(text, record)) <=>
           /\ \A i \in 1..Len(text.dates) : text.dates[i] # "echoed"
           /\ \A i \in 1..Len(text.actors) : text.actors[i] = "named"
           /\ \A i \in 1..Len(text.figures) : text.figures[i] = record.records
  <1>1. PICK a : a = Grounded(text.dates, { d \in Date : DateMatches(d) })
    OBVIOUS
  <1>2. PICK b : b = Grounded(text.actors, {"named"})
    OBVIOUS
  <1>3. PICK c : c = Grounded(text.figures, {record.records})
    OBVIOUS
  <1>4. /\ a \in Nat /\ a <= Len(text.dates) /\ Len(text.dates) \in Nat
        /\ a = Len(text.dates) <=> \A i \in 1..Len(text.dates) :
                                     text.dates[i] \in { d \in Date : DateMatches(d) }
    BY <1>1, AllGrounded
  <1>5. /\ b \in Nat /\ b <= Len(text.actors) /\ Len(text.actors) \in Nat
        /\ b = Len(text.actors) <=> \A i \in 1..Len(text.actors) : text.actors[i] \in {"named"}
    BY <1>2, AllGrounded
  <1>6. /\ c \in Nat /\ c <= Len(text.figures) /\ Len(text.figures) \in Nat
        /\ c = Len(text.figures) <=> \A i \in 1..Len(text.figures) :
                                       text.figures[i] \in {record.records}
    BY <1>3, AllGrounded
  <1>7. ScoreFiling(text, record) =
          [grounded |-> a + b + c,
           total |-> Len(text.dates) + Len(text.actors) + Len(text.figures)]
    BY <1>1, <1>2, <1>3, Zenon DEF ScoreFiling
  <1>8. Passes(ScoreFiling(text, record)) <=>
          a + b + c = Len(text.dates) + Len(text.actors) + Len(text.figures)
    BY <1>7 DEF Passes
  <1>9. a + b + c = Len(text.dates) + Len(text.actors) + Len(text.figures)
          <=> a = Len(text.dates) /\ b = Len(text.actors) /\ c = Len(text.figures)
    <2>2. PICK u : u = Len(text.dates)
      OBVIOUS
    <2>3. PICK v : v = Len(text.actors)
      OBVIOUS
    <2>4. PICK w : w = Len(text.figures)
      OBVIOUS
    <2>5. a \in Nat /\ b \in Nat /\ c \in Nat /\ u \in Nat /\ v \in Nat /\ w \in Nat
          /\ a <= u /\ b <= v /\ c <= w
      BY <1>4, <1>5, <1>6, <2>2, <2>3, <2>4
    <2>6. a + b + c = u + v + w <=> a = u /\ b = v /\ c = w
      BY <2>5
    <2>7. QED
      BY <2>2, <2>3, <2>4, <2>6
  <1>10. \A i \in 1..Len(text.dates) :
           text.dates[i] \in { d \in Date : DateMatches(d) } <=> text.dates[i] # "echoed"
    BY ElementOfSeq DEF DateMatches
  <1>11. QED
    BY <1>4, <1>5, <1>6, <1>8, <1>9, <1>10

LEMMA TwoSpans ==
  ASSUME NEW x, NEW y
  PROVE  <<x>> \o <<y>> = <<x, y>> /\ Append(<<x>>, y) = <<x, y>>
  <1> DEFINE S == {x, y}
  <1>1. <<x>> \in Seq(S) /\ <<y>> \in Seq(S) /\ <<x, y>> \in Seq(S) /\ y \in S
    OBVIOUS
  <1>2. Len(<<x>>) = 1 /\ Len(<<y>>) = 1 /\ Len(<<x, y>>) = 2 /\ <<x>>[1] = x /\ <<y>>[1] = y
        /\ <<x, y>>[1] = x /\ <<x, y>>[2] = y
    OBVIOUS
  <1> HIDE DEF S
  <1>3. Append(<<x>>, y) = <<x, y>>
    <2>1. /\ Append(<<x>>, y) \in Seq(S) /\ Len(Append(<<x>>, y)) = Len(<<x>>) + 1
          /\ \A i \in 1..Len(<<x>>) : Append(<<x>>, y)[i] = <<x>>[i]
          /\ Append(<<x>>, y)[Len(<<x>>) + 1] = y
      BY <1>1, AppendProperties
    <2>2. Len(Append(<<x>>, y)) = 2 /\ Append(<<x>>, y)[1] = x /\ Append(<<x>>, y)[2] = y
      BY <1>2, <2>1
    <2>3. \A i \in 1..2 : i = 1 \/ i = 2
      OBVIOUS
    <2>4. \A i \in 1..Len(Append(<<x>>, y)) : Append(<<x>>, y)[i] = <<x, y>>[i]
      BY <1>2, <2>2, <2>3
    <2>5. QED
      BY <1>1, <1>2, <2>1, <2>2, <2>4, SeqEqual
  <1>4. <<x>> \o <<y>> = Append(<<x>>, y)
    OBVIOUS
  <1>5. QED
    BY <1>3, <1>4

\* The first text of a branch.
SlipOf(b) == IF slip[1] = b THEN slip[2] ELSE "none"
Echoes(b) == scenario.mode = "inject_claims" /\ b = "sec"

LEMMA FirstTexts ==
  ASSUME NEW b, slip \in ModelSlips
  PROVE  /\ FirstText(b).dates = IF Echoes(b) THEN <<"echoed", DraftedFrom(b).start>>
                                 ELSE <<DraftedFrom(b).start>>
         /\ FirstText(b).actors = IF SlipOf(b) = "actor" THEN <<"named", "other">>
                                  ELSE <<"named">>
         /\ FirstText(b).figures = IF SlipOf(b) = "figure" THEN <<DraftedFrom(b).records, "stray">>
                                   ELSE <<DraftedFrom(b).records>>
         /\ FirstText(b).filled = IF SlipOf(b) = "field" THEN FALSE ELSE TRUE
         /\ FirstText(b).blocks = <<DraftedFrom(b)>>
  <1>1. PICK facts : facts = DraftedFrom(b)
    OBVIOUS
  <1>2. PICK kind : kind = SlipOf(b)
    OBVIOUS
  <1>3. PICK drafted : drafted = Slip(Prose(facts), kind)
    OBVIOUS
  <1>4. /\ drafted.dates = <<facts.start>>
        /\ drafted.actors = IF kind = "actor" THEN <<"named", "other">> ELSE <<"named">>
        /\ drafted.figures = IF kind = "figure" THEN <<facts.records, "stray">>
                             ELSE <<facts.records>>
        /\ drafted.filled = IF kind = "field" THEN FALSE ELSE TRUE
        /\ drafted.blocks = <<>>
        /\ DOMAIN drafted = {"dates", "actors", "figures", "filled", "blocks"}
    <2>1. PICK clean : clean = Prose(facts)
      OBVIOUS
    <2>2. /\ clean.dates = <<facts.start>> /\ clean.actors = <<"named">>
          /\ clean.figures = <<facts.records>> /\ clean.filled = TRUE /\ clean.blocks = <<>>
          /\ DOMAIN clean = {"dates", "actors", "figures", "filled", "blocks"}
          /\ clean = [d \in DOMAIN clean |-> clean[d]]
      BY <2>1 DEF Prose
    <2>3. Append(<<facts.records>>, "stray") = <<facts.records, "stray">>
      BY TwoSpans
    <2>4. Append(<<"named">>, "other") = <<"named", "other">>
      BY TwoSpans
    <2>5. CASE kind = "figure"
      <3>1. drafted = [clean EXCEPT !.figures = <<facts.records, "stray">>]
        BY <1>3, <2>1, <2>2, <2>3, <2>5 DEF Slip
      <3>2. QED
        BY <2>2, <2>5, <3>1
    <2>6. CASE kind = "actor"
      <3>1. drafted = [clean EXCEPT !.actors = <<"named", "other">>]
        BY <1>3, <2>1, <2>2, <2>4, <2>6 DEF Slip
      <3>2. QED
        BY <2>2, <2>6, <3>1
    <2>7. CASE kind = "field"
      <3>1. drafted = [clean EXCEPT !.filled = FALSE]
        BY <1>3, <2>1, <2>7 DEF Slip
      <3>2. QED
        BY <2>2, <2>7, <3>1
    <2>8. CASE kind \notin {"figure", "actor", "field"}
      <3>1. drafted = clean
        BY <1>3, <2>1, <2>8 DEF Slip
      <3>2. QED
        BY <2>2, <2>8, <3>1
    <2>9. QED
      BY <2>5, <2>6, <2>7, <2>8
  <1>5. PICK written : written = IF Echoes(b) THEN Hijacked(drafted, ForgedFacts) ELSE drafted
    OBVIOUS
  <1>6. /\ written.dates = IF Echoes(b) THEN <<"echoed", facts.start>> ELSE <<facts.start>>
        /\ written.actors = drafted.actors /\ written.figures = drafted.figures
        /\ written.filled = drafted.filled
        /\ DOMAIN written = {"dates", "actors", "figures", "filled", "blocks"}
    <2>1. <<"echoed">> \o <<facts.start>> = <<"echoed", facts.start>>
      BY TwoSpans
    <2>2. CASE Echoes(b)
      <3>1. written = [drafted EXCEPT !.dates = <<"echoed", facts.start>>,
                                      !.blocks = <<ForgedFacts>> \o <<>>]
        BY <1>4, <1>5, <2>1, <2>2 DEF Hijacked
      <3>2. QED
        BY <1>4, <2>2, <3>1
    <2>3. CASE ~Echoes(b)
      BY <1>4, <1>5, <2>3
    <2>4. QED
      BY <2>2, <2>3
  <1>7. FirstText(b) = BuildDraftBody(written, facts)
    BY <1>1, <1>2, <1>3, <1>5, Zenon DEF FirstText, SlipOf, Echoes
  <1>8. /\ BuildDraftBody(written, facts).dates = written.dates
        /\ BuildDraftBody(written, facts).actors = written.actors
        /\ BuildDraftBody(written, facts).figures = written.figures
        /\ BuildDraftBody(written, facts).filled = written.filled
        /\ BuildDraftBody(written, facts).blocks = <<facts>>
    BY <1>6 DEF BuildDraftBody, DefangControlFences
  <1>9. QED
    BY <1>1, <1>2, <1>4, <1>6, <1>7, <1>8

LEMMA DraftedFacts ==
  ASSUME NEW b
  PROVE  /\ DraftedFrom(b).start \in {"true", "transposed"}
         /\ DraftedFrom(b).records \in {"old", "new"}
         /\ b # AffectedParty => DraftedFrom(b).records = "old" /\ DraftedFrom(b) = ClaimFactsFor(b)
         /\ ClaimFactsFor(b).start \in {"true", "transposed"} /\ ClaimFactsFor(b).records = "old"
  <1>1. /\ ClaimFactsFor(b).start \in {"true", "transposed"} /\ ClaimFactsFor(b).records = "old"
    BY DEF ClaimFactsFor, CanonicalFacts
  <1>2. CASE b = AffectedParty /\ Amends
    BY <1>1, <1>2 DEF DraftedFrom, CanonicalFacts, AmendedFacts
  <1>3. CASE ~(b = AffectedParty /\ Amends)
    BY <1>1, <1>3 DEF DraftedFrom
  <1>4. QED
    BY <1>1, <1>2, <1>3

\* What the screens say of a first text.
LEMMA FirstScreened ==
  ASSUME NEW b, slip \in ModelSlips, NEW record, record.records = DraftedFrom(b).records
  PROVE  /\ Passes(ScoreFiling(FirstText(b), record)) <=>
              SlipOf(b) \notin {"figure", "actor"} /\ ~Echoes(b)
         /\ SheetComplete(FirstText(b)) <=> SlipOf(b) # "field"
         /\ WellFormed(FirstText(b)) /\ ParseClaims(FirstText(b)) = DraftedFrom(b)
         /\ \E i \in DOMAIN FirstText(b).dates : FirstText(b).dates[i] = DraftedFrom(b).start
  <1>1. PICK text : text = FirstText(b)
    OBVIOUS
  <1>2. PICK start : start = DraftedFrom(b).start
    OBVIOUS
  <1>3. PICK count : count = DraftedFrom(b).records
    OBVIOUS
  <1>4. start \in {"true", "transposed"} /\ count \in {"old", "new"}
    BY <1>2, <1>3, DraftedFacts
  <1>5. /\ text.dates = IF Echoes(b) THEN <<"echoed", start>> ELSE <<start>>
        /\ text.actors = IF SlipOf(b) = "actor" THEN <<"named", "other">> ELSE <<"named">>
        /\ text.figures = IF SlipOf(b) = "figure" THEN <<count, "stray">> ELSE <<count>>
        /\ text.filled = IF SlipOf(b) = "field" THEN FALSE ELSE TRUE
        /\ text.blocks = <<DraftedFrom(b)>>
    BY <1>1, <1>2, <1>3, FirstTexts
  <1>6. \A i : (i \in 1..1 <=> i = 1) /\ (i \in 1..2 <=> i = 1 \/ i = 2)
    OBVIOUS
  <1>7. /\ text.dates \in Seq(Date)
        /\ (\A i \in 1..Len(text.dates) : text.dates[i] # "echoed") <=> ~Echoes(b)
        /\ \E i \in DOMAIN text.dates : text.dates[i] = start
    <2>1. CASE Echoes(b)
      <3>1. PICK dates : dates = <<"echoed", start>>
        OBVIOUS
      <3>2. dates \in Seq(Date) /\ Len(dates) = 2 /\ dates[1] = "echoed" /\ dates[2] = start
            /\ 2 \in DOMAIN dates
        BY <1>4, <3>1 DEF Date
      <3>3. 1 \in 1..2
        OBVIOUS
      <3>4. QED
        BY <1>5, <2>1, <3>1, <3>2, <3>3
    <2>2. CASE ~Echoes(b)
      <3>1. PICK dates : dates = <<start>>
        OBVIOUS
      <3>2. dates \in Seq(Date) /\ Len(dates) = 1 /\ dates[1] = start /\ 1 \in DOMAIN dates
        BY <1>4, <3>1 DEF Date
      <3>3. QED
        BY <1>4, <1>5, <1>6, <2>2, <3>1, <3>2
    <2>3. QED
      BY <2>1, <2>2
  <1>8. /\ text.actors \in Seq(Actor)
        /\ (\A i \in 1..Len(text.actors) : text.actors[i] = "named") <=> SlipOf(b) # "actor"
    <2>1. CASE SlipOf(b) = "actor"
      <3>1. PICK actors : actors = <<"named", "other">>
        OBVIOUS
      <3>2. actors \in Seq(Actor) /\ Len(actors) = 2 /\ actors[2] = "other"
        BY <3>1 DEF Actor
      <3>3. 2 \in 1..2
        OBVIOUS
      <3>4. QED
        BY <1>5, <2>1, <3>1, <3>2, <3>3
    <2>2. CASE SlipOf(b) # "actor"
      <3>1. PICK actors : actors = <<"named">>
        OBVIOUS
      <3>2. actors \in Seq(Actor) /\ Len(actors) = 1 /\ actors[1] = "named"
        BY <3>1 DEF Actor
      <3>3. QED
        BY <1>5, <1>6, <2>2, <3>1, <3>2
    <2>3. QED
      BY <2>1, <2>2
  <1>9. /\ text.figures \in Seq(Figure)
        /\ (\A i \in 1..Len(text.figures) : text.figures[i] = count) <=> SlipOf(b) # "figure"
    <2>1. CASE SlipOf(b) = "figure"
      <3>1. PICK figures : figures = <<count, "stray">>
        OBVIOUS
      <3>2. figures \in Seq(Figure) /\ Len(figures) = 2 /\ figures[2] = "stray"
        BY <1>4, <3>1 DEF Figure
      <3>3. 2 \in 1..2 /\ "stray" # count
        BY <1>4
      <3>4. QED
        BY <1>5, <2>1, <3>1, <3>2, <3>3
    <2>2. CASE SlipOf(b) # "figure"
      <3>1. PICK figures : figures = <<count>>
        OBVIOUS
      <3>2. figures \in Seq(Figure) /\ Len(figures) = 1 /\ figures[1] = count
        BY <1>4, <3>1 DEF Figure
      <3>3. QED
        BY <1>5, <1>6, <2>2, <3>1, <3>2
    <2>3. QED
      BY <2>1, <2>2
  <1>10. Passes(ScoreFiling(text, record)) <=>
              SlipOf(b) \notin {"figure", "actor"} /\ ~Echoes(b)
    BY <1>3, <1>7, <1>8, <1>9, PassesIff
  <1>11. Len(text.blocks) = 1 /\ text.blocks[1] = DraftedFrom(b)
    BY <1>5
  <1>12. SheetComplete(text) <=> SlipOf(b) # "field"
    BY <1>5, <1>11 DEF SheetComplete
  <1>13. WellFormed(text) /\ ParseClaims(text) = DraftedFrom(b)
    BY <1>11 DEF WellFormed, ParseClaims
  <1>14. QED
    BY <1>1, <1>2, <1>7, <1>10, <1>12, <1>13

\* What they say of the text that was sent back and cured, and of an amended one.
CuredText == BuildDraftBody(Prose(CanonicalFacts), CanonicalFacts)
AmendedText == BuildDraftBody(AmendedProse(AmendedFacts), AmendedFacts)

LEMMA LaterScreened ==
  /\ Passes(ScoreFiling(CuredText, CanonicalFacts)) /\ SheetComplete(CuredText)
  /\ WellFormed(CuredText) /\ ParseClaims(CuredText) = CanonicalFacts
  /\ \E i \in DOMAIN CuredText.dates : CuredText.dates[i] = CanonicalFacts.start
  /\ Passes(ScoreFiling(AmendedText, AmendedFacts)) /\ ~SheetComplete(AmendedText)
  <1>1. PICK cured : cured = CuredText
    OBVIOUS
  <1>2. /\ cured.dates = <<"true">> /\ cured.actors = <<"named">> /\ cured.figures = <<"old">>
        /\ cured.filled = TRUE /\ cured.blocks = <<CanonicalFacts>>
    BY <1>1 DEF CuredText, BuildDraftBody, DefangControlFences, Prose, CanonicalFacts
  <1>3. PICK amended : amended = AmendedText
    OBVIOUS
  <1>4. /\ amended.dates = <<>> /\ amended.actors = <<>> /\ amended.figures = <<"new">>
        /\ amended.filled = FALSE
    BY <1>3 DEF AmendedText, BuildDraftBody, DefangControlFences, AmendedProse, AmendedFacts
  <1>5. \A i \in 1..1 : i = 1
    OBVIOUS
  <1>6. \A i : i \notin 1..0
    OBVIOUS
  <1>7. /\ cured.dates \in Seq(Date) /\ Len(cured.dates) = 1 /\ cured.dates[1] = "true"
        /\ cured.actors \in Seq(Actor) /\ Len(cured.actors) = 1 /\ cured.actors[1] = "named"
        /\ cured.figures \in Seq(Figure) /\ Len(cured.figures) = 1 /\ cured.figures[1] = "old"
        /\ 1 \in DOMAIN cured.dates
    BY <1>2 DEF Date, Actor, Figure
  <1>8. Passes(ScoreFiling(cured, CanonicalFacts))
    <2>1. CanonicalFacts.records = "old"
      BY DEF CanonicalFacts
    <2>2. QED
      BY <1>5, <1>7, <2>1, PassesIff
  <1>9. /\ amended.dates \in Seq(Date) /\ Len(amended.dates) = 0
        /\ amended.actors \in Seq(Actor) /\ Len(amended.actors) = 0
        /\ amended.figures \in Seq(Figure) /\ Len(amended.figures) = 1
        /\ amended.figures[1] = "new"
    BY <1>4 DEF Figure
  <1>10. Passes(ScoreFiling(amended, AmendedFacts))
    <2>1. AmendedFacts.records = "new"
      BY DEF AmendedFacts
    <2>2. QED
      BY <1>5, <1>6, <1>9, <2>1, PassesIff
  <1>11. SheetComplete(cured) /\ WellFormed(cured) /\ ParseClaims(cured) = CanonicalFacts
    <2>1. Len(cured.blocks) = 1 /\ cured.blocks[1] = CanonicalFacts
      BY <1>2
    <2>2. QED
      BY <1>2, <2>1 DEF SheetComplete, WellFormed, ParseClaims
  <1>12. ~SheetComplete(amended)
    BY <1>4 DEF SheetComplete
  <1>13. CanonicalFacts.start = "true"
    BY DEF CanonicalFacts
  <1>14. QED
    BY <1>1, <1>3, <1>7, <1>8, <1>10, <1>11, <1>12, <1>13

\* The filings of the packet.
CuredOne(b) == scenario.mode = "deficiency" /\ b = "sec"

LEMMA FilingsAre ==
  ASSUME Sealed, NEW f
  PROVE  f \in BaseFilings \cup AmendedFilings <=>
           \/ \E b \in Drafted : ~CuredOne(b) /\ f = Filed(b, "first", FirstText(b))
           \/ \E b \in Drafted : CuredOne(b) /\ f = Filed("sec", "cured", CuredText)
           \/ Amends /\ \E b \in Branches : Amended(b) /\ f = Filed(b, "amended", AmendedText)
  <1>1. \A b \in Drafted : InRun(b)
    BY SealedBranches
  <1>2. f \in BaseFilings <=>
          \E b \in Drafted : f = IF CuredOne(b) THEN Filed("sec", "cured", CuredText)
                                               ELSE Filed(b, "first", FirstText(b))
    BY <1>1 DEF BaseFilings, CuredOne, CuredText
  <1>3. f \in AmendedFilings <=>
          Amends /\ \E b \in Branches : Amended(b) /\ f = Filed(b, "amended", AmendedText)
    BY DEF AmendedFilings, AmendedText
  <1>4. QED
    BY <1>2, <1>3

LEMMA FiledParts ==
  ASSUME NEW b, NEW round, NEW text
  PROVE  /\ Filed(b, round, text).branch = b /\ Filed(b, round, text).round = round
         /\ Filed(b, round, text).text = text
  BY DEF Filed

LEMMA Screened ==
  ASSUME Sealed, NEW f \in BaseFilings \cup AmendedFilings
  PROVE  LET slipped == IF f.round = "first" /\ slip[1] = f.branch THEN slip[2] ELSE "none"
         IN  /\ Passes(ScoreFiling(f.text, RecordFor(f)))
                  <=> slipped \notin {"figure", "actor"} /\ ~Echoes(f.branch)
             /\ SheetComplete(f.text) <=> slipped # "field" /\ f.round # "amended"
  <1>1. slip \in ModelSlips
    BY DEF Sealed, PacketTypeOK
  <1>2. ASSUME NEW b \in Drafted, ~CuredOne(b), f = Filed(b, "first", FirstText(b))
        PROVE  LET slipped == IF f.round = "first" /\ slip[1] = f.branch THEN slip[2] ELSE "none"
               IN  /\ Passes(ScoreFiling(f.text, RecordFor(f)))
                        <=> slipped \notin {"figure", "actor"} /\ ~Echoes(f.branch)
                   /\ SheetComplete(f.text) <=> slipped # "field" /\ f.round # "amended"
    <2>1. f.branch = b /\ f.round = "first" /\ f.text = FirstText(b)
      BY <1>2, FiledParts
    <2>2. PICK record : record = RecordFor(f)
      OBVIOUS
    <2>3. record.records = DraftedFrom(b).records
      <3>1. CASE b = AffectedParty
        BY <2>1, <2>2, <3>1 DEF RecordFor
      <3>2. CASE b # AffectedParty
        <4>1. record = CanonicalFacts
          BY <2>1, <2>2, <3>2 DEF RecordFor
        <4>2. QED
          BY <3>2, <4>1, DraftedFacts DEF CanonicalFacts
      <3>3. QED
        BY <3>1, <3>2
    <2>4. /\ Passes(ScoreFiling(FirstText(b), record)) <=>
              SlipOf(b) \notin {"figure", "actor"} /\ ~Echoes(b)
          /\ SheetComplete(FirstText(b)) <=> SlipOf(b) # "field"
      BY <1>1, <2>3, FirstScreened
    <2>5. SlipOf(b) = IF f.round = "first" /\ slip[1] = f.branch THEN slip[2] ELSE "none"
      BY <2>1 DEF SlipOf
    <2>6. QED
      BY <2>1, <2>2, <2>4, <2>5
  <1>3. ASSUME NEW b \in Drafted, CuredOne(b), f = Filed("sec", "cured", CuredText)
        PROVE  /\ Passes(ScoreFiling(f.text, RecordFor(f))) /\ SheetComplete(f.text)
               /\ f.round = "cured" /\ ~Echoes(f.branch)
    <2>1. f.branch = "sec" /\ f.round = "cured" /\ f.text = CuredText
      BY <1>3, FiledParts
    <2>2. RecordFor(f) = CanonicalFacts
      BY <2>1 DEF RecordFor, AffectedParty
    <2>3. ~Echoes(f.branch)
      BY <1>3 DEF CuredOne, Echoes
    <2>4. QED
      BY <2>1, <2>2, <2>3, LaterScreened
  <1>4. ASSUME Amends, NEW b \in Branches, Amended(b), f = Filed(b, "amended", AmendedText)
        PROVE  /\ Passes(ScoreFiling(f.text, RecordFor(f))) /\ ~SheetComplete(f.text)
               /\ f.round = "amended" /\ ~Echoes(f.branch)
    <2>1. f.branch = b /\ f.round = "amended" /\ f.text = AmendedText
      BY <1>4, FiledParts
    <2>2. RecordFor(f) = AmendedFacts
      BY <2>1 DEF RecordFor
    <2>3. ~Echoes(f.branch)
      BY <1>4 DEF Amends, Echoes
    <2>4. QED
      BY <2>1, <2>2, <2>3, LaterScreened
  <1>5. CASE \E b \in Drafted : ~CuredOne(b) /\ f = Filed(b, "first", FirstText(b))
    BY <1>2, <1>5
  <1>6. CASE \E b \in Drafted : CuredOne(b) /\ f = Filed("sec", "cured", CuredText)
    BY <1>3, <1>6
  <1>7. CASE Amends /\ \E b \in Branches : Amended(b) /\ f = Filed(b, "amended", AmendedText)
    BY <1>4, <1>7
  <1>8. QED
    BY <1>5, <1>6, <1>7, FilingsAre

LEMMA PacketScreens == PacketIInv => ScreensFlagOnlySlips
  <1> SUFFICES ASSUME PacketIInv, IsAssembled, NEW f \in Base.filings
               PROVE  LET slipped == IF f.round = "first" /\ slip[1] = f.branch
                                       THEN slip[2] ELSE "none"
                          echoes == scenario.mode = "inject_claims" /\ f.branch = "sec"
                      IN  /\ Passes(Sheets.grounding[f]) <=>
                               slipped \notin {"figure", "actor"} /\ ~echoes
                          /\ Sheets.completeness[f] <=> slipped # "field" /\ f.round # "amended"
    BY DEF ScreensFlagOnlySlips
  <1>1. PICK review \in Reviews : packet = Assembled(review)
    BY AssembledIsSealed
  <1>2. Sealed
    BY AssembledIsSealed
  <1>3. f \in BaseFilings \cup AmendedFilings
    BY <1>1, BaseParts
  <1>4. Sheets.grounding[f] = ScoreFiling(f.text, RecordFor(f))
    BY <1>1, SheetParts DEF Grounding
  <1>5. Sheets.completeness[f] = SheetComplete(f.text)
    BY <1>1, SheetParts DEF CompletenessRecord
  <1>6. QED
    BY <1>2, <1>3, <1>4, <1>5, Screened DEF Echoes

\* The screens flag what slipped, in every run.
THEOREM ScreensAreExact == PacketSpec => []ScreensFlagOnlySlips
  BY PacketInvariant, PacketScreens, PTL
-----------------------------------------------------------------------------
(***************************************************************************)
(* The export.                                                             *)
(***************************************************************************)
LEMMA PacketExports == PacketIInv => ExportIsOfTheFilings
  <1> SUFFICES ASSUME PacketIInv, IsAssembled, Sheets.edgar # NoExport
               PROVE  LET body == Sheets.edgar.body[1]
                          sent == filed["sec"]
                      IN  /\ Sheets.edgar.facts[1] = sent[Len(sent)]
                          /\ WellFormed(body)
                          /\ \E i \in DOMAIN body.dates :
                               body.dates[i] = ParseClaims(body).start
                          /\ ParseClaims(body) = sent[1] <=> ~Base.blocked
    BY DEF ExportIsOfTheFilings
  <1>1. PICK review \in Reviews : packet = Assembled(review)
    BY AssembledIsSealed
  <1>2. Sealed
    BY AssembledIsSealed
  <1>3. /\ Base.claims = [b \in Drafted |-> claims[b]]
        /\ Base.filings = BaseFilings \cup AmendedFilings
        /\ Sheets.edgar = EdgarExport(Base)
    BY <1>1, BaseParts, SheetParts
  <1> DEFINE sec == { f \in Base.filings : f.branch = "sec" }
             first == CHOOSE f \in sec :
                        f.round = "amended" => \A g \in sec : g.round = "amended"
  <1>4. /\ "sec" \in Drafted
        /\ Sheets.edgar = [facts |-> <<Base.claims["sec"]>>,
                           body |-> IF sec = {} THEN <<>> ELSE <<first.text>>]
    <2>1. /\ "sec" \in DOMAIN Base.claims
          /\ EdgarExport(Base) = [facts |-> <<Base.claims["sec"]>>,
                           body |-> IF sec = {} THEN <<>> ELSE <<first.text>>]
      BY <1>3, Zenon DEF EdgarExport
    <2>2. QED
      BY <1>3, <2>1
  <1>5. Base.blocked <=> scenario.mode = "inject_contradiction"
    <2>1. Base.blocked <=> Vetoed
      BY <1>1, <1>2, BaseFlags, SealedVetoes DEF RowsOf
    <2>2. QED
      BY <1>2, <1>4, <2>1, SealedVetoes
  \* What was released first is the canonical record, what was released last
  \* is what the branch asserts.
  <1>6. filed["sec"][1] = CanonicalFacts /\ claims["sec"] = filed["sec"][Len(filed["sec"])]
    <2>1. "sec" \in Branches /\ "sec" \in Regulators
      BY SecIsABranch
    <2>2. clock["sec"] # "none" /\ state["sec"] # "suppressed"
      BY <1>2, <1>4, SealedBranches
    <2>3. state["sec"] = "released" /\ filed["sec"] # <<>>
      BY <1>2, <2>1, <2>2, SealedLive
    <2>4. RoundsOK /\ FiledIsWhatWasDrafted /\ FloorTypeOK
      BY <1>2, SealedParts DEF Sealed, IInv
    <2>5. 1 \in DOMAIN filed["sec"]
      <3>1. PICK sent : sent = filed["sec"]
        OBVIOUS
      <3>2. sent \in Seq(Claims)
        BY <2>1, <2>4, <3>1 DEF FloorTypeOK
      <3>3. Len(sent) \in Nat /\ DOMAIN sent = 1..Len(sent) /\ Len(sent) # 0
        BY <2>3, <3>1, <3>2, EmptySeq, LenProperties
      <3>4. QED
        BY <3>1, <3>3
    <2>6. filed["sec"][1] = RoundFacts(1)
      BY <2>1, <2>4, <2>5 DEF RoundsOK
    <2>7. QED
      BY <2>1, <2>3, <2>4, <2>6 DEF RoundFacts, FiledIsWhatWasDrafted
  \* The first draft asserts it too, but for the start that was transposed.
  <1>7. DraftedFrom("sec") = CanonicalFacts <=> ~Base.blocked
    <2>1. DraftedFrom("sec") = ClaimFactsFor("sec")
      BY DraftedFacts DEF AffectedParty
    <2>2. CASE scenario.mode = "inject_contradiction"
      <3>1. ClaimFactsFor("sec").start # CanonicalFacts.start
        BY <2>2, FactsDiffer
      <3>2. QED
        BY <1>5, <2>1, <2>2, <3>1
    <2>3. CASE scenario.mode # "inject_contradiction"
      BY <1>5, <2>1, <2>3 DEF ClaimFactsFor
    <2>4. QED
      BY <2>2, <2>3
  <1>8. ASSUME NEW f \in sec, f.round # "amended"
        PROVE  \/ f.text = FirstText("sec")
               \/ f.text = CuredText /\ scenario.mode = "deficiency"
    <2>1. f \in BaseFilings \cup AmendedFilings /\ f.branch = "sec"
      BY <1>3
    <2>2. \/ \E b \in Drafted : f = Filed(b, "first", FirstText(b))
          \/ f = Filed("sec", "cured", CuredText) /\ scenario.mode = "deficiency"
      <3>1. \A b \in Branches : f # Filed(b, "amended", AmendedText)
        BY <1>8, FiledParts
      <3>2. QED
        BY <1>2, <2>1, <3>1, FilingsAre DEF CuredOne
    <2>3. CASE f = Filed("sec", "cured", CuredText) /\ scenario.mode = "deficiency"
      BY <2>3, FiledParts
    <2>4. CASE \E b \in Drafted : f = Filed(b, "first", FirstText(b))
      <3>1. PICK b \in Drafted : f = Filed(b, "first", FirstText(b))
        BY <2>4
      <3>2. b = "sec" /\ f.text = FirstText(b)
        BY <2>1, <3>1, FiledParts
      <3>3. QED
        BY <3>2
    <2>5. QED
      BY <2>2, <2>3, <2>4
  <1>9. sec # {} /\ first \in sec /\ first.round # "amended"
    <2>1. \E f \in sec : f.round # "amended"
      <3>1. CASE CuredOne("sec")
        <4>1. PICK f : f = Filed("sec", "cured", CuredText)
          OBVIOUS
        <4>2. f \in BaseFilings \cup AmendedFilings
          BY <1>2, <1>4, <3>1, <4>1, FilingsAre
        <4>3. f.branch = "sec" /\ f.round = "cured"
          BY <4>1, FiledParts
        <4>4. QED
          BY <1>3, <4>2, <4>3
      <3>2. CASE ~CuredOne("sec")
        <4>1. PICK f : f = Filed("sec", "first", FirstText("sec"))
          OBVIOUS
        <4>2. f \in BaseFilings \cup AmendedFilings
          BY <1>2, <1>4, <3>2, <4>1, FilingsAre
        <4>3. f.branch = "sec" /\ f.round = "first"
          BY <4>1, FiledParts
        <4>4. QED
          BY <1>3, <4>2, <4>3
      <3>3. QED
        BY <3>1, <3>2
    <2> HIDE DEF sec
    <2>2. QED
      BY <2>1
  <1>10. Sheets.edgar.facts[1] = claims["sec"] /\ Sheets.edgar.body[1] = first.text
    <2> HIDE DEF sec, first
    <2>1. Base.claims["sec"] = claims["sec"]
      BY <1>3, <1>4
    <2>2. QED
      BY <1>4, <1>9, <2>1
  <1>11. PICK body : body = Sheets.edgar.body[1]
    OBVIOUS
  <1>12. body = FirstText("sec") \/ (body = CuredText /\ scenario.mode = "deficiency")
    <2> HIDE DEF sec, first
    <2>1. QED
      BY <1>8, <1>9, <1>10, <1>11
  <1>13. CASE body = FirstText("sec")
    <2>1. slip \in ModelSlips
      BY <1>2 DEF Sealed, PacketTypeOK
    <2>2. PICK record : record = DraftedFrom("sec")
      OBVIOUS
    <2>3. /\ WellFormed(FirstText("sec")) /\ ParseClaims(FirstText("sec")) = DraftedFrom("sec")
          /\ \E i \in DOMAIN FirstText("sec").dates :
               FirstText("sec").dates[i] = DraftedFrom("sec").start
      BY <2>1, <2>2, FirstScreened
    <2>4. QED
      BY <1>6, <1>7, <1>10, <1>11, <1>13, <2>3
  <1>14. CASE body = CuredText /\ scenario.mode = "deficiency"
    BY <1>5, <1>6, <1>10, <1>11, <1>14, LaterScreened
  <1>15. QED
    BY <1>12, <1>13, <1>14

\* In every run the export has the facts filed last over the text filed first, and
\* after a contradiction over one that never was.
THEOREM ExportIsWhole == PacketSpec => []ExportIsOfTheFilings
  BY PacketInvariant, PacketExports, PTL
-----------------------------------------------------------------------------
(***************************************************************************)
(* The page.                                                               *)
(***************************************************************************)
\* A filing is incomplete when it slipped there, or when it amends another.
LEMMA CompletenessReds ==
  ASSUME Sealed, NEW review \in Reviews, packet = Assembled(review)
  PROVE  RenderCompleteness(Base, Sheets) = "bad" <=>
           \/ Amends
           \/ slip[1] \in Drafted /\ ~CuredOne(slip[1]) /\ slip[2] = "field"
  <1> DEFINE F == BaseFilings \cup AmendedFilings
  <1>1. Base.filings = F /\ Sheets.completeness = [f \in F |-> SheetComplete(f.text)]
    BY BaseParts, SheetParts DEF CompletenessRecord
  <1>2. RenderCompleteness(Base, Sheets) = "bad" <=> \E f \in F : ~SheetComplete(f.text)
    <2> HIDE DEF F
    <2>1. AllComplete(Sheets.completeness) <=> \A f \in F : SheetComplete(f.text)
      BY <1>1 DEF AllComplete
    <2>2. RenderCompleteness(Base, Sheets) = "bad"
            <=> F # {} /\ ~AllComplete(Sheets.completeness)
      BY <1>1 DEF RenderCompleteness, Shown
    <2>3. QED
      BY <2>1, <2>2
  <1>3. ASSUME NEW f \in F, ~SheetComplete(f.text)
        PROVE  \/ Amends
               \/ slip[1] \in Drafted /\ ~CuredOne(slip[1]) /\ slip[2] = "field"
    <2>1. \/ f.round = "first" /\ slip[1] = f.branch /\ slip[2] = "field"
          \/ f.round = "amended"
      BY <1>3, Screened
    <2>2. \/ \E b \in Drafted : ~CuredOne(b) /\ f = Filed(b, "first", FirstText(b))
          \/ \E b \in Drafted : CuredOne(b) /\ f = Filed("sec", "cured", CuredText)
          \/ Amends /\ \E b \in Branches : Amended(b) /\ f = Filed(b, "amended", AmendedText)
      BY FilingsAre
    <2>3. CASE \E b \in Drafted : ~CuredOne(b) /\ f = Filed(b, "first", FirstText(b))
      <3>1. PICK b \in Drafted : ~CuredOne(b) /\ f = Filed(b, "first", FirstText(b))
        BY <2>3
      <3>2. f.branch = b /\ f.round = "first"
        BY <3>1, FiledParts
      <3>3. QED
        BY <2>1, <3>1, <3>2
    <2>4. CASE \E b \in Drafted : CuredOne(b) /\ f = Filed("sec", "cured", CuredText)
      <3>1. f.round = "cured"
        BY <2>4, FiledParts
      <3>2. QED
        BY <2>1, <3>1
    <2>5. QED
      BY <2>2, <2>3, <2>4
  <1>4. ASSUME Amends PROVE \E f \in F : ~SheetComplete(f.text)
    <2>1. PICK f : f = Filed("sec", "amended", AmendedText)
      OBVIOUS
    <2>2. Amended("sec")
      BY WorkLists
    <2>3. f \in F /\ f.text = AmendedText
      BY <1>4, <2>1, <2>2, FilingsAre, FiledParts, SecIsABranch
    <2>4. QED
      BY <2>3, LaterScreened
  <1>5. ASSUME slip[1] \in Drafted, ~CuredOne(slip[1]), slip[2] = "field"
        PROVE  \E f \in F : ~SheetComplete(f.text)
    <2>1. PICK b \in Drafted : b = slip[1]
      BY <1>5
    <2>2. PICK f : f = Filed(b, "first", FirstText(b))
      OBVIOUS
    <2>3. f \in F /\ f.branch = b /\ f.round = "first"
      BY <1>5, <2>1, <2>2, FilingsAre, FiledParts
    <2>4. ~SheetComplete(f.text)
      BY <1>5, <2>1, <2>3, Screened
    <2>5. QED
      BY <2>3, <2>4
  <1>6. QED
    BY <1>2, <1>3, <1>4, <1>5

\* A filing is ungrounded when it slipped there, or repeats what was planted.
LEMMA GroundingReds ==
  ASSUME Sealed, NEW review \in Reviews, packet = Assembled(review)
  PROVE  RenderGrounding(Base, Sheets) = "bad" <=>
           \/ Echoes("sec") /\ "sec" \in Drafted
           \/ slip[1] \in Drafted /\ ~CuredOne(slip[1]) /\ slip[2] \in {"figure", "actor"}
  <1> DEFINE F == BaseFilings \cup AmendedFilings
  <1>1. Base.filings = F /\ Sheets.grounding = [f \in F |-> ScoreFiling(f.text, RecordFor(f))]
    BY BaseParts, SheetParts DEF Grounding
  <1>2. RenderGrounding(Base, Sheets) = "bad"
          <=> \E f \in F : ~Passes(ScoreFiling(f.text, RecordFor(f)))
    <2> HIDE DEF F
    <2>1. (\A f \in DOMAIN Sheets.grounding : Passes(Sheets.grounding[f]))
            <=> \A f \in F : Passes(ScoreFiling(f.text, RecordFor(f)))
      BY <1>1
    <2>2. RenderGrounding(Base, Sheets) = "bad"
            <=> F # {} /\ ~\A f \in DOMAIN Sheets.grounding : Passes(Sheets.grounding[f])
      BY <1>1 DEF RenderGrounding, Shown
    <2>3. QED
      BY <2>1, <2>2
  <1>3. ASSUME NEW f \in F, ~Passes(ScoreFiling(f.text, RecordFor(f)))
        PROVE  \/ Echoes("sec") /\ "sec" \in Drafted
               \/ slip[1] \in Drafted /\ ~CuredOne(slip[1]) /\ slip[2] \in {"figure", "actor"}
    <2>1. \/ f.round = "first" /\ slip[1] = f.branch /\ slip[2] \in {"figure", "actor"}
          \/ Echoes(f.branch)
      BY <1>3, Screened
    <2>2. \/ \E b \in Drafted : ~CuredOne(b) /\ f = Filed(b, "first", FirstText(b))
          \/ \E b \in Drafted : CuredOne(b) /\ f = Filed("sec", "cured", CuredText)
          \/ Amends /\ \E b \in Branches : Amended(b) /\ f = Filed(b, "amended", AmendedText)
      BY FilingsAre
    <2>3. CASE \E b \in Drafted : ~CuredOne(b) /\ f = Filed(b, "first", FirstText(b))
      <3>1. PICK b \in Drafted : ~CuredOne(b) /\ f = Filed(b, "first", FirstText(b))
        BY <2>3
      <3>2. f.branch = b /\ f.round = "first"
        BY <3>1, FiledParts
      <3>3. Echoes(b) => b = "sec"
        BY DEF Echoes
      <3>4. QED
        BY <2>1, <3>1, <3>2, <3>3
    <2>4. CASE \E b \in Drafted : CuredOne(b) /\ f = Filed("sec", "cured", CuredText)
      <3>1. f.round = "cured"
        BY <2>4, FiledParts
      <3>2. ~Echoes(f.branch)
        BY <2>4 DEF CuredOne, Echoes
      <3>3. QED
        BY <2>1, <3>1, <3>2
    <2>5. CASE Amends /\ \E b \in Branches : Amended(b) /\ f = Filed(b, "amended", AmendedText)
      <3>1. f.round = "amended"
        BY <2>5, FiledParts
      <3>2. ~Echoes(f.branch)
        BY <2>5 DEF Amends, Echoes
      <3>3. QED
        BY <2>1, <3>1, <3>2
    <2>6. QED
      BY <2>2, <2>3, <2>4, <2>5
  <1>4. ASSUME NEW b \in Drafted, ~CuredOne(b),
               Echoes(b) \/ (b = slip[1] /\ slip[2] \in {"figure", "actor"})
        PROVE  \E f \in F : ~Passes(ScoreFiling(f.text, RecordFor(f)))
    <2>1. PICK f : f = Filed(b, "first", FirstText(b))
      OBVIOUS
    <2>2. f \in F /\ f.branch = b /\ f.round = "first"
      BY <1>4, <2>1, FilingsAre, FiledParts
    <2>3. ~Passes(ScoreFiling(f.text, RecordFor(f)))
      BY <1>4, <2>2, Screened
    <2>4. QED
      BY <2>2, <2>3
  <1>5. Echoes("sec") => ~CuredOne("sec")
    BY DEF Echoes, CuredOne
  <1>6. QED
    BY <1>2, <1>3, <1>4, <1>5

\* The final claims differ after an amendment and only then.
LEMMA ConsistencyReds ==
  ASSUME Sealed, NEW review \in Reviews, packet = Assembled(review)
  PROVE  RenderConsistency(Base, Sheets) = "bad" <=> Amends
  <1>1. Base.claims = [b \in Drafted |-> claims[b]] /\ Sheets.consistency = ConflictingFacts(Base)
    BY BaseParts, SheetParts
  <1>2. RenderConsistency(Base, Sheets) = "bad"
          <=> Cardinality(Drafted) >= 2 /\ ConflictingFacts(Base) # {}
    <2>1. CrossRead(Base) <=> Cardinality(Drafted) >= 2
      <3>1. DOMAIN Base.claims = Drafted
        BY <1>1
      <3>2. QED
        BY <3>1 DEF CrossRead
    <2>2. QED
      BY <1>1, <2>1 DEF RenderConsistency, Shown
  <1>3. ASSUME Amends PROVE Cardinality(Drafted) >= 2 /\ ConflictingFacts(Base) # {}
    <2>1. ASSUME NEW b \in {"sec", "dora"}
          PROVE  b \in Drafted /\ claims[b] = LastFacts(b)
      <3>1. b \in Branches /\ b \in Regulators /\ b \in {"nis2", "sec", "dora"}
        BY <2>1 DEF Branches, Regulators
      <3>2. clock[b] # "none"
        BY <3>1, SealedOutside
      <3>3. state[b] # "suppressed"
        BY <1>3, <3>1, SealedSuppressed
      <3>4. QED
        BY <3>1, <3>2, <3>3, SealedLive, SealedBranches
    <2>2. Amended("sec") /\ ~Amended("dora")
      <3>1. \A b : Amended(b) <=> b \in {"sec", "nis2"}
        BY WorkLists, Zenon
      <3>2. QED
        BY <3>1
    <2>3. claims["sec"] = AmendedFacts /\ claims["dora"] = CanonicalFacts
      BY <1>3, <2>1, <2>2 DEF LastFacts
    <2>4. /\ "sec" \in Drafted /\ "dora" \in Drafted
          /\ Base.claims["sec"].records = "new" /\ Base.claims["dora"].records = "old"
      BY <1>1, <2>1, <2>3 DEF AmendedFacts, CanonicalFacts
    <2>5. "records" \in ConflictingFacts(Base)
      <3>1. Base.claims["sec"]["records"] # Base.claims["dora"]["records"]
        BY <2>4
      <3>2. "sec" \in DOMAIN Base.claims /\ "dora" \in DOMAIN Base.claims
        BY <1>1, <2>4
      <3>3. QED
        BY <3>1, <3>2 DEF ConflictingFacts, LoadBearingFacts
    <2>6. Cardinality(Drafted) >= 2
      <3>1. IsFiniteSet(Branches)
        <4>1. Branches = ({"nis2"} \cup {"sec"} \cup {"dora"})
                           \cup ({"uk"} \cup {"nydfs"} \cup {"data_subject"})
          BY DEF Branches, Regulators, AffectedParty
        <4>2. \A x : IsFiniteSet({x})
          BY FS_Singleton
        <4>3. IsFiniteSet({"nis2"} \cup {"sec"}) /\ IsFiniteSet({"uk"} \cup {"nydfs"})
          BY <4>2, FS_Union
        <4>4. /\ IsFiniteSet({"nis2"} \cup {"sec"} \cup {"dora"})
              /\ IsFiniteSet({"uk"} \cup {"nydfs"} \cup {"data_subject"})
          BY <4>2, <4>3, FS_Union
        <4>5. QED
          BY <4>1, <4>4, FS_Union
      <3>2. IsFiniteSet(Drafted)
        BY <3>1, FS_Subset DEF Drafted
      <3>3. {"sec", "dora"} \subseteq Drafted
        BY <2>4
      <3>4. Cardinality({"sec", "dora"}) = 2
        <4>1. Cardinality({"sec"}) = 1 /\ IsFiniteSet({"sec"})
          BY FS_Singleton
        <4>2. Cardinality({"sec"} \cup {"dora"}) = Cardinality({"sec"}) + 1
          BY <4>1, FS_AddElement
        <4>3. {"sec"} \cup {"dora"} = {"sec", "dora"}
          OBVIOUS
        <4>4. QED
          BY <4>1, <4>2, <4>3
      <3>5. Cardinality({"sec", "dora"}) <= Cardinality(Drafted) /\ Cardinality(Drafted) \in Nat
        BY <3>2, <3>3, FS_Subset, FS_CardinalityType
      <3>6. QED
        BY <3>4, <3>5
    <2>7. QED
      BY <2>5, <2>6
  <1>4. ASSUME ~Amends PROVE ConflictingFacts(Base) = {}
    <2>1. ASSUME NEW b \in Drafted PROVE Base.claims[b] = CanonicalFacts
      <3>1. b \in Branches /\ clock[b] # "none" /\ state[b] # "suppressed"
        BY SealedBranches
      <3>2. b # AffectedParty
        BY <1>4, <3>1, SealedLive DEF Amends
      <3>3. b \in Regulators
        BY <3>1, <3>2 DEF Branches
      <3>4. claims[b] = CanonicalFacts
        BY <1>4, <3>1, <3>3, SealedLive DEF LastFacts
      <3>5. QED
        BY <1>1, <3>4
    <2>2. DOMAIN Base.claims = Drafted
      BY <1>1
    <2>3. QED
      BY <2>1, <2>2 DEF ConflictingFacts
  <1>5. QED
    BY <1>2, <1>3, <1>4

\* The sections that can be red at all.
LEMMA RedNames ==
  ASSUME NEW p, NEW s, NEW name
  PROVE  name \in RedSections(RenderHtml(p, s)) <=>
           \/ name = "diff" /\ RenderDiff(p) = "bad"
           \/ name = "reconciliation" /\ RenderReconciliation(p) = "bad"
           \/ name = "deficiency" /\ RenderDeficiency(p) = "bad"
           \/ name = "completeness" /\ RenderCompleteness(p, s) = "bad"
           \/ name = "consistency" /\ RenderConsistency(p, s) = "bad"
           \/ name = "sod" /\ RenderSod(p, s) = "bad"
           \/ name = "legal_hold" /\ RenderLegalHold(p) = "bad"
           \/ name = "reportability" /\ RenderReportability(p) = "bad"
           \/ name = "affected_party" /\ RenderAffectedParty(p) = "bad"
           \/ name = "cross_border" /\ RenderCrossBorder(p) = "bad"
           \/ name = "materiality" /\ RenderMateriality(p) = "bad"
           \/ name = "grounding" /\ RenderGrounding(p, s) = "bad"
           \/ name = "adversarial_review" /\ RenderAdversarialReview(p) = "bad"
           \/ name = "operability" /\ RenderOperability(p) = "bad"
           \/ name = "attestation" /\ RenderAttestation(p, s) = "bad"
           \/ name = "after_action" /\ RenderAfterAction(p, s) = "bad"
           \/ name = "privilege" /\ RenderPrivilege(s) = "bad"
  <1>1. /\ RenderChaos(p) # "bad" /\ RenderSecurity(p) # "bad" /\ RenderSubmission(p) # "bad"
        /\ RenderControls(p) # "bad" /\ RenderAssertion(p) # "bad" /\ RenderRecruit(p) # "bad"
        /\ RenderNydfsRecruit(p) # "bad" /\ RenderRelease(p) # "bad"
        /\ RenderEdgarExport(p, s) # "bad" /\ RenderTimeline(p) # "bad"
    BY DEF RenderChaos, RenderSecurity, RenderSubmission, RenderControls, RenderAssertion,
       RenderRecruit, RenderNydfsRecruit, RenderRelease, RenderEdgarExport, RenderTimeline,
       Green, Plain, Shown
  <1>2. PICK page : page = Sections(p, s)
    OBVIOUS
  <1>3. name \in RedSections(RenderHtml(p, s)) <=> name \in DOMAIN page /\ page[name] = "bad"
    BY <1>2 DEF RedSections, RenderHtml
  <1>4. DOMAIN page =
          {"diff", "chaos", "security", "reconciliation", "deficiency", "submission",
           "completeness", "consistency", "controls", "assertion", "sod", "legal_hold",
           "reportability", "affected_party", "cross_border", "materiality", "recruit",
           "nydfs_recruit", "grounding", "adversarial_review", "operability", "attestation",
           "release", "edgar_export", "timeline", "after_action", "privilege"}
    BY <1>2 DEF Sections
  <1>5. /\ page.diff = RenderDiff(p) /\ page.chaos = RenderChaos(p)
        /\ page.security = RenderSecurity(p)
        /\ page.reconciliation = RenderReconciliation(p)
        /\ page.deficiency = RenderDeficiency(p) /\ page.submission = RenderSubmission(p)
        /\ page.completeness = RenderCompleteness(p, s)
        /\ page.consistency = RenderConsistency(p, s)
        /\ page.controls = RenderControls(p) /\ page.assertion = RenderAssertion(p)
        /\ page.sod = RenderSod(p, s) /\ page.legal_hold = RenderLegalHold(p)
        /\ page.reportability = RenderReportability(p)
        /\ page.affected_party = RenderAffectedParty(p)
        /\ page.cross_border = RenderCrossBorder(p)
        /\ page.materiality = RenderMateriality(p) /\ page.recruit = RenderRecruit(p)
        /\ page.nydfs_recruit = RenderNydfsRecruit(p)
        /\ page.grounding = RenderGrounding(p, s)
        /\ page.adversarial_review = RenderAdversarialReview(p)
        /\ page.operability = RenderOperability(p)
        /\ page.attestation = RenderAttestation(p, s) /\ page.release = RenderRelease(p)
        /\ page.edgar_export = RenderEdgarExport(p, s)
        /\ page.timeline = RenderTimeline(p)
        /\ page.after_action = RenderAfterAction(p, s)
        /\ page.privilege = RenderPrivilege(s)
    BY <1>2 DEF Sections
  <1>6. QED
    BY <1>1, <1>3, <1>4, <1>5

\* The sections that are red by what the run itself was.
LEMMA RunReds ==
  ASSUME Sealed, NEW review \in Reviews, packet = Assembled(review)
  PROVE  /\ RenderDiff(Base) = "bad" <=>
              scenario.mode = "inject_contradiction" /\ "sec" \in Drafted
         /\ RenderReconciliation(Base) = "bad" <=> Amends
         /\ RenderDeficiency(Base) = "bad" <=> scenario.mode = "deficiency"
         /\ RenderSod(Base, Sheets) # "bad" /\ RenderLegalHold(Base) # "bad"
         /\ RenderReportability(Base) = "bad" <=>
              scenario.mode = "reportability" /\ Suppressed # {}
         /\ RenderAffectedParty(Base) = "bad" <=> Base.affected = "not_required"
         /\ RenderCrossBorder(Base) = "bad" <=> conflict # "none"
         /\ RenderMateriality(Base) = "bad" <=> scenario.materiality /\ Suppressed # {}
         /\ RenderAdversarialReview(Base) = "bad" <=> Base.review = "missed"
         /\ RenderOperability(Base) # "bad" /\ RenderAttestation(Base, Sheets) # "bad"
         /\ RenderAfterAction(Base, Sheets) # "bad"
  <1>1. RenderDiff(Base) = "bad" <=>
          scenario.mode = "inject_contradiction" /\ "sec" \in Drafted
    <2>1. Base.blocked <=> Vetoed
      BY BaseFlags, SealedVetoes DEF RowsOf
    <2>2. QED
      BY <2>1, SealedVetoes DEF RenderDiff, Shown
  <1>2. RenderReconciliation(Base) = "bad" <=> Amends
    BY BaseFlags DEF RenderReconciliation, Shown
  <1>3. RenderDeficiency(Base) = "bad" <=> scenario.mode = "deficiency"
    BY BaseFlags DEF RenderDeficiency, Shown
  <1>4. RenderSod(Base, Sheets) # "bad"
    BY SheetParts, DutiesAreSeparate DEF RenderSod, Shown
  <1>5. RenderLegalHold(Base) # "bad"
    <2>1. hold \in {"none", "active", "released"} /\ hold # "active"
      BY SealedParts DEF FloorTypeOK, DutyOK
    <2>2. Base.hold = hold
      BY BaseParts
    <2>3. QED
      BY <2>1, <2>2 DEF RenderLegalHold, Shown
  <1>6. RenderReportability(Base) = "bad" <=> scenario.mode = "reportability" /\ Suppressed # {}
    <2>1. Base.suppressed = Suppressed /\ Suppressed \subseteq {"nis2", "sec", "dora"}
          /\ Base.regimes = IF scenario.mode = "reportability" THEN {"nis2", "sec", "dora"} ELSE {}
      BY BaseParts, SealedBranches
    <2>2. QED
      BY <2>1 DEF RenderReportability, Shown
  <1>7. RenderAffectedParty(Base) = "bad" <=> Base.affected = "not_required"
    BY BaseParts DEF RenderAffectedParty, Shown
  <1>8. RenderCrossBorder(Base) = "bad" <=> conflict # "none"
    <2>1. Base.conflict = IF scenario.mode # "cross_border" THEN "absent"
                          ELSE IF conflict = "none" THEN "clean" ELSE conflict
      BY BaseParts
    <2>2. conflict \in {"none", "blocked", "resolved"}
          /\ (conflict # "none" => scenario.mode = "cross_border")
      BY SealedParts DEF FloorTypeOK, Sealed, BeatsOK
    <2>3. QED
      BY <2>1, <2>2 DEF RenderCrossBorder, Shown
  <1>9. RenderMateriality(Base) = "bad" <=> scenario.materiality /\ Suppressed # {}
    <2>1. Base.materiality = IF ~scenario.materiality THEN "absent"
                             ELSE IF "sec" \in Suppressed THEN "not_material" ELSE "material"
      BY BaseParts
    <2>2. ASSUME scenario.materiality, Suppressed # {} PROVE "sec" \in Suppressed
      <3>1. PICK b \in Suppressed : TRUE
        BY <2>2
      <3>2. scenario.mode # "reportability"
        BY <2>2, SealedParts DEF CliAccepts
      <3>3. b = "sec"
        BY <3>1, <3>2, SealedSuppressed DEF Suppressed
      <3>4. QED
        BY <3>3
    <2>3. QED
      BY <2>1, <2>2 DEF RenderMateriality, Shown
  <1>10. RenderAdversarialReview(Base) = "bad" <=> Base.review = "missed"
    BY DEF RenderAdversarialReview, Shown
  <1>11. RenderOperability(Base) # "bad"
    BY ClocksAgree DEF RenderOperability, Shown
  <1>12. RenderAttestation(Base, Sheets) # "bad"
    BY ClocksAgree, SheetParts DEF RenderAttestation, Shown, AllMet
  <1>13. RenderAfterAction(Base, Sheets) # "bad"
    <2>1. Sheets.after_action.breaches = {} /\ Sheets.after_action.filed # {}
      BY ClocksAgree, SheetParts DEF AfterAction
    <2>2. QED
      BY <2>1 DEF RenderAfterAction, Shown
  <1>14. QED
    BY <1>1, <1>2, <1>3, <1>4, <1>5, <1>6, <1>7, <1>8, <1>9, <1>10, <1>11, <1>12, <1>13

\* The outcome on the cover.
LEMMA GateShown ==
  ASSUME Sealed, NEW review \in Reviews, packet = Assembled(review)
  PROVE  GateOutcome(Base) =
           IF Drafted = {} THEN "PENDING"
           ELSE IF scenario.mode = "inject_contradiction" /\ "sec" \in Drafted THEN "CLEARED"
           ELSE "RELEASED"
  <1>1. \A r : r \in Rows(Base) <=> \E b \in Branches : r \in RowsOf(b)
    BY BaseParts, RowsShown
  <1>2. \A r \in Rows(Base) : r.admitted
    BY <1>1, SealedRows
  <1>3. /\ Base.blocked <=> Vetoed
        /\ Vetoed => Base.resolved
        /\ Vetoed <=> scenario.mode = "inject_contradiction" /\ "sec" \in Drafted
    BY BaseFlags, SealedVetoes DEF RowsOf
  <1>4. (\E r \in Rows(Base) : r.event = "human_released") <=> Drafted # {}
    BY <1>1, SealedRows, SealedReleases DEF IsRelease
  <1>5. QED
    BY <1>2, <1>3, <1>4 DEF GateOutcome

LEMMA PageOfTheRun == PacketIInv => PageTellsTheRun
  <1> SUFFICES ASSUME PacketIInv, IsAssembled
               PROVE  PageTellsTheRun
    BY DEF PageTellsTheRun
  <1>1. PICK review \in Reviews : packet = Assembled(review)
    BY AssembledIsSealed
  <1>2. Sealed
    BY AssembledIsSealed
  <1>3. ASSUME NEW name
        PROVE  name \in RedSections(RenderHtml(Base, Sheets)) <=> name \in Causes
    <2>1. /\ RenderCompleteness(Base, Sheets) = "bad" <=>
               \/ Amends
               \/ slip[1] \in Drafted /\ ~CuredOne(slip[1]) /\ slip[2] = "field"
          /\ RenderGrounding(Base, Sheets) = "bad" <=>
               \/ Echoes("sec") /\ "sec" \in Drafted
               \/ slip[1] \in Drafted /\ ~CuredOne(slip[1]) /\ slip[2] \in {"figure", "actor"}
          /\ RenderConsistency(Base, Sheets) = "bad" <=> Amends
      BY <1>1, <1>2, CompletenessReds, GroundingReds, ConsistencyReds
    <2>2. Base.injected <=> Echoes("sec") /\ "sec" \in Drafted
      BY <1>1, BaseFlags DEF Echoes
    <2>3. RenderPrivilege(Sheets) = "bad" <=> Sheets.privilege.privileged # {}
      BY DEF RenderPrivilege
    <2> DEFINE slipped == slip[1] \in Drafted /\ ~CuredOne(slip[1])
    <2>4. name \in Causes <=>
            \/ name = "adversarial_review" /\ Base.review = "missed"
            \/ name = "diff" /\ scenario.mode = "inject_contradiction" /\ "sec" \in Drafted
            \/ name \in {"reconciliation", "completeness", "consistency"} /\ Amends
            \/ name = "deficiency" /\ scenario.mode = "deficiency"
            \/ name = "completeness" /\ slipped /\ slip[2] = "field"
            \/ name = "grounding" /\ slipped /\ slip[2] \in {"figure", "actor"}
            \/ name = "grounding" /\ Base.injected
            \/ name = "materiality" /\ scenario.materiality /\ Suppressed # {}
            \/ name = "reportability" /\ scenario.mode = "reportability" /\ Suppressed # {}
            \/ name = "affected_party" /\ Base.affected = "not_required"
            \/ name = "cross_border" /\ conflict # "none"
            \/ name = "privilege" /\ Sheets.privilege.privileged # {}
      BY DEF Causes, CuredOne
    <2>5. QED
      BY <1>1, <1>2, <2>1, <2>2, <2>3, <2>4, RunReds, RedNames
  <1>4. RenderHtml(Base, Sheets).cover.gate = GateOutcome(Base)
    BY DEF RenderHtml, RenderCover
  <1>5. Drafted = { b \in Branches : InRun(b) } \ Suppressed
    BY <1>2, SealedBranches
  <1>6. RedSections(RenderHtml(Base, Sheets)) = Causes
    BY <1>3
  <1>7. QED
    BY <1>1, <1>2, <1>4, <1>5, <1>6, GateShown DEF PageTellsTheRun

\* The page is red for what the run was, and for nothing else, in every run.
THEOREM PageIsTheRun == PacketSpec => []PageTellsTheRun
  BY PacketInvariant, PageOfTheRun, PTL
=============================================================================
