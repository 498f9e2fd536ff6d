-------------------------- MODULE FinishedRunProofs --------------------------
(***************************************************************************)
(* What is proved of a finished run: of the files it leaves (CaseFile),    *)
(* for any branches, modes, revisions and crashes, and of the page that    *)
(* replays it (ReplayConsole), for every set of runs, whichever beats they *)
(* record, and every number of loads and checks.                           *)
(***************************************************************************)
EXTENDS CaseFile, ReplayConsole, SequenceTheorems, FiniteSetTheorems, WellFoundedInduction, TLAPS

-----------------------------------------------------------------------------
(***************************************************************************)
(* The files of a captured run.                                            *)
(***************************************************************************)
VERDICT == {"admitted", "to_state", "reason"}

\* Two entries that ask the same of the state machine, whatever verdict they record.
InputsOf(e) ==
  IF e.type # "protocol_event" THEN e.payload
  ELSE [f \in DOMAIN e.payload \ VERDICT |-> e.payload[f]]
AskTheSame(d, e) == d.type = e.type /\ InputsOf(d) = InputsOf(e)

LEMMA SameRederived ==
  ASSUME NEW p, NEW q, NEW s,
         [f \in DOMAIN p \ VERDICT |-> p[f]] = [f \in DOMAIN q \ VERDICT |-> q[f]],
         {"corr", "event", "ts"} \subseteq DOMAIN p
  PROVE  p.corr = q.corr /\ p.event = q.event /\ Role(p) = Role(q) /\ Rederived(s, p) = Rederived(s, q)
<1> DEFINE P == DOMAIN p \ VERDICT
           Q == DOMAIN q \ VERDICT
<1>1. P = Q
  <2>1. DOMAIN [f \in P |-> p[f]] = P /\ DOMAIN [f \in Q |-> q[f]] = Q
    OBVIOUS
  <2> QED BY <2>1
<1>2. ASSUME NEW f \in P PROVE p[f] = q[f]
  <2>1. [g \in P |-> p[g]][f] = p[f] /\ [g \in Q |-> q[g]][f] = q[f]
    BY <1>1
  <2> QED BY <2>1
<1>3. "corr" \in P /\ "event" \in P
  BY DEF VERDICT
<1>4. p.corr = q.corr /\ p.event = q.event
  BY <1>2, <1>3
<1>5. Role(p) = Role(q)
  <2>1. "actor_role" \in DOMAIN p <=> "actor_role" \in P
    BY DEF VERDICT
  <2>2. "actor_role" \in DOMAIN q <=> "actor_role" \in Q
    BY DEF VERDICT
  <2> QED BY <1>1, <1>2, <2>1, <2>2 DEF Role, Get
<1>6. Verdict(s, p) = Verdict(s, q)
  BY <1>4, <1>5 DEF Verdict, Reason
<1>7. DOMAIN Verdict(s, p) = VERDICT
  BY DEF Verdict, VERDICT
<1>8. DOMAIN p \cup VERDICT = DOMAIN q \cup VERDICT
  BY <1>1
<1>9. \A f \in DOMAIN p \cup VERDICT : f \notin VERDICT => p[f] = q[f]
  BY <1>2
<1>10. Rederived(s, p) = [f \in DOMAIN p \cup VERDICT |-> IF f \in VERDICT THEN Verdict(s, p)[f] ELSE p[f]]
  BY <1>7 DEF Rederived
<1>11. Rederived(s, q) = [f \in DOMAIN q \cup VERDICT |-> IF f \in VERDICT THEN Verdict(s, q)[f] ELSE q[f]]
  BY <1>6, <1>7 DEF Rederived
<1> QED BY <1>4, <1>5, <1>6, <1>8, <1>9, <1>10, <1>11

LEMMA SameReplayOne ==
  ASSUME NEW d, NEW e, AskTheSame(d, e), Readable(e), NEW acc
  PROVE  ReplayOne(acc, d) = ReplayOne(acc, e)
<1>1. CASE e.type # "protocol_event"
  BY <1>1 DEF AskTheSame, InputsOf, ReplayOne
<1>2. CASE e.type = "protocol_event"
  <2>1. [f \in DOMAIN d.payload \ VERDICT |-> d.payload[f]] = [f \in DOMAIN e.payload \ VERDICT |-> e.payload[f]]
    BY <1>2 DEF AskTheSame, InputsOf
  <2>2. {"corr", "event", "ts"} \subseteq DOMAIN e.payload
    BY <1>2 DEF Readable
  <2>3. /\ d.payload.corr = e.payload.corr /\ d.payload.event = e.payload.event
        /\ Role(d.payload) = Role(e.payload)
        /\ \A s : Rederived(s, d.payload) = Rederived(s, e.payload)
    BY <2>1, <2>2, SameRederived
  <2> DEFINE s == Get(acc.states, e.payload.corr, "initiated")
  <2>4. Rederived(s, d.payload) = Rederived(s, e.payload)
    BY <2>3
  <2> QED BY <1>2, <2>3, <2>4 DEF AskTheSame, ReplayOne
<1> QED BY <1>1, <1>2

LEMMA ReplayReadsInputs ==
  ASSUME NEW S, NEW T, NEW l \in Seq(S), NEW c \in Seq(T), DOMAIN l = DOMAIN c,
         \A i \in DOMAIN c : AskTheSame(l[i], c[i]) /\ Readable(c[i])
  PROVE  Replay(l) = Replay(c)
<1> DEFINE Fl(f) == [n \in 0..Len(l) |-> IF n = 0 THEN [states |-> <<>>, out |-> <<>>] ELSE ReplayOne(f[n - 1], l[n])]
           Fc(f) == [n \in 0..Len(c) |-> IF n = 0 THEN [states |-> <<>>, out |-> <<>>] ELSE ReplayOne(f[n - 1], c[n])]
<1>1. Len(l) = Len(c) /\ Len(c) \in Nat /\ DOMAIN c = 1..Len(c)
  OBVIOUS
<1>2. ASSUME NEW f PROVE Fl(f) = Fc(f)
  <2>1. ASSUME NEW n \in 0..Len(c), n # 0 PROVE ReplayOne(f[n - 1], l[n]) = ReplayOne(f[n - 1], c[n])
    <3>1. n \in DOMAIN c
      BY <1>1, <2>1
    <3> QED BY <3>1, SameReplayOne
  <2> QED BY <1>1, <2>1
<1>3. (CHOOSE f : f = Fl(f)) = (CHOOSE f : f = Fc(f))
  <2> HIDE DEF Fl, Fc
  <2> QED BY <1>2, Zenon
<1> QED BY <1>1, <1>3 DEF Replay

\* A list of entries, whatever is in them.
IsLog(l) == l \in Seq(Range(l))

LEMMA SequenceIsLog ==
  ASSUME NEW S, NEW l \in Seq(S)
  PROVE  IsLog(l)
<1>1. l \in [1..Len(l) -> Range(l)] /\ Len(l) \in Nat
  BY DEF Range
<1> QED BY <1>1 DEF IsLog

LEMMA MinIs ==
  ASSUME NEW S \in SUBSET Nat, S # {}
  PROVE  Min(S) \in S /\ \A j \in S : Min(S) <= j
<1> DEFINE R == { pair \in Nat \X Nat : pair[1] < pair[2] }
<1>1. PICK i \in S : \A j \in S : ~(<<j, i>> \in R)
  <2>1. IsWellFoundedOn(R, Nat) /\ S \subseteq Nat
    BY NatLessThanWellFounded, Zenon DEF OpToRel
  <2> HIDE DEF R
  <2> QED BY <2>1, WFMin
<1>2. \A j \in S : i <= j
  <2>1. ASSUME NEW j \in S PROVE i <= j
    <3>1. i \in Nat /\ j \in Nat /\ ~(j < i)
      BY <1>1
    <3> QED BY <3>1
  <2> QED BY <2>1
<1> QED BY <1>1, <1>2 DEF Min

LEMMA MinIsUnique ==
  ASSUME NEW S \in SUBSET Nat, NEW m \in S, \A j \in S : m <= j
  PROVE  Min(S) = m
<1>1. Min(S) \in S /\ \A j \in S : Min(S) <= j
  BY MinIs
<1>2. Min(S) <= m /\ m <= Min(S) /\ m \in Nat /\ Min(S) \in Nat
  BY <1>1
<1> QED BY <1>2

-----------------------------------------------------------------------------
LEMMA FunctionIsLog ==
  ASSUME NEW n \in Nat, NEW l, l = [j \in 1..n |-> l[j]]
  PROVE  IsLog(l)
<1> DEFINE S == { l[j] : j \in 1..n }
<1>1. l \in [1..n -> S]
  OBVIOUS
<1>2. l \in Seq(S)
  BY <1>1
<1> QED BY <1>2, SequenceIsLog

LEMMA SubSeqIsLog ==
  ASSUME NEW S, NEW l \in Seq(S), NEW m \in 1..Len(l) + 1, NEW n \in 0..Len(l)
  PROVE  SubSeq(l, m, n) \in Seq(S)
<1>1. \A i \in m..n : l[i] \in S
  OBVIOUS
<1> QED BY <1>1, SubSeqProperties

\* An edit of the sweep leaves a list of entries, and another one.
LEMMA EditsAreLogs ==
  ASSUME NEW S, NEW c \in Seq(S), NEW i \in DOMAIN c, NEW l \in Edits(c, i)
  PROVE  IsLog(l) /\ l # c
<1>1. Len(c) \in Nat /\ DOMAIN c = 1..Len(c) /\ i \in 1..Len(c) /\ l # c
  BY DEF Edits
<1>2. CASE l \in FieldEdits(c, i) \cup Backdated(c, i)
  <2>1. l = [j \in 1..Len(c) |-> l[j]]
    <3>1. CASE \E f \in DOMAIN c[i].payload : l = [c EXCEPT ![i].payload[f] = Forged(f, @)]
      <4>1. PICK f, x : l = [c EXCEPT ![i].payload[f] = x]
        BY <3>1
      <4> QED BY <1>1, <4>1
    <3>2. CASE \E f \in DOMAIN c[i].payload :
                 l = [c EXCEPT ![i].payload = [g \in DOMAIN @ \ {f} |-> @[g]]]
      BY <1>1, <3>2
    <3>3. CASE l = [c EXCEPT ![i].seq = @ + 1000] \/ l = [c EXCEPT ![i].type = "forged"]
      BY <1>1, <3>3
    <3>4. CASE \E f \in DOMAIN c[i].payload : l = [c EXCEPT ![i].payload[f] = @ - 100]
      BY <1>1, <3>4
    <3>5. CASE l \in FieldEdits(c, i)
      BY <3>1, <3>2, <3>3, <3>5, Zenon DEF FieldEdits
    <3>6. CASE l \in Backdated(c, i)
      BY <3>4, <3>6, Zenon DEF Backdated
    <3> QED BY <1>2, <3>5, <3>6
  <2> QED BY <1>1, <2>1, FunctionIsLog
<1>3. CASE l = RemoveAt(c, i) \/ l = SubSeq(c, 1, i - 1)
  <2>1. SubSeq(c, 1, i - 1) \in Seq(S) /\ SubSeq(c, i + 1, Len(c)) \in Seq(S)
    BY <1>1, SubSeqIsLog
  <2>2. SubSeq(c, 1, i - 1) \o SubSeq(c, i + 1, Len(c)) \in Seq(S)
    BY <2>1
  <2>3. l \in Seq(S)
    BY <1>3, <2>1, <2>2 DEF RemoveAt
  <2> QED BY <1>1, <2>3, SequenceIsLog
<1>4. CASE l = InsertAt(c, i + 1, c[i])
  <2>1. SubSeq(c, 1, (i + 1) - 1) \in Seq(S) /\ SubSeq(c, i + 1, Len(c)) \in Seq(S) /\ <<c[i]>> \in Seq(S)
    BY <1>1, SubSeqIsLog
  <2>2. SubSeq(c, 1, (i + 1) - 1) \o <<c[i]>> \o SubSeq(c, i + 1, Len(c)) \in Seq(S)
    BY <2>1
  <2> QED BY <1>1, <1>4, <2>2, SequenceIsLog DEF InsertAt
<1>5. CASE l = [c EXCEPT ![i] = c[i + 1], ![i + 1] = c[i]]
  <2>1. l = [j \in 1..Len(c) |-> l[j]]
    BY <1>1, <1>5
  <2> QED BY <1>1, <2>1, FunctionIsLog
<1> QED BY <1>2, <1>3, <1>4, <1>5 DEF Edits, OrderEdits

-----------------------------------------------------------------------------
LEMMA HeadIsLog ==
  ASSUME NEW S, NEW l \in Seq(S)
  PROVE  ChainHead(l) = l
<1>1. CASE l = <<>>
  BY <1>1 DEF ChainHead, GENESIS
<1>2. CASE l # <<>>
  <2>1. Len(l) \in DOMAIN l
    BY <1>2, EmptySeq
  <2> QED BY <1>2, <2>1, SubSeqFull DEF ChainHead, ChainOver
<1> QED BY <1>1, <1>2

\* Two logs differ in an entry or in length.
LEMMA LogsDiffer ==
  ASSUME NEW S, NEW T, NEW l \in Seq(S), NEW c \in Seq(T), l # c, Len(l) = Len(c)
  PROVE  \E i \in DOMAIN c : l[i] # c[i]
<1>1. DOMAIN l = DOMAIN c
  OBVIOUS
<1> QED BY <1>1

\* The chain is broken from the first entry on that is another.
LEMMA ChainBreaksAtDifference ==
  ASSUME NEW S, NEW T, NEW l \in Seq(S), NEW c \in Seq(T), l # c
  PROVE  LET chain == ChainOver(c)
             differs == {i \in DOMAIN l \cap DOMAIN chain : l[i] # c[i]}
         IN  FirstBroken(l, chain) =
               IF differs = {} THEN Min({Len(l), Len(chain)}) ELSE Min(differs) - 1
<1> DEFINE chain == ChainOver(c)
           both == DOMAIN l \cap DOMAIN chain
           differs == {i \in both : l[i] # c[i]}
           broken == {i \in both : SubSeq(l, 1, i) # chain[i]}
<1>1. /\ Len(l) \in Nat /\ DOMAIN l = 1..Len(l) /\ Len(c) \in Nat /\ DOMAIN c = 1..Len(c)
      /\ DOMAIN chain = 1..Len(c) /\ \A i \in 1..Len(c) : chain[i] = SubSeq(c, 1, i)
  BY DEF ChainOver
<1>2. Len(chain) = Len(c)
  <2>1. \A i \in 1..Len(c) : chain[i] \in Seq(T)
    BY <1>1, SubSeqIsLog
  <2>2. chain \in Seq(Seq(T))
    <3>1. chain = [i \in 1..Len(c) |-> SubSeq(c, 1, i)]
      BY <1>1 DEF ChainOver
    <3> HIDE DEF chain
    <3>2. chain \in [1..Len(c) -> Seq(T)]
      BY <1>1, <2>1, <3>1
    <3>3. ASSUME NEW U, NEW q \in [1..Len(c) -> U] PROVE q \in Seq(U)
      BY <1>1
    <3> QED BY <3>2, <3>3
  <2> QED BY <1>1, <2>2
<1>3. ASSUME NEW i \in both, \A j \in 1..i : l[j] = c[j]
      PROVE  SubSeq(l, 1, i) = SubSeq(c, 1, i)
  <2>1. i \in 1..Len(l) /\ i \in 1..Len(c)
    BY <1>1
  <2>2. SubSeq(l, 1, i) = [j \in 1..i |-> l[j]] /\ SubSeq(c, 1, i) = [j \in 1..i |-> c[j]]
    BY <1>1, <2>1, SubSeqRestrict DEF Restrict
  <2> QED BY <1>3, <2>2
<1>4. ASSUME NEW i \in both, l[i] # c[i]
      PROVE  SubSeq(l, 1, i) # SubSeq(c, 1, i)
  <2>1. i \in 1..Len(l) /\ i \in 1..Len(c)
    BY <1>1
  <2>2. SubSeq(l, 1, i) = [j \in 1..i |-> l[j]] /\ SubSeq(c, 1, i) = [j \in 1..i |-> c[j]]
    BY <1>1, <2>1, SubSeqRestrict DEF Restrict
  <2>3. SubSeq(l, 1, i)[i] = l[i] /\ SubSeq(c, 1, i)[i] = c[i]
    BY <2>1, <2>2
  <2> QED BY <1>4, <2>3
<1>5. \A i \in both : chain[i] = SubSeq(c, 1, i)
  BY <1>1
<1>6. /\ broken # {} => FirstBroken(l, chain) = Min(broken) - 1
      /\ broken = {} /\ Len(l) # Len(chain) => FirstBroken(l, chain) = Min({Len(l), Len(chain)})
  BY DEF FirstBroken
<1>7. CASE differs = {}
  <2>1. \A i \in both : \A j \in 1..i : l[j] = c[j]
    BY <1>1, <1>7
  <2>2. broken = {}
    BY <1>3, <1>5, <2>1
  <2>3. Len(l) # Len(c)
    <3>1. SUFFICES ASSUME Len(l) = Len(c) PROVE FALSE
      OBVIOUS
    <3>2. PICK i \in DOMAIN c : l[i] # c[i]
      BY <3>1, LogsDiffer
    <3> QED BY <1>1, <1>7, <3>1, <3>2
  <2> QED BY <1>2, <1>6, <1>7, <2>2, <2>3
<1>8. CASE differs # {}
  <2>1. differs \in SUBSET Nat /\ broken \in SUBSET Nat
    BY <1>1
  <2>2. PICK m : m = Min(differs)
    OBVIOUS
  <2>3. m \in differs /\ \A j \in differs : m <= j
    <3> HIDE DEF differs
    <3> QED BY <1>8, <2>1, <2>2, MinIs
  <2>4. m \in broken
    BY <1>4, <1>5, <2>3
  <2>5. ASSUME NEW j \in broken PROVE m <= j
    <3>1. m \in Nat /\ j \in Nat /\ j \in both /\ j \in 1..Len(l) /\ j \in 1..Len(c)
      BY <1>1, <2>3
    <3>2. SUFFICES ASSUME j < m PROVE FALSE
      BY <3>1
    <3>3. ASSUME NEW k \in 1..j PROVE l[k] = c[k]
      <4>1. k \in both /\ ~(m <= k)
        BY <1>1, <3>1, <3>2
      <4>2. k \notin differs
        BY <2>3, <4>1
      <4> QED BY <4>1, <4>2
    <3>4. SubSeq(l, 1, j) = SubSeq(c, 1, j)
      BY <1>3, <3>1, <3>3
    <3> QED BY <1>5, <3>1, <3>4
  <2>6. Min(broken) = m
    <3> HIDE DEF broken
    <3> QED BY <2>1, <2>4, <2>5, MinIsUnique
  <2>7. broken # {}
    BY <2>4
  <2>8. FirstBroken(l, chain) = Min(broken) - 1
    BY <1>6, <2>7
  <2>9. FirstBroken(l, chain) = IF differs = {} THEN Min({Len(l), Len(chain)}) ELSE Min(differs) - 1
    <3> HIDE DEF broken, differs
    <3> QED BY <1>8, <2>2, <2>6, <2>8
  <2> QED BY <2>9
<1> QED BY <1>7, <1>8

-----------------------------------------------------------------------------
SealStates == {"idle", "packet", "sidecar", "intoto", "token"}
Changes == {"nothing", "log", "record", "clocks"}

\* A signature as resign_captures.py makes it: over the digest that it names.
Payload == [sha : {"sealed", "forged"}, head : {"sealed", "forged"}, att : Nat]
Record == [sha : {"sealed", "forged"}, head : {"sealed", "forged"}, att : Nat, over : Payload]
Statement == [subject : {"sealed", "forged"}, att : Nat]

BundleTypeOK ==
  /\ packet \in [clocks : Nat, sha : {"sealed", "forged"}, head : {"sealed", "forged"}, signature : Record]
  /\ sidecar \in Record /\ record \in Record
  /\ dsse \in [subject : {"sealed", "forged"}, statement : Statement, over : Statement] \cup {Absent}
  /\ token \in [imprint : Payload, over : Payload] \cup {Absent}
  /\ Attested <=> token # Absent
  /\ sealing \in SealStates /\ changed \in Changes
  /\ revisions \in Nat /\ crashes \in Nat

\* What a script in progress has written so far.
InHand ==
  /\ record.over = BoundPayload(record.sha, record.head, record.att)
  /\ sealing # "idle" => Attested
  /\ sealing \in {"sidecar", "intoto", "token"} => packet.signature = record
  /\ sealing = "token" => dsse.statement.att = record.att

\* The four files are written in the order of their dependence, so what is read
\* later is never newer than what is read before.
WrittenInOrder ==
  /\ packet.signature.over.att <= record.att /\ record.att <= packet.clocks
  /\ Attested => /\ token.imprint.att <= dsse.statement.att
                 /\ dsse.statement.att <= packet.signature.over.att

BundleIInv == BundleTypeOK /\ InHand /\ WrittenInOrder

-----------------------------------------------------------------------------
LEMMA DigestsTyped ==
  ASSUME NEW l PROVE ShaOf(l) \in {"sealed", "forged"} /\ HeadOf(l) \in {"sealed", "forged"}
BY DEF ShaOf, HeadOf

LEMMA SignTyped ==
  ASSUME NEW l, NEW att \in Nat
  PROVE  /\ Sign(l, att) \in Record
         /\ Sign(l, att).att = att
         /\ Sign(l, att).over = BoundPayload(Sign(l, att).sha, Sign(l, att).head, att)
BY DigestsTyped DEF Sign, BoundPayload, Record, Payload

LEMMA EnvelopeTyped ==
  ASSUME NEW l, NEW rec \in Record
  PROVE  /\ Envelope(l, rec) \in [subject : {"sealed", "forged"}, statement : Statement, over : Statement]
         /\ Envelope(l, rec).statement.att = rec.att
BY DigestsTyped DEF Envelope, Statement, Record

LEMMA StampTyped ==
  ASSUME NEW rec \in Record
  PROVE  /\ Stamp(rec) \in [imprint : Payload, over : Payload]
         /\ Stamp(rec).imprint = Imprint(rec) /\ Stamp(rec).imprint.att = rec.att
BY DEF Stamp, Imprint, BoundPayload, Payload, Record

LEMMA PresentIsNotAbsent ==
  /\ \A e \in [subject : {"sealed", "forged"}, statement : Statement, over : Statement] : e # Absent
  /\ \A t \in [imprint : Payload, over : Payload] : t # Absent
<1>1. ASSUME NEW e \in [subject : {"sealed", "forged"}, statement : Statement, over : Statement]
      PROVE  e # Absent
  <2>1. "subject" \in DOMAIN e /\ "subject" \notin DOMAIN Absent
    BY DEF Absent
  <2> QED BY <2>1
<1>2. ASSUME NEW t \in [imprint : Payload, over : Payload]
      PROVE  t # Absent
  <2>1. "imprint" \in DOMAIN t /\ "imprint" \notin DOMAIN Absent
    BY DEF Absent
  <2> QED BY <2>1
<1> QED BY <1>1, <1>2

-----------------------------------------------------------------------------
LEMMA InitEstablishes == Init => BundleIInv
<1> SUFFICES ASSUME Init PROVE BundleIInv
  OBVIOUS
<1>1. PICK m \in Modes :
        /\ captured = Recorded(m) /\ log = captured /\ record = Sign(captured, 0)
        /\ dsse = IF m = "submit" THEN Absent ELSE Envelope(captured, record)
        /\ token = IF m = "submit" THEN Absent ELSE Stamp(record)
  BY DEF Init
<1>2. /\ packet = [clocks |-> 0, sha |-> "sealed", head |-> "sealed", signature |-> record]
      /\ sidecar = record /\ sealing = "idle" /\ changed = "nothing" /\ revisions = 0 /\ crashes = 0
  BY DEF Init
<1>3. /\ record \in Record /\ record.att = 0
      /\ record.over = BoundPayload(record.sha, record.head, record.att) /\ record.over.att = 0
  <2>1. record \in Record /\ record.att = 0 /\ record.over = BoundPayload(record.sha, record.head, 0)
    BY <1>1, SignTyped
  <2> QED BY <2>1 DEF BoundPayload
<1>4. /\ Envelope(captured, record) \in [subject : {"sealed", "forged"}, statement : Statement, over : Statement]
      /\ Envelope(captured, record).statement.att = 0
      /\ Stamp(record) \in [imprint : Payload, over : Payload]
      /\ Stamp(record).imprint.att = 0
  BY <1>3, EnvelopeTyped, StampTyped
<1>5. BundleTypeOK
  <2>1. packet \in [clocks : Nat, sha : {"sealed", "forged"}, head : {"sealed", "forged"}, signature : Record]
    BY <1>2, <1>3
  <2>2. Attested <=> token # Absent
    BY <1>1, <1>4, PresentIsNotAbsent DEF Attested
  <2> QED BY <1>1, <1>2, <1>3, <1>4, <2>1, <2>2 DEF BundleTypeOK, SealStates, Changes
<1>6. InHand
  BY <1>2, <1>3 DEF InHand
<1>7. WrittenInOrder
  <2>1. packet.signature.over.att <= record.att /\ record.att <= packet.clocks
    BY <1>2, <1>3
  <2>2. CASE Attested
    <3>1. dsse = Envelope(captured, record) /\ token = Stamp(record)
      BY <1>1, <2>2 DEF Attested
    <3> QED BY <1>2, <1>3, <1>4, <2>1, <3>1 DEF WrittenInOrder
  <2> QED BY <2>1, <2>2 DEF WrittenInOrder
<1> QED BY <1>5, <1>6, <1>7 DEF BundleIInv

-----------------------------------------------------------------------------
LEMMA RecordInHand ==
  BundleIInv => /\ record \in Record /\ record.over.att = record.att
                /\ record.att \in Nat /\ record.head \in {"sealed", "forged"}
BY DEF BundleIInv, BundleTypeOK, InHand, BoundPayload, Record

LEMMA PacketFacts ==
  BundleIInv => /\ packet \in [clocks : Nat, sha : {"sealed", "forged"}, head : {"sealed", "forged"}, signature : Record]
                /\ packet.signature \in Record /\ packet.clocks \in Nat
                /\ packet.signature.over.att \in Nat
                /\ Attested => dsse.statement.att \in Nat /\ token.imprint.att \in Nat
BY DEF BundleIInv, BundleTypeOK, Record, Payload, Statement, Attested

LEMMA EditLogKeeps == ASSUME BundleIInv, EditLog PROVE BundleIInv'
<1>1. changed' = "log" /\ UNCHANGED <<packet, sidecar, dsse, token, sealing, record, revisions, crashes>>
  BY DEF EditLog
<1> QED BY <1>1 DEF BundleIInv, BundleTypeOK, InHand, WrittenInOrder, Attested, Changes

LEMMA ForgeRecordKeeps == ASSUME BundleIInv, ForgeRecord PROVE BundleIInv'
<1>1. /\ changed' = "record" /\ sealing = "idle"
      /\ UNCHANGED <<sidecar, dsse, token, sealing, record, revisions, crashes>>
  BY DEF ForgeRecord, Honest
<1>2. /\ packet' \in [clocks : Nat, sha : {"sealed", "forged"}, head : {"sealed", "forged"}, signature : Record]
      /\ packet'.clocks = packet.clocks /\ packet'.signature.over.att = packet.signature.over.att
  <2>1. CASE \E f \in {"sha", "head"} : packet' = [packet EXCEPT ![f] = "forged"]
    BY <2>1 DEF BundleIInv, BundleTypeOK
  <2>2. CASE \E f \in {"sha", "head"} : packet' = [packet EXCEPT !.signature[f] = "forged"]
    BY <2>2 DEF BundleIInv, BundleTypeOK, Record
  <2>3. CASE packet' = [packet EXCEPT !.signature.att = @ + 100]
    BY <2>3 DEF BundleIInv, BundleTypeOK, Record
  <2>4. CASE packet' = [packet EXCEPT !.signature.over = [@ EXCEPT !.sha = "forged"]]
    BY <2>4 DEF BundleIInv, BundleTypeOK, Record, Payload
  <2> QED BY <2>1, <2>2, <2>3, <2>4 DEF ForgeRecord
<1> QED BY <1>1, <1>2 DEF BundleIInv, BundleTypeOK, InHand, WrittenInOrder, Attested, Changes

LEMMA RestoreKeeps == ASSUME BundleIInv, Restore PROVE BundleIInv'
<1>1. /\ changed' = "nothing" /\ sealing = "idle"
      /\ packet' = [packet EXCEPT !.sha = "sealed", !.head = record.head, !.signature = record]
      /\ UNCHANGED <<sidecar, dsse, token, sealing, record, revisions, crashes>>
  BY DEF Restore
<1>2. /\ packet' \in [clocks : Nat, sha : {"sealed", "forged"}, head : {"sealed", "forged"}, signature : Record]
      /\ packet'.clocks = packet.clocks /\ packet'.signature = record
  BY <1>1, RecordInHand, PacketFacts
<1>3. WrittenInOrder'
  <2>1. /\ packet.signature.over.att \in Nat /\ record.att \in Nat
        /\ record.over.att = record.att
    BY RecordInHand, PacketFacts
  <2>2. packet'.signature.over.att = record.att /\ record'.att = record.att
    BY <1>1, <1>2, <2>1
  <2>3. packet.signature.over.att <= record.att /\ record.att <= packet.clocks
    BY DEF BundleIInv, WrittenInOrder
  <2>4. packet'.signature.over.att <= record'.att /\ record'.att <= packet'.clocks
    BY <1>2, <2>1, <2>2, <2>3
  <2>5. ASSUME Attested PROVE /\ token.imprint.att <= dsse.statement.att
                              /\ dsse.statement.att <= record.att
    BY <2>1, <2>3, <2>5, PacketFacts DEF BundleIInv, WrittenInOrder
  <2>6. Attested' <=> Attested
    BY <1>1 DEF Attested
  <2> QED BY <1>1, <2>2, <2>4, <2>5, <2>6 DEF WrittenInOrder
<1> QED BY <1>1, <1>2, <1>3 DEF BundleIInv, BundleTypeOK, InHand, Attested, Changes

LEMMA ReviseClocksKeeps == ASSUME BundleIInv, ReviseClocks PROVE BundleIInv'
<1>1. /\ changed' = "clocks" /\ sealing = "idle" /\ revisions' = revisions + 1
      /\ packet' = [packet EXCEPT !.clocks = @ + 1]
      /\ UNCHANGED <<sidecar, dsse, token, sealing, record, crashes>>
  BY DEF ReviseClocks, Honest
<1>2. /\ packet' \in [clocks : Nat, sha : {"sealed", "forged"}, head : {"sealed", "forged"}, signature : Record]
      /\ packet'.clocks = packet.clocks + 1 /\ packet'.signature = packet.signature
      /\ packet.clocks \in Nat /\ record.att \in Nat
  BY <1>1 DEF BundleIInv, BundleTypeOK, Record
<1>3. revisions' \in Nat
  BY <1>1 DEF BundleIInv, BundleTypeOK
<1> QED BY <1>1, <1>2, <1>3 DEF BundleIInv, BundleTypeOK, InHand, WrittenInOrder, Attested, Changes

LEMMA StartResealKeeps == ASSUME BundleIInv, StartReseal PROVE BundleIInv'
<1>1. /\ sealing = "idle" /\ Attested /\ record' = Sign(log, packet.clocks) /\ sealing' = "packet"
      /\ UNCHANGED <<log, packet, sidecar, dsse, token, changed, revisions, crashes>>
  BY DEF StartReseal, Files
<1>2. /\ record' \in Record /\ record'.att = packet.clocks
      /\ record'.over = BoundPayload(record'.sha, record'.head, record'.att)
  BY <1>1, SignTyped DEF BundleIInv, BundleTypeOK
<1>3. WrittenInOrder'
  <2>1. packet.signature.over.att \in Nat /\ record.att \in Nat /\ packet.clocks \in Nat
    BY RecordInHand, PacketFacts
  <2> QED BY <1>1, <1>2, <2>1 DEF BundleIInv, WrittenInOrder, Attested
<1> QED BY <1>1, <1>2, <1>3 DEF BundleIInv, BundleTypeOK, InHand, Attested, SealStates

LEMMA WritePacketKeeps == ASSUME BundleIInv, WritePacket PROVE BundleIInv'
<1>1. /\ sealing = "packet" /\ sealing' = "sidecar"
      /\ packet' = [packet EXCEPT !.head = record.head, !.signature = record]
      /\ UNCHANGED <<log, sidecar, dsse, token, record, changed, revisions, crashes>>
  BY DEF WritePacket
<1>2. /\ packet' \in [clocks : Nat, sha : {"sealed", "forged"}, head : {"sealed", "forged"}, signature : Record]
      /\ packet'.clocks = packet.clocks /\ packet'.signature = record
  BY <1>1, RecordInHand, PacketFacts
<1>3. WrittenInOrder'
  <2>1. /\ packet.signature.over.att \in Nat /\ record.att \in Nat
        /\ record.over.att = record.att
    BY RecordInHand, PacketFacts
  <2>2. packet'.signature.over.att = record.att /\ record'.att = record.att
    BY <1>1, <1>2, <2>1
  <2>3. packet.signature.over.att <= record.att /\ record.att <= packet.clocks
    BY DEF BundleIInv, WrittenInOrder
  <2>4. packet'.signature.over.att <= record'.att /\ record'.att <= packet'.clocks
    BY <1>2, <2>1, <2>2, <2>3
  <2>5. ASSUME Attested PROVE /\ token.imprint.att <= dsse.statement.att
                              /\ dsse.statement.att <= record.att
    BY <2>1, <2>3, <2>5, PacketFacts DEF BundleIInv, WrittenInOrder
  <2>6. Attested' <=> Attested
    BY <1>1 DEF Attested
  <2> QED BY <1>1, <2>2, <2>4, <2>5, <2>6 DEF WrittenInOrder
<1> QED BY <1>1, <1>2, <1>3 DEF BundleIInv, BundleTypeOK, InHand, Attested, SealStates

LEMMA WriteSidecarKeeps == ASSUME BundleIInv, WriteSidecar PROVE BundleIInv'
<1>1. /\ sealing = "sidecar" /\ sealing' = "intoto" /\ sidecar' = record
      /\ UNCHANGED <<log, packet, dsse, token, record, changed, revisions, crashes>>
  BY DEF WriteSidecar
<1> QED BY <1>1 DEF BundleIInv, BundleTypeOK, InHand, WrittenInOrder, Attested, SealStates

LEMMA WriteIntotoKeeps == ASSUME BundleIInv, WriteIntoto PROVE BundleIInv'
<1>1. /\ sealing = "intoto" /\ sealing' = "token" /\ dsse' = Envelope(log, packet.signature)
      /\ UNCHANGED <<log, packet, sidecar, token, record, changed, revisions, crashes>>
  BY DEF WriteIntoto
<1>2. /\ packet.signature = record /\ record \in Record
      /\ record.over.att = record.att
  BY <1>1, RecordInHand DEF BundleIInv, BundleTypeOK, InHand
<1>3. /\ dsse' \in [subject : {"sealed", "forged"}, statement : Statement, over : Statement]
      /\ dsse'.statement.att = record.att
  BY <1>1, <1>2, EnvelopeTyped
<1>4. Attested /\ Attested' /\ token # Absent
  BY <1>1, <1>3, PresentIsNotAbsent DEF Attested, BundleIInv, BundleTypeOK, InHand
<1>5. WrittenInOrder'
  <2>1. /\ dsse.statement.att \in Nat /\ token.imprint.att \in Nat
        /\ packet.signature.over.att \in Nat /\ record.att \in Nat
    BY <1>4 DEF BundleIInv, BundleTypeOK, Attested, Statement, Payload, Record
  <2> QED BY <1>1, <1>2, <1>3, <1>4, <2>1 DEF BundleIInv, WrittenInOrder
<1> QED BY <1>1, <1>2, <1>3, <1>4, <1>5 DEF BundleIInv, BundleTypeOK, InHand, SealStates

LEMMA WriteTokenKeeps == ASSUME BundleIInv, WriteToken PROVE BundleIInv'
<1>1. /\ sealing = "token" /\ sealing' = "idle" /\ changed' = "nothing" /\ token' = Stamp(record)
      /\ UNCHANGED <<log, packet, sidecar, dsse, record, revisions, crashes>>
  BY DEF WriteToken
<1>2. /\ packet.signature = record /\ record \in Record
      /\ dsse.statement.att = record.att
  BY <1>1 DEF BundleIInv, BundleTypeOK, InHand
<1>3. /\ token' \in [imprint : Payload, over : Payload]
      /\ token'.imprint.att = record.att
  BY <1>1, <1>2, StampTyped
<1>4. Attested /\ Attested' /\ token' # Absent
  BY <1>1, <1>3, PresentIsNotAbsent DEF BundleIInv, InHand, Attested
<1>5. WrittenInOrder'
  BY <1>1, <1>2, <1>3, <1>4 DEF BundleIInv, WrittenInOrder, Record
<1> QED BY <1>1, <1>2, <1>3, <1>4, <1>5 DEF BundleIInv, BundleTypeOK, InHand, SealStates, Changes

LEMMA CrashKeeps == ASSUME BundleIInv, Crash PROVE BundleIInv'
<1>1. /\ sealing' = "idle" /\ crashes' = crashes + 1 /\ changed' = "clocks"
      /\ UNCHANGED <<log, packet, sidecar, dsse, token, record, revisions>>
  BY DEF Crash, Files
<1>2. crashes' \in Nat
  BY <1>1 DEF BundleIInv, BundleTypeOK
<1> QED BY <1>1, <1>2 DEF BundleIInv, BundleTypeOK, InHand, WrittenInOrder, Attested, SealStates, Changes

-----------------------------------------------------------------------------
LEMMA StepKeeps == BundleIInv /\ [Next]_vars => BundleIInv'
<1> SUFFICES ASSUME BundleIInv, [Next]_vars PROVE BundleIInv'
  OBVIOUS
<1>1. CASE UNCHANGED vars
  BY <1>1 DEF vars, BundleIInv, BundleTypeOK, InHand, WrittenInOrder, Attested
<1>2. CASE EditLog
  BY <1>2, EditLogKeeps
<1>3. CASE ForgeRecord
  BY <1>3, ForgeRecordKeeps
<1>4. CASE Restore
  BY <1>4, RestoreKeeps
<1>5. CASE ReviseClocks
  BY <1>5, ReviseClocksKeeps
<1>6. CASE StartReseal
  BY <1>6, StartResealKeeps
<1>7. CASE WritePacket
  BY <1>7, WritePacketKeeps
<1>8. CASE WriteSidecar
  BY <1>8, WriteSidecarKeeps
<1>9. CASE WriteIntoto
  BY <1>9, WriteIntotoKeeps
<1>10. CASE WriteToken
  BY <1>10, WriteTokenKeeps
<1>11. CASE Crash
  BY <1>11, CrashKeeps
<1> QED BY <1>1, <1>2, <1>3, <1>4, <1>5, <1>6, <1>7, <1>8, <1>9, <1>10, <1>11 DEF Next, Reseal

\* What the makers of receipts do leaves the sealed files alone.
LEMMA CaseStepIsBundleStep == [CaseNext]_allVars => [Next]_vars
<1> SUFFICES ASSUME [CaseNext]_allVars PROVE [Next]_vars
  OBVIOUS
<1>1. CASE UNCHANGED allVars
  BY <1>1 DEF allVars
<1>2. CASE CaseNext
  BY <1>2 DEF CaseNext, Sealing, SealOnDisk, Next, Reseal, BuildCasefile, SignAssertion, MakeWhatif,
              AlterCasefile, AlterAssertion, AlterSubmission, AlterReceipt, Discard
<1> QED BY <1>1, <1>2

\* The types of the five files and what is newer than what, in every state of a
\* bundle, however often it is revised, sealed again or left half-sealed.
THEOREM BundleInvariant == Spec => []BundleIInv
BY InitEstablishes, StepKeeps, PTL DEF Spec

THEOREM CaseInvariant == CaseSpec => []BundleIInv
<1>1. CaseInit => BundleIInv
  BY InitEstablishes DEF CaseInit
<1>2. BundleIInv /\ [CaseNext]_allVars => BundleIInv'
  BY StepKeeps, CaseStepIsBundleStep
<1> QED BY <1>1, <1>2, PTL DEF CaseSpec

LEMMA SqueezedBundle == BundleIInv => AcceptedBundleIsOneSeal
<1> SUFFICES ASSUME BundleIInv, VerifyThirdparty, Attested
             PROVE  /\ dsse.statement.att = packet.signature.att
                    /\ token.imprint.att = packet.signature.att
  BY DEF AcceptedBundleIsOneSeal
<1> DEFINE sig == packet.signature
<1>1. sig.over.att = sig.att
  BY DEF VerifyThirdparty, VerifyRunLog, BoundPayload
<1>2. token.imprint.att = sig.att
  BY DEF VerifyThirdparty, VerifyToken, Imprint, BoundPayload
<1>3. dsse.statement.att \in Nat /\ sig.att \in Nat
  BY DEF BundleIInv, BundleTypeOK, Attested, Statement, Record
<1> QED BY <1>1, <1>2, <1>3 DEF BundleIInv, WrittenInOrder

\* Whatever the script has written when the outside verifier looks, a bundle that
\* it accepts is of one seal.
THEOREM AcceptedIsOneSeal == CaseSpec => []AcceptedBundleIsOneSeal
BY CaseInvariant, SqueezedBundle, PTL

-----------------------------------------------------------------------------
(***************************************************************************)
(* What holds of the files and of the receipts made of them.               *)
(***************************************************************************)
Captured == \E m \in Modes : captured = Recorded(m)

\* A signature and a packet nobody has touched since a seal wrote them.
Genuine(rec) ==
  rec.sha = "sealed" /\ rec.head = "sealed" /\ rec.over = BoundPayload("sealed", "sealed", rec.att)
Unforged(p) == p.sha = "sealed" /\ p.head = "sealed" /\ Genuine(p.signature)

LogOnDisk ==
  /\ changed # "log" => log = captured
  /\ changed = "log" => sealing = "idle" /\ log # captured /\ IsLog(log)
  /\ changed = "record" => sealing = "idle"

SealsAreGenuine ==
  /\ Genuine(record) /\ Genuine(sidecar)
  /\ changed = "record" <=> ~ Unforged(packet)
  /\ Attested => /\ dsse.subject = "sealed" /\ dsse.over = dsse.statement
                 /\ token.over = token.imprint
                 /\ token.imprint = BoundPayload("sealed", "sealed", token.imprint.att)

\* Between two seals the files are of one seal, and it is of the packet's rows.
OneSeal ==
  /\ sealing # "idle" => record.att = packet.clocks
  /\ sealing \in {"intoto", "token"} => sidecar = record
  /\ sealing = "idle" /\ changed # "clocks" =>
       /\ record.att = packet.clocks /\ sidecar = record
       /\ changed # "record" => packet.signature = record
       /\ Attested => dsse.statement.att = record.att /\ token.imprint.att = record.att

BundleSound == Captured /\ LogOnDisk /\ SealsAreGenuine /\ OneSeal

GenuineCase(cf) ==
  /\ DOMAIN cf = {"manifest", "over", "copies"} /\ DOMAIN cf.manifest = {"rows", "root"}
  /\ cf.over = cf.manifest /\ cf.manifest.root = cf.manifest.rows /\ cf.copies = cf.manifest.rows
  /\ DOMAIN cf.manifest.rows = Sealed \cup Derived
  /\ cf.manifest.rows["run_log"] = "sealed"
  /\ Unforged(cf.manifest.rows["packet"][1])

CasefileStands ==
  /\ altered \notin {"casefile", "copy"} => GenuineCase(casefile)
  /\ altered = "casefile" => ~ CheckBundleSignature

AssertionStands ==
  /\ altered # "assertion" =>
       /\ DOMAIN assertion = {"digest", "over"} /\ DOMAIN assertion.digest = {"period", "chain_head"}
       /\ assertion.digest.period \in Nat /\ assertion.over = assertion.digest
  /\ altered = "assertion" => assertion.digest # assertion.over

SubmissionsStand ==
  /\ altered # "submission" => submissions = Submissions
  /\ altered = "submission" =>
       \E regime \in DOMAIN Submissions :
         \/ submissions = [Submissions EXCEPT ![regime].artifact = "forged"]
         \/ \E f \in ComparedFields : submissions = [Submissions EXCEPT ![regime].receipt[f] = Forged(f, @)]

GenuineWhatif(w) ==
  /\ DOMAIN w = {"outcome", "head", "signature"}
  /\ DOMAIN w.signature = {"named", "anchor", "digest", "over"}
  /\ "actual" \in DOMAIN w.outcome
  /\ w.head = "sealed" /\ w.signature.anchor = "sealed" /\ w.signature.named = Question
  /\ w.signature.digest = w.outcome
  /\ w.signature.over = CounterfactualPayload(Question, "sealed", w.outcome)

WhatifStands ==
  Question # "none" =>
    /\ altered # "whatif" => GenuineWhatif(whatif)
    /\ altered = "whatif" => \/ ~ VerifyWhatIf
                             \/ whatif.head # "sealed"
                             \/ whatif.signature.over.actual_chain_head # "sealed"

ReceiptsStand ==
  /\ altered # "nothing" => Honest
  /\ CasefileStands /\ AssertionStands /\ SubmissionsStand /\ WhatifStands

CaseIInv == BundleIInv /\ BundleSound /\ ReceiptsStand

-----------------------------------------------------------------------------
LEMMA CaptureFacts ==
  ASSUME Captured
  PROVE  IsLog(captured) /\ CaptureIsSound(captured)
BY CapturesAssumption DEF Captured, IsLog, CaptureIsSound

LEMMA Digests ==
  ASSUME Captured, NEW l, IsLog(l)
  PROVE  /\ l = captured => ShaOf(l) = "sealed" /\ HeadOf(l) = "sealed"
         /\ l # captured => ShaOf(l) = "forged" /\ HeadOf(l) = "forged"
<1>1. ChainHead(l) = l /\ ChainHead(captured) = captured
  BY CaptureFacts, HeadIsLog DEF IsLog
<1> QED BY <1>1 DEF ShaOf, HeadOf

LEMMA SealedDigests ==
  ASSUME BundleSound
  PROVE  /\ IsLog(log)
         /\ changed # "log" => log = captured /\ ShaOf(log) = "sealed" /\ HeadOf(log) = "sealed"
         /\ changed = "log" => ShaOf(log) = "forged" /\ HeadOf(log) = "forged"
<1>1. IsLog(log)
  BY CaptureFacts DEF BundleSound, LogOnDisk
<1> QED BY <1>1, Digests DEF BundleSound, LogOnDisk

LEMMA SignIsGenuine ==
  ASSUME NEW l, ShaOf(l) = "sealed", HeadOf(l) = "sealed", NEW att
  PROVE  Genuine(Sign(l, att)) /\ Sign(l, att).att = att
BY DEF Genuine, Sign

LEMMA EnvelopeFacts ==
  ASSUME NEW l, ShaOf(l) = "sealed", NEW rec
  PROVE  /\ Envelope(l, rec).subject = "sealed" /\ Envelope(l, rec).over = Envelope(l, rec).statement
         /\ Envelope(l, rec).statement.subject = "sealed" /\ Envelope(l, rec).statement.att = rec.att
BY DEF Envelope

LEMMA StampFacts ==
  ASSUME NEW rec, Genuine(rec)
  PROVE  /\ Stamp(rec).over = Stamp(rec).imprint /\ Stamp(rec).imprint.att = rec.att
         /\ Stamp(rec).imprint = BoundPayload("sealed", "sealed", rec.att)
BY DEF Stamp, Imprint, Genuine, BoundPayload

LEMMA InitIsSound == Init => BundleSound
<1> SUFFICES ASSUME Init PROVE BundleSound
  OBVIOUS
<1>1. PICK m \in Modes :
        /\ captured = Recorded(m) /\ log = captured /\ record = Sign(captured, 0)
        /\ dsse = IF m = "submit" THEN Absent ELSE Envelope(captured, record)
        /\ token = IF m = "submit" THEN Absent ELSE Stamp(record)
  BY DEF Init
<1>2. /\ packet = [clocks |-> 0, sha |-> "sealed", head |-> "sealed", signature |-> record]
      /\ sidecar = record /\ sealing = "idle" /\ changed = "nothing"
  BY DEF Init
<1>3. Captured
  BY <1>1 DEF Captured
<1>4. ShaOf(captured) = "sealed" /\ HeadOf(captured) = "sealed"
  BY DEF ShaOf, HeadOf
<1>5. Genuine(record) /\ record.att = 0
  BY <1>1, <1>4, SignIsGenuine
<1>6. ASSUME Attested PROVE dsse = Envelope(captured, record) /\ token = Stamp(record)
  BY <1>1, <1>6 DEF Attested
<1>7. SealsAreGenuine
  <2>1. Unforged(packet)
    BY <1>2, <1>5 DEF Unforged
  <2>2. ASSUME Attested
        PROVE  /\ dsse.subject = "sealed" /\ dsse.over = dsse.statement
               /\ token.over = token.imprint
               /\ token.imprint = BoundPayload("sealed", "sealed", token.imprint.att)
    BY <1>4, <1>5, <1>6, <2>2, EnvelopeFacts, StampFacts
  <2> QED BY <1>2, <1>5, <2>1, <2>2 DEF SealsAreGenuine
<1>8. OneSeal
  <2>1. ASSUME Attested PROVE dsse.statement.att = record.att /\ token.imprint.att = record.att
    BY <1>4, <1>5, <1>6, <2>1, EnvelopeFacts, StampFacts
  <2> QED BY <1>2, <1>5, <2>1 DEF OneSeal
<1> QED BY <1>1, <1>2, <1>3, <1>7, <1>8 DEF BundleSound, LogOnDisk

-----------------------------------------------------------------------------
LEMMA EditLogIsSound == ASSUME BundleIInv, BundleSound, EditLog PROVE BundleSound'
<1>1. /\ sealing = "idle" /\ changed = "nothing" /\ changed' = "log"
      /\ UNCHANGED <<captured, packet, sidecar, dsse, token, sealing, record>>
  BY DEF EditLog, Honest
<1>2. log = captured /\ IsLog(captured)
  BY <1>1, CaptureFacts DEF BundleSound, LogOnDisk
<1>3. PICK i \in DOMAIN log : log' \in Edits(log, i)
  BY DEF EditLog
<1>4. IsLog(log') /\ log' # captured
  BY <1>2, <1>3, EditsAreLogs DEF IsLog
<1>5. LogOnDisk'
  BY <1>1, <1>4 DEF LogOnDisk
<1>6. SealsAreGenuine'
  BY <1>1 DEF BundleSound, SealsAreGenuine, Attested
<1>7. OneSeal'
  BY <1>1 DEF BundleSound, OneSeal, Attested
<1> QED BY <1>1, <1>5, <1>6, <1>7 DEF BundleSound, Captured

LEMMA ForgeRecordIsSound == ASSUME BundleIInv, BundleSound, ForgeRecord PROVE BundleSound'
<1>1. /\ sealing = "idle" /\ changed = "nothing" /\ changed' = "record"
      /\ UNCHANGED <<captured, log, sidecar, dsse, token, sealing, record>>
  BY DEF ForgeRecord, Honest
<1>2. packet \in [clocks : Nat, sha : {"sealed", "forged"}, head : {"sealed", "forged"}, signature : Record]
  BY PacketFacts
<1>3. Genuine(packet.signature)
  BY <1>1 DEF BundleSound, SealsAreGenuine, Unforged
<1>4. ~ Unforged(packet') /\ packet'.clocks = packet.clocks
  <2>1. CASE \E f \in {"sha", "head"} : packet' = [packet EXCEPT ![f] = "forged"]
    BY <1>2, <2>1 DEF Unforged
  <2>2. CASE \E f \in {"sha", "head"} : packet' = [packet EXCEPT !.signature[f] = "forged"]
    BY <1>2, <2>2 DEF Unforged, Genuine, Record
  <2>3. CASE packet' = [packet EXCEPT !.signature.att = @ + 100]
    <3>1. packet'.signature.over = packet.signature.over /\ packet'.signature.att = packet.signature.att + 100
      BY <1>2, <2>3 DEF Record
    <3>2. packet.signature.att \in Nat /\ packet.signature.over.att = packet.signature.att
      BY <1>2, <1>3 DEF Record, Genuine, BoundPayload
    <3>3. packet'.signature.over.att # packet'.signature.att
      BY <3>1, <3>2
    <3> QED BY <1>2, <2>3, <3>3 DEF Unforged, Genuine, BoundPayload
  <2>4. CASE packet' = [packet EXCEPT !.signature.over = [@ EXCEPT !.sha = "forged"]]
    <3>1. packet'.signature.over.sha = "forged"
      BY <1>2, <2>4 DEF Record, Payload
    <3> QED BY <1>2, <2>4, <3>1 DEF Unforged, Genuine, BoundPayload
  <2> QED BY <2>1, <2>2, <2>3, <2>4 DEF ForgeRecord
<1>5. LogOnDisk'
  BY <1>1 DEF BundleSound, LogOnDisk
<1>6. SealsAreGenuine'
  BY <1>1, <1>4 DEF BundleSound, SealsAreGenuine, Attested
<1>7. OneSeal'
  BY <1>1, <1>4 DEF BundleSound, OneSeal, Attested
<1> QED BY <1>1, <1>5, <1>6, <1>7 DEF BundleSound, Captured

LEMMA RestoreIsSound == ASSUME BundleIInv, BundleSound, Restore PROVE BundleSound'
<1>1. /\ sealing = "idle" /\ changed \in {"log", "record"} /\ changed' = "nothing" /\ log' = captured
      /\ packet' = [packet EXCEPT !.sha = "sealed", !.head = record.head, !.signature = record]
      /\ UNCHANGED <<captured, sidecar, dsse, token, sealing, record>>
  BY DEF Restore
<1>2. packet \in [clocks : Nat, sha : {"sealed", "forged"}, head : {"sealed", "forged"}, signature : Record]
  BY PacketFacts
<1>3. Genuine(record) /\ record.head = "sealed"
  BY DEF BundleSound, SealsAreGenuine, Genuine
<1>4. /\ packet'.clocks = packet.clocks /\ packet'.sha = "sealed" /\ packet'.head = "sealed"
      /\ packet'.signature = record
  BY <1>1, <1>2, <1>3
<1>5. LogOnDisk'
  BY <1>1 DEF LogOnDisk
<1>6. SealsAreGenuine'
  BY <1>1, <1>3, <1>4 DEF BundleSound, SealsAreGenuine, Attested, Unforged, Genuine
<1>7. OneSeal'
  BY <1>1, <1>4 DEF BundleSound, OneSeal, Attested
<1> QED BY <1>1, <1>5, <1>6, <1>7 DEF BundleSound, Captured

LEMMA ReviseClocksIsSound == ASSUME BundleIInv, BundleSound, ReviseClocks PROVE BundleSound'
<1>1. /\ sealing = "idle" /\ changed = "nothing" /\ changed' = "clocks"
      /\ packet' = [packet EXCEPT !.clocks = @ + 1]
      /\ UNCHANGED <<captured, log, sidecar, dsse, token, sealing, record>>
  BY DEF ReviseClocks, Honest
<1>2. packet \in [clocks : Nat, sha : {"sealed", "forged"}, head : {"sealed", "forged"}, signature : Record]
  BY PacketFacts
<1>3. packet'.sha = packet.sha /\ packet'.head = packet.head /\ packet'.signature = packet.signature
  BY <1>1, <1>2
<1>4. SealsAreGenuine'
  BY <1>1, <1>3 DEF BundleSound, SealsAreGenuine, Attested, Unforged
<1> QED BY <1>1, <1>4 DEF BundleSound, LogOnDisk, OneSeal, Captured

LEMMA SealOnDiskIsSound == ASSUME BundleIInv, BundleSound, SealOnDisk PROVE BundleSound'
<1>1. /\ sealing = "idle" /\ changed # "record" /\ packet.sha = ShaOf(log)
      /\ record' = Sign(log, packet.clocks) /\ sealing' = "packet"
      /\ UNCHANGED <<captured, log, packet, sidecar, dsse, token, changed>>
  BY DEF SealOnDisk, StartReseal, Files
<1>2. changed # "log"
  <2>1. packet.sha = "sealed"
    BY <1>1 DEF BundleSound, SealsAreGenuine, Unforged
  <2> QED BY <1>1, <2>1, SealedDigests
<1>3. Genuine(record') /\ record'.att = packet.clocks
  BY <1>1, <1>2, SealedDigests, SignIsGenuine
<1>4. SealsAreGenuine'
  BY <1>1, <1>3 DEF BundleSound, SealsAreGenuine, Attested, Unforged, Genuine
<1>5. OneSeal'
  BY <1>1, <1>3 DEF OneSeal
<1> QED BY <1>1, <1>2, <1>4, <1>5 DEF BundleSound, LogOnDisk, Captured

LEMMA WritePacketIsSound == ASSUME BundleIInv, BundleSound, WritePacket PROVE BundleSound'
<1>1. /\ sealing = "packet" /\ sealing' = "sidecar"
      /\ packet' = [packet EXCEPT !.head = record.head, !.signature = record]
      /\ UNCHANGED <<captured, log, sidecar, dsse, token, record, changed>>
  BY DEF WritePacket
<1>2. packet \in [clocks : Nat, sha : {"sealed", "forged"}, head : {"sealed", "forged"}, signature : Record]
  BY PacketFacts
<1>3. Genuine(record) /\ record.head = "sealed" /\ packet.sha = "sealed" /\ changed # "record"
  BY <1>1 DEF BundleSound, SealsAreGenuine, Genuine, LogOnDisk, Unforged
<1>4. /\ packet'.clocks = packet.clocks /\ packet'.sha = "sealed" /\ packet'.head = "sealed"
      /\ packet'.signature = record
  BY <1>1, <1>2, <1>3
<1>5. SealsAreGenuine'
  BY <1>1, <1>3, <1>4 DEF BundleSound, SealsAreGenuine, Attested, Unforged, Genuine
<1>6. OneSeal'
  BY <1>1, <1>4 DEF BundleSound, OneSeal
<1>7. LogOnDisk'
  BY <1>1 DEF BundleSound, LogOnDisk
<1> QED BY <1>1, <1>5, <1>6, <1>7 DEF BundleSound, Captured

LEMMA WriteSidecarIsSound == ASSUME BundleIInv, BundleSound, WriteSidecar PROVE BundleSound'
<1>1. /\ sealing = "sidecar" /\ sealing' = "intoto" /\ sidecar' = record
      /\ UNCHANGED <<captured, log, packet, dsse, token, record, changed>>
  BY DEF WriteSidecar
<1>2. SealsAreGenuine'
  BY <1>1 DEF BundleSound, SealsAreGenuine, Attested, Unforged, Genuine
<1>3. OneSeal'
  BY <1>1 DEF BundleSound, OneSeal
<1>4. LogOnDisk'
  BY <1>1 DEF BundleSound, LogOnDisk
<1> QED BY <1>1, <1>2, <1>3, <1>4 DEF BundleSound, Captured

LEMMA WriteIntotoIsSound == ASSUME BundleIInv, BundleSound, WriteIntoto PROVE BundleSound'
<1>1. /\ sealing = "intoto" /\ sealing' = "token" /\ dsse' = Envelope(log, packet.signature)
      /\ UNCHANGED <<captured, log, packet, sidecar, token, record, changed>>
  BY DEF WriteIntoto
<1>2. changed # "log" /\ Attested
  BY <1>1 DEF BundleSound, LogOnDisk, BundleIInv, InHand
<1>3. dsse'.subject = "sealed" /\ dsse'.over = dsse'.statement
  BY <1>1, <1>2, SealedDigests, EnvelopeFacts
<1>4. SealsAreGenuine'
  BY <1>1, <1>2, <1>3 DEF BundleSound, SealsAreGenuine, Unforged, Genuine
<1>5. OneSeal'
  BY <1>1 DEF BundleSound, OneSeal
<1>6. LogOnDisk'
  BY <1>1 DEF BundleSound, LogOnDisk
<1> QED BY <1>1, <1>4, <1>5, <1>6 DEF BundleSound, Captured

LEMMA WriteTokenIsSound == ASSUME BundleIInv, BundleSound, WriteToken PROVE BundleSound'
<1>1. /\ sealing = "token" /\ sealing' = "idle" /\ changed' = "nothing" /\ token' = Stamp(record)
      /\ UNCHANGED <<captured, log, packet, sidecar, dsse, record>>
  BY DEF WriteToken
<1>2. /\ changed \notin {"log", "record"} /\ Attested
      /\ packet.signature = record /\ dsse.statement.att = record.att
      /\ sidecar = record /\ record.att = packet.clocks
  BY <1>1 DEF BundleSound, LogOnDisk, OneSeal, BundleIInv, InHand
<1>3. /\ token'.over = token'.imprint /\ token'.imprint.att = record.att
      /\ token'.imprint = BoundPayload("sealed", "sealed", token'.imprint.att)
  BY <1>1, StampFacts DEF BundleSound, SealsAreGenuine
<1>4. SealsAreGenuine'
  BY <1>1, <1>2, <1>3 DEF BundleSound, SealsAreGenuine, Unforged, Genuine
<1>5. OneSeal'
  BY <1>1, <1>2, <1>3 DEF OneSeal
<1>6. LogOnDisk'
  BY <1>1, <1>2 DEF BundleSound, LogOnDisk
<1> QED BY <1>1, <1>4, <1>5, <1>6 DEF BundleSound, Captured

LEMMA CrashIsSound == ASSUME BundleIInv, BundleSound, Crash PROVE BundleSound'
<1>1. /\ sealing # "idle" /\ sealing' = "idle" /\ changed' = "clocks"
      /\ UNCHANGED <<captured, log, packet, sidecar, dsse, token, record>>
  BY DEF Crash, Files
<1>2. changed \notin {"log", "record"}
  BY <1>1 DEF BundleSound, LogOnDisk
<1>3. SealsAreGenuine'
  BY <1>1, <1>2 DEF BundleSound, SealsAreGenuine, Attested, Unforged, Genuine
<1>4. OneSeal'
  BY <1>1 DEF OneSeal
<1>5. LogOnDisk'
  BY <1>1, <1>2 DEF BundleSound, LogOnDisk
<1> QED BY <1>1, <1>3, <1>4, <1>5 DEF BundleSound, Captured

-----------------------------------------------------------------------------
LEMMA StepIsSound == BundleIInv /\ BundleSound /\ [CaseNext]_allVars => BundleSound'
<1> SUFFICES ASSUME BundleIInv, BundleSound, [CaseNext]_allVars PROVE BundleSound'
  OBVIOUS
<1>1. CASE UNCHANGED vars
  BY <1>1 DEF vars, BundleSound, Captured, LogOnDisk, SealsAreGenuine, OneSeal, Attested
<1>2. CASE UNCHANGED allVars
  BY <1>1, <1>2 DEF allVars
<1>3. CASE \/ BuildCasefile \/ SignAssertion \/ MakeWhatif
           \/ AlterCasefile \/ AlterAssertion \/ AlterSubmission \/ AlterReceipt \/ Discard
  BY <1>1, <1>3 DEF BuildCasefile, SignAssertion, MakeWhatif, AlterCasefile, AlterAssertion,
                    AlterSubmission, AlterReceipt, Discard
<1>4. CASE Sealing(EditLog)
  BY <1>4, EditLogIsSound DEF Sealing
<1>5. CASE Sealing(ForgeRecord)
  BY <1>5, ForgeRecordIsSound DEF Sealing
<1>6. CASE Sealing(Restore)
  BY <1>6, RestoreIsSound DEF Sealing
<1>7. CASE Sealing(ReviseClocks)
  BY <1>7, ReviseClocksIsSound DEF Sealing
<1>8. CASE Sealing(SealOnDisk)
  BY <1>8, SealOnDiskIsSound DEF Sealing
<1>9. CASE Sealing(WritePacket)
  BY <1>9, WritePacketIsSound DEF Sealing
<1>10. CASE Sealing(WriteSidecar)
  BY <1>10, WriteSidecarIsSound DEF Sealing
<1>11. CASE Sealing(WriteIntoto)
  BY <1>11, WriteIntotoIsSound DEF Sealing
<1>12. CASE Sealing(WriteToken)
  BY <1>12, WriteTokenIsSound DEF Sealing
<1>13. CASE Sealing(Crash)
  BY <1>13, CrashIsSound DEF Sealing
<1> QED BY <1>2, <1>3, <1>4, <1>5, <1>6, <1>7, <1>8, <1>9, <1>10, <1>11, <1>12, <1>13 DEF CaseNext

-----------------------------------------------------------------------------
LEMMA LiveLogReplays ==
  ASSUME Captured
  PROVE  /\ WellFormed(captured) /\ Replay(captured) = captured
         /\ ExactlyOnce(captured) /\ TwoKeyRelease(captured) /\ ClockMonotonic(captured)
BY CaptureFacts DEF CaptureIsSound

LEMMA UntouchedPacketVerifies ==
  ASSUME BundleSound, changed \notin {"log", "record"}
  PROVE  /\ SweepLoads(log, packet) /\ AuditRun(log, packet)
         /\ packet.signature.sha = ShaOf(log) /\ packet.signature.head = HeadOf(log)
         /\ VerifyRunLog(log, packet.signature)
<1>1. log = captured /\ ShaOf(log) = "sealed" /\ HeadOf(log) = "sealed"
  BY SealedDigests
<1>2. packet.sha = "sealed" /\ packet.head = "sealed" /\ Genuine(packet.signature)
  BY DEF BundleSound, SealsAreGenuine, Unforged
<1>3. VerifyRunLog(log, packet.signature)
  BY <1>1, <1>2 DEF VerifyRunLog, Genuine
<1> QED BY <1>1, <1>2, <1>3, LiveLogReplays DEF SweepLoads, AuditRun, Genuine, BundleSound

LEMMA HonestIsAccepted == BundleIInv /\ BundleSound => HonestSealVerifies
<1> SUFFICES ASSUME BundleSound, Honest PROVE AllAccept
  BY DEF HonestSealVerifies
<1>1. sealing = "idle" /\ changed = "nothing"
  BY DEF Honest
<1>2. SweepLoads(log, packet) /\ AuditRun(log, packet)
  BY <1>1, UntouchedPacketVerifies
<1>3. ShaOf(log) = "sealed" /\ HeadOf(log) = "sealed"
  BY <1>1, SealedDigests
<1>4. packet.signature = record /\ sidecar = record /\ Genuine(record)
  BY <1>1 DEF BundleSound, OneSeal, SealsAreGenuine
<1>5. VerifySignature
  BY <1>3, <1>4 DEF VerifySignature, VerifyRunLog, Genuine
<1>6. ASSUME Attested PROVE VerifyEnvelope(log, dsse) /\ VerifyToken(token, record)
  <2>1. dsse.subject = "sealed" /\ dsse.over = dsse.statement
    BY <1>6 DEF BundleSound, SealsAreGenuine
  <2>2. token.over = token.imprint /\ token.imprint = BoundPayload("sealed", "sealed", record.att)
    BY <1>1, <1>6 DEF BundleSound, SealsAreGenuine, OneSeal
  <2> QED BY <1>3, <1>4, <2>1, <2>2 DEF VerifyEnvelope, VerifyToken, Imprint, Genuine
<1>7. VerifyThirdparty
  BY <1>1, <1>4, <1>6, UntouchedPacketVerifies DEF VerifyThirdparty
<1> QED BY <1>2, <1>4, <1>5, <1>6, <1>7 DEF AllAccept, VerifyIntoto, VerifyTimestamp

LEMMA EditIsRefused == BundleSound => EditNeverPasses
<1> SUFFICES ASSUME BundleSound, changed = "log"
             PROVE  EditNeverPasses
  BY DEF EditNeverPasses
<1>1. /\ IsLog(log) /\ IsLog(captured) /\ log # captured
      /\ ShaOf(log) = "forged" /\ HeadOf(log) = "forged"
  BY SealedDigests, CaptureFacts DEF BundleSound, LogOnDisk
<1>2. packet.head = "sealed" /\ packet.signature.sha = "sealed"
  BY DEF BundleSound, SealsAreGenuine, Unforged, Genuine
<1>3. FirstCatch(log, record) # "none"
  BY <1>1 DEF FirstCatch
<1>4. ~ AuditRun(log, packet) /\ ~ VerifyThirdparty
  BY <1>1, <1>2 DEF AuditRun, VerifyThirdparty
<1>5. LET chain == ChainOver(captured)
          differs == {i \in DOMAIN log \cap DOMAIN chain : log[i] # captured[i]}
      IN  FirstBroken(log, chain) =
            IF differs = {} THEN Min({Len(log), Len(chain)}) ELSE Min(differs) - 1
  BY <1>1, ChainBreaksAtDifference DEF IsLog
<1>6. ASSUME DOMAIN log = DOMAIN captured,
             \A i \in DOMAIN log : log[i].type = captured[i].type /\ InputsOf(log[i]) = InputsOf(captured[i])
      PROVE  Replay(log) # log
  <2>1. \A i \in DOMAIN captured : AskTheSame(log[i], captured[i]) /\ Readable(captured[i])
    BY <1>6, LiveLogReplays DEF AskTheSame, WellFormed, BundleSound
  <2>2. Replay(log) = Replay(captured)
    BY <1>1, <1>6, <2>1, ReplayReadsInputs DEF IsLog
  <2>3. Replay(captured) = captured
    BY LiveLogReplays DEF BundleSound
  <2> QED BY <1>1, <2>2, <2>3
<1> QED BY <1>3, <1>4, <1>5, <1>6, Zenon DEF EditNeverPasses, InputsOf, VERDICT

LEMMA ForgeryIsSeen == BundleSound => ForgedRecordIsSeen
<1> SUFFICES ASSUME BundleSound, changed = "record",
                    SweepLoads(log, packet), VerifyThirdparty
             PROVE  FALSE
  BY DEF ForgedRecordIsSeen
<1>1. ShaOf(log) = "sealed" /\ HeadOf(log) = "sealed"
  BY SealedDigests
<1>2. packet.sha = "sealed" /\ packet.head = "sealed" /\ VerifyRunLog(log, packet.signature)
  BY <1>1 DEF SweepLoads
<1>3. packet.signature.sha = "sealed" /\ packet.signature.head = "sealed"
  BY <1>1 DEF VerifyThirdparty
<1>4. Unforged(packet)
  BY <1>1, <1>2, <1>3 DEF Unforged, Genuine, VerifyRunLog
<1> QED BY <1>4 DEF BundleSound, SealsAreGenuine

\* The honest seal is accepted by all, and no edited log and no altered record by
\* those that are to notice it: in every state of a bundle, for any captured run
\* that replays to itself.
THEOREM VerifiersTellApart == CaseSpec => []VerifiersAreExact
<1>1. CaseInit => BundleSound
  BY InitIsSound DEF CaseInit
<1>2. BundleIInv /\ BundleSound => VerifiersAreExact
  BY HonestIsAccepted, EditIsRefused, ForgeryIsSeen DEF VerifiersAreExact
<1> QED BY <1>1, <1>2, StepIsSound, CaseInvariant, PTL DEF CaseSpec

-----------------------------------------------------------------------------
(***************************************************************************)
(* The receipts: as they were made, or recognisably not.                   *)
(***************************************************************************)
LEMMA CaseFilesAreGenuine ==
  ASSUME BundleSound, changed \notin {"log", "record"}
  PROVE  GenuineCase(Casefile)
<1>1. ShaOf(log) = "sealed" /\ Unforged(packet)
  BY SealedDigests DEF BundleSound, SealsAreGenuine
<1>2. DOMAIN Rows = Sealed \cup Derived
  BY DEF Rows
<1>3. "run_log" \in Sealed /\ "packet" \in Sealed
  BY DEF Sealed
<1>4. Rows["run_log"] = "sealed" /\ Rows["packet"] = <<packet, submissions>>
  BY <1>1, <1>3 DEF Rows, Digest
<1> HIDE DEF Rows
<1>5. Casefile.manifest.rows = Rows
  BY DEF Casefile, Manifest
<1> QED BY <1>1, <1>2, <1>4, <1>5 DEF GenuineCase, Casefile, Manifest

LEMMA AssertionsAreGenuine ==
  ASSUME BundleIInv
  PROVE  /\ DOMAIN SignedAssertion = {"digest", "over"}
         /\ DOMAIN SignedAssertion.digest = {"period", "chain_head"}
         /\ SignedAssertion.digest.period \in Nat /\ SignedAssertion.over = SignedAssertion.digest
BY PacketFacts DEF SignedAssertion, Document

LEMMA Questions ==
  Question \in {"amended_count_unchanged", "contradiction_not_caught", "none", "sec_materiality_6h_later"}
BY DEF Question

LEMMA AnswersAreGenuine ==
  ASSUME BundleSound, changed # "log", Question # "none"
  PROVE  GenuineWhatif(Artifact)
<1>1. HeadOf(log) = "sealed"
  BY SealedDigests
<1>2. "actual" \in DOMAIN Outcome
  <2>1. CASE Question = "sec_materiality_6h_later"
    BY <2>1 DEF Outcome, SecMaterialityLater
  <2>2. CASE Question = "contradiction_not_caught"
    BY <2>2 DEF Outcome, ContradictionNotCaught
  <2>3. CASE Question = "amended_count_unchanged"
    BY <2>3 DEF Outcome, AmendedCountUnchanged
  <2> QED BY <2>1, <2>2, <2>3, Questions
<1> QED BY <1>1, <1>2 DEF GenuineWhatif, Artifact, SignCounterfactual

LEMMA InitReceiptsStand == CaseInit /\ BundleIInv /\ BundleSound => ReceiptsStand
<1> SUFFICES ASSUME CaseInit, BundleIInv, BundleSound PROVE ReceiptsStand
  OBVIOUS
<1>1. /\ submissions = Submissions /\ casefile = Casefile /\ assertion = SignedAssertion
      /\ altered = "nothing" /\ changed = "nothing"
      /\ Question # "none" => whatif = Artifact
  BY DEF CaseInit, Init, WhatifInit
<1>2. CasefileStands
  BY <1>1, CaseFilesAreGenuine DEF CasefileStands
<1>3. AssertionStands
  BY <1>1, AssertionsAreGenuine DEF AssertionStands
<1>4. WhatifStands
  BY <1>1, AnswersAreGenuine DEF WhatifStands
<1> QED BY <1>1, <1>2, <1>3, <1>4 DEF ReceiptsStand, SubmissionsStand

\* What a run is does not change: what was captured, whether it is attested, what
\* it submitted and what is asked of it.
LEMMA RunStaysTheSame ==
  ASSUME BundleIInv, [CaseNext]_allVars
  PROVE  captured' = captured /\ Attested' = Attested /\ Submissions' = Submissions /\ Question' = Question
<1>1. captured' = captured /\ Attested' = Attested
  <2>1. [Next]_vars
    BY CaseStepIsBundleStep
  <2>2. CASE WriteIntoto
    <3>1. Attested /\ captured' = captured
      BY <2>2 DEF WriteIntoto, BundleIInv, InHand
    <3>2. BundleIInv'
      BY <2>1, StepKeeps
    <3>3. token' = token
      BY <2>2 DEF WriteIntoto
    <3>4. token # Absent
      BY <3>1 DEF BundleIInv, BundleTypeOK
    <3>5. Attested'
      BY <3>2, <3>3, <3>4 DEF BundleIInv, BundleTypeOK, Absent
    <3> QED BY <3>1, <3>5
  <2>3. CASE WriteToken
    BY <2>3 DEF WriteToken, Attested
  <2>4. CASE Next /\ ~ WriteIntoto /\ ~ WriteToken
    BY <2>4 DEF Next, Reseal, EditLog, ForgeRecord, Restore, ReviseClocks, StartReseal, WritePacket,
                WriteSidecar, Crash, Files, Attested
  <2>5. CASE UNCHANGED vars
    BY <2>5 DEF vars, Attested
  <2> QED BY <2>1, <2>2, <2>3, <2>4, <2>5
<1>2. Submissions' = Submissions
  BY <1>1 DEF Submissions
<1>3. Question' = Question
  BY <1>1 DEF Question
<1> QED BY <1>1, <1>2, <1>3

LEMMA ReceiptsLeftAlone ==
  ASSUME ReceiptsStand, UNCHANGED caseVars, altered # "nothing" => Honest',
         captured' = captured, Attested' = Attested, Submissions' = Submissions, Question' = Question
  PROVE  ReceiptsStand'
<1>1. UNCHANGED <<casefile, assertion, submissions, whatif, altered>>
  BY DEF caseVars
<1>2. Sealed' = Sealed
  BY DEF Sealed
<1>3. CasefileStands'
  BY <1>1, <1>2 DEF ReceiptsStand, CasefileStands, GenuineCase, CheckBundleSignature
<1>4. AssertionStands'
  BY <1>1 DEF ReceiptsStand, AssertionStands
<1>5. SubmissionsStand'
  BY <1>1 DEF ReceiptsStand, SubmissionsStand
<1>6. WhatifStands'
  BY <1>1 DEF ReceiptsStand, WhatifStands, GenuineWhatif, VerifyWhatIf
<1> QED BY <1>1, <1>3, <1>4, <1>5, <1>6 DEF ReceiptsStand

-----------------------------------------------------------------------------
\* The parts of ReceiptsStand, each of which reads a receipt of its own.
LEMMA CasefileLeftAlone ==
  ASSUME CasefileStands, casefile' = casefile, Attested' = Attested,
         altered' \in {"casefile", "copy"} <=> altered \in {"casefile", "copy"},
         altered' = "casefile" <=> altered = "casefile"
  PROVE  CasefileStands'
BY DEF CasefileStands, GenuineCase, CheckBundleSignature, Sealed

LEMMA AssertionLeftAlone ==
  ASSUME AssertionStands, assertion' = assertion, altered' = "assertion" <=> altered = "assertion"
  PROVE  AssertionStands'
BY DEF AssertionStands

LEMMA SubmissionsLeftAlone ==
  ASSUME SubmissionsStand, submissions' = submissions, Submissions' = Submissions,
         altered' = "submission" <=> altered = "submission"
  PROVE  SubmissionsStand'
BY DEF SubmissionsStand

LEMMA WhatifLeftAlone ==
  ASSUME WhatifStands, whatif' = whatif, Question' = Question,
         altered' = "whatif" <=> altered = "whatif"
  PROVE  WhatifStands'
BY DEF WhatifStands, GenuineWhatif, VerifyWhatIf

LEMMA BuildCasefileStands == ASSUME CaseIInv, BuildCasefile PROVE ReceiptsStand'
<1>1. /\ altered = "nothing" /\ altered' = "nothing" /\ changed \notin {"log", "record"}
      /\ casefile' = Casefile /\ UNCHANGED <<vars, assertion, submissions, whatif>>
  BY DEF BuildCasefile, Untouched
<1>2. captured' = captured /\ Attested' = Attested /\ Submissions' = Submissions /\ Question' = Question
  BY RunStaysTheSame DEF CaseNext, CaseIInv
<1>3. CasefileStands'
  <2>1. GenuineCase(Casefile)
    BY <1>1, CaseFilesAreGenuine DEF CaseIInv
  <2> HIDE DEF Casefile
  <2>2. GenuineCase(casefile)'
    BY <1>1, <1>2, <2>1 DEF GenuineCase, Sealed
  <2> QED BY <1>1, <2>2 DEF CasefileStands
<1> QED BY <1>1, <1>2, <1>3, AssertionLeftAlone, SubmissionsLeftAlone, WhatifLeftAlone
        DEF CaseIInv, ReceiptsStand

LEMMA SignAssertionStands == ASSUME CaseIInv, SignAssertion PROVE ReceiptsStand'
<1>1. /\ altered = "nothing" /\ altered' = "nothing"
      /\ assertion' = SignedAssertion /\ UNCHANGED <<vars, casefile, submissions, whatif>>
  BY DEF SignAssertion, Untouched
<1>2. captured' = captured /\ Attested' = Attested /\ Submissions' = Submissions /\ Question' = Question
  BY RunStaysTheSame DEF CaseNext, CaseIInv
<1>3. AssertionStands'
  <2> HIDE DEF SignedAssertion
  <2> QED BY <1>1, AssertionsAreGenuine DEF CaseIInv, AssertionStands
<1> QED BY <1>1, <1>2, <1>3, CasefileLeftAlone, SubmissionsLeftAlone, WhatifLeftAlone
        DEF CaseIInv, ReceiptsStand

LEMMA MakeWhatifStands == ASSUME CaseIInv, MakeWhatif PROVE ReceiptsStand'
<1>1. /\ altered = "nothing" /\ altered' = "nothing" /\ changed \notin {"log", "record"}
      /\ Question # "none" /\ whatif' = Artifact
      /\ UNCHANGED <<vars, casefile, assertion, submissions>>
  BY DEF MakeWhatif, Untouched, ReportWhatif
<1>2. captured' = captured /\ Attested' = Attested /\ Submissions' = Submissions /\ Question' = Question
  BY RunStaysTheSame DEF CaseNext, CaseIInv
<1>3. WhatifStands'
  <2>1. GenuineWhatif(Artifact)
    BY <1>1, AnswersAreGenuine DEF CaseIInv
  <2> HIDE DEF Artifact
  <2>2. GenuineWhatif(whatif)'
    BY <1>1, <1>2, <2>1 DEF GenuineWhatif
  <2> QED BY <1>1, <2>2 DEF WhatifStands
<1> QED BY <1>1, <1>2, <1>3, CasefileLeftAlone, AssertionLeftAlone, SubmissionsLeftAlone
        DEF CaseIInv, ReceiptsStand

LEMMA AlterCasefileStands == ASSUME CaseIInv, AlterCasefile PROVE ReceiptsStand'
<1>1. /\ altered = "nothing" /\ Honest /\ Honest'
      /\ altered' \in {"casefile", "copy"} /\ UNCHANGED <<vars, assertion, submissions, whatif>>
  BY DEF AlterCasefile, Honest, vars
<1>2. captured' = captured /\ Attested' = Attested /\ Submissions' = Submissions /\ Question' = Question
  BY RunStaysTheSame DEF CaseNext, CaseIInv
<1>3. GenuineCase(casefile)
  BY <1>1 DEF CaseIInv, ReceiptsStand, CasefileStands
<1>4. ASSUME altered' = "casefile"
      PROVE  ~ SameManifest(casefile'.over, casefile'.manifest)
  <2> DEFINE m == casefile.manifest
             dropped == [role \in DOMAIN m.rows \ {"packet"} |-> m.rows[role]]
             edited == [m.rows EXCEPT !["run_log"] = "forged"]
  <2>1. "packet" \in DOMAIN m.rows /\ "run_log" \in DOMAIN m.rows /\ m.rows["run_log"] = "sealed"
    BY <1>3 DEF GenuineCase, Sealed
  <2>2. PICK rows \in {dropped, edited} :
          casefile' \in { [casefile EXCEPT !.manifest = Manifest(rows)],
                          [casefile EXCEPT !.manifest.rows = rows],
                          [casefile EXCEPT !.over = Manifest(rows)] }
    BY <1>4 DEF AlterCasefile
  <2>3. DOMAIN rows # DOMAIN m.rows \/ rows["run_log"] # m.rows["run_log"]
    <3>1. CASE rows = dropped
      <4>1. DOMAIN rows = DOMAIN m.rows \ {"packet"}
        BY <3>1
      <4> HIDE DEF m, dropped, edited
      <4> QED BY <2>1, <4>1
    <3>2. CASE rows = edited
      <4>1. rows["run_log"] = "forged"
        BY <2>1, <3>2
      <4> QED BY <2>1, <4>1
    <3> QED BY <2>2, <3>1, <3>2
  <2> HIDE DEF dropped, edited
  <2>4. \/ casefile'.over.rows = m.rows /\ casefile'.manifest.rows = rows
        \/ casefile'.over.rows = rows /\ casefile'.manifest.rows = m.rows
    <3>1. DOMAIN casefile = {"manifest", "over", "copies"} /\ DOMAIN casefile.manifest = {"rows", "root"}
          /\ casefile.over = casefile.manifest
      BY <1>3 DEF GenuineCase
    <3>2. CASE casefile' = [casefile EXCEPT !.manifest = Manifest(rows)]
      BY <3>1, <3>2 DEF Manifest
    <3>3. CASE casefile' = [casefile EXCEPT !.manifest.rows = rows]
      BY <3>1, <3>3 DEF Manifest
    <3>4. CASE casefile' = [casefile EXCEPT !.over = Manifest(rows)]
      BY <3>1, <3>4 DEF Manifest
    <3> QED BY <2>2, <3>2, <3>3, <3>4
  <2>5. SUFFICES ASSUME SameManifest(casefile'.over, casefile'.manifest) PROVE FALSE
    OBVIOUS
  <2>6. /\ DOMAIN casefile'.over.rows = DOMAIN casefile'.manifest.rows
        /\ \A role \in DOMAIN casefile'.over.rows : casefile'.over.rows[role] = casefile'.manifest.rows[role]
    BY <2>5 DEF SameManifest
  <2> QED BY <2>1, <2>3, <2>4, <2>6
<1>5. CasefileStands'
  BY <1>1, <1>4 DEF CasefileStands, CheckBundleSignature
<1> QED BY <1>1, <1>2, <1>5, AssertionLeftAlone, SubmissionsLeftAlone, WhatifLeftAlone
        DEF CaseIInv, ReceiptsStand

LEMMA AlterAssertionStands == ASSUME CaseIInv, AlterAssertion PROVE ReceiptsStand'
<1>1. /\ altered = "nothing" /\ Honest /\ Honest'
      /\ altered' = "assertion" /\ UNCHANGED <<vars, casefile, submissions, whatif>>
  BY DEF AlterAssertion, Honest, vars
<1>2. captured' = captured /\ Attested' = Attested /\ Submissions' = Submissions /\ Question' = Question
  BY RunStaysTheSame DEF CaseNext, CaseIInv
<1>3. /\ DOMAIN assertion = {"digest", "over"} /\ DOMAIN assertion.digest = {"period", "chain_head"}
      /\ assertion.digest.period \in Nat /\ assertion.over = assertion.digest
  BY <1>1 DEF CaseIInv, ReceiptsStand, AssertionStands
<1>4. assertion'.digest # assertion'.over
  <2>1. PICK part \in {"digest", "over"} : assertion' = [assertion EXCEPT ![part].period = @ + 100]
    BY DEF AlterAssertion
  <2>2. assertion.digest.period + 100 # assertion.digest.period
    BY <1>3
  <2>3. CASE part = "digest"
    <3>1. assertion'.digest.period = assertion.digest.period + 100 /\ assertion'.over = assertion.over
      BY <1>3, <2>1, <2>3
    <3> QED BY <1>3, <2>2, <3>1
  <2>4. CASE part = "over"
    <3>1. assertion'.over.period = assertion.digest.period + 100 /\ assertion'.digest = assertion.digest
      BY <1>3, <2>1, <2>4
    <3> QED BY <1>3, <2>2, <3>1
  <2> QED BY <2>3, <2>4
<1>5. AssertionStands'
  BY <1>1, <1>4 DEF AssertionStands
<1> QED BY <1>1, <1>2, <1>5, CasefileLeftAlone, SubmissionsLeftAlone, WhatifLeftAlone
        DEF CaseIInv, ReceiptsStand

LEMMA AlterSubmissionStands == ASSUME CaseIInv, AlterSubmission PROVE ReceiptsStand'
<1>1. /\ altered = "nothing" /\ Honest /\ Honest'
      /\ altered' = "submission" /\ UNCHANGED <<vars, casefile, assertion, whatif>>
  BY DEF AlterSubmission, Honest, vars
<1>2. captured' = captured /\ Attested' = Attested /\ Submissions' = Submissions /\ Question' = Question
  BY RunStaysTheSame DEF CaseNext, CaseIInv
<1>3. submissions = Submissions
  BY <1>1 DEF CaseIInv, ReceiptsStand, SubmissionsStand
<1>4. PICK regime \in DOMAIN submissions :
        submissions' \in
          {[submissions EXCEPT ![regime].artifact = "forged"]}
          \cup { [submissions EXCEPT ![regime].receipt[f] = Forged(f, @)] : f \in ComparedFields }
  BY DEF AlterSubmission
<1>5. \/ submissions' = [Submissions' EXCEPT ![regime].artifact = "forged"]
      \/ \E f \in ComparedFields : submissions' = [Submissions' EXCEPT ![regime].receipt[f] = Forged(f, @)]
  <2> HIDE DEF Submissions
  <2> QED BY <1>2, <1>3, <1>4, Zenon
<1>6. SubmissionsStand'
  <2>1. regime \in DOMAIN Submissions'
    BY <1>2, <1>3, <1>4
  <2> HIDE DEF Submissions
  <2> QED BY <1>1, <1>5, <2>1 DEF SubmissionsStand
<1> QED BY <1>1, <1>2, <1>6, CasefileLeftAlone, AssertionLeftAlone, WhatifLeftAlone
        DEF CaseIInv, ReceiptsStand

LEMMA AlterReceiptStands == ASSUME CaseIInv, AlterReceipt PROVE ReceiptsStand'
<1>1. /\ altered = "nothing" /\ Honest /\ Honest' /\ Question # "none"
      /\ altered' = "whatif" /\ UNCHANGED <<vars, casefile, assertion, submissions>>
  BY DEF AlterReceipt, AlterWhatif, Honest, vars
<1>2. captured' = captured /\ Attested' = Attested /\ Submissions' = Submissions /\ Question' = Question
  BY RunStaysTheSame DEF CaseNext, CaseIInv
<1>3. GenuineWhatif(whatif)
  BY <1>1 DEF CaseIInv, ReceiptsStand, WhatifStands
<1>4. \/ whatif' = [whatif EXCEPT !.outcome = [forged |-> TRUE]]
      \/ whatif' = [whatif EXCEPT !.head = "forged"]
      \/ whatif' = [whatif EXCEPT !.signature["named"] = "forged"]
      \/ whatif' = [whatif EXCEPT !.signature["anchor"] = "forged"]
      \/ whatif' = [whatif EXCEPT !.signature.digest = [forged |-> TRUE]]
      \/ whatif' = [whatif EXCEPT !.signature.over.actual_chain_head = "forged"]
  BY DEF AlterReceipt, AlterWhatif
<1>5. DOMAIN whatif = {"outcome", "head", "signature"}
      /\ DOMAIN whatif.signature = {"named", "anchor", "digest", "over"}
      /\ whatif.signature.over = CounterfactualPayload(Question, "sealed", whatif.outcome)
      /\ whatif.signature.digest = whatif.outcome
  BY <1>3 DEF GenuineWhatif
<1>6. whatif.outcome # [forged |-> TRUE]
  <2>1. "actual" \in DOMAIN whatif.outcome /\ "actual" \notin DOMAIN [forged |-> TRUE]
    BY <1>3 DEF GenuineWhatif
  <2> QED BY <2>1
<1>7. \/ ~ VerifyWhatIf' \/ whatif'.head # "sealed"
      \/ whatif'.signature.over.actual_chain_head # "sealed"
  <2>1. CASE whatif' = [whatif EXCEPT !.outcome = [forged |-> TRUE]]
    <3>1. whatif'.outcome # whatif'.signature.digest
      BY <1>5, <1>6, <2>1
    <3> QED BY <3>1 DEF VerifyWhatIf
  <2>2. CASE whatif' = [whatif EXCEPT !.head = "forged"]
    BY <1>5, <2>2
  <2>3. CASE whatif' = [whatif EXCEPT !.signature["named"] = "forged"]
    <3>1. whatif'.signature.named = "forged" /\ whatif'.signature.over.counterfactual = Question
      BY <1>5, <2>3 DEF CounterfactualPayload
    <3> QED BY <3>1, Questions DEF VerifyWhatIf, CounterfactualPayload
  <2>4. CASE whatif' = [whatif EXCEPT !.signature["anchor"] = "forged"]
    <3>1. whatif'.signature.anchor = "forged" /\ whatif'.signature.over.actual_chain_head = "sealed"
      BY <1>5, <2>4 DEF CounterfactualPayload
    <3> QED BY <3>1 DEF VerifyWhatIf, CounterfactualPayload
  <2>5. CASE whatif' = [whatif EXCEPT !.signature.digest = [forged |-> TRUE]]
    <3>1. whatif'.outcome # whatif'.signature.digest
      BY <1>5, <1>6, <2>5
    <3> QED BY <3>1 DEF VerifyWhatIf
  <2>6. CASE whatif' = [whatif EXCEPT !.signature.over.actual_chain_head = "forged"]
    <3>1. whatif'.signature.over.actual_chain_head = "forged"
      BY <1>5, <2>6 DEF CounterfactualPayload
    <3> QED BY <3>1
  <2> QED BY <1>4, <2>1, <2>2, <2>3, <2>4, <2>5, <2>6
<1>8. WhatifStands'
  BY <1>1, <1>7 DEF WhatifStands
<1> QED BY <1>1, <1>2, <1>8, CasefileLeftAlone, AssertionLeftAlone, SubmissionsLeftAlone
        DEF CaseIInv, ReceiptsStand

LEMMA DiscardStands == ASSUME CaseIInv, Discard PROVE ReceiptsStand'
<1>1. /\ altered # "nothing" /\ altered' = "nothing" /\ changed = "nothing"
      /\ casefile' = IF altered \in {"casefile", "copy"} THEN Casefile ELSE casefile
      /\ assertion' = IF altered = "assertion" THEN SignedAssertion ELSE assertion
      /\ submissions' = Submissions
      /\ whatif' = IF altered = "whatif" THEN Artifact ELSE whatif
      /\ UNCHANGED vars
  BY DEF Discard, CaseIInv, ReceiptsStand, Honest
<1>2. captured' = captured /\ Attested' = Attested /\ Submissions' = Submissions /\ Question' = Question
  BY RunStaysTheSame DEF CaseNext, CaseIInv
<1>3. CasefileStands'
  <2>1. GenuineCase(casefile')
    <3> HIDE DEF Casefile
    <3> QED BY <1>1, CaseFilesAreGenuine DEF CaseIInv, ReceiptsStand, CasefileStands
  <2>2. GenuineCase(casefile)'
    BY <1>2, <2>1 DEF GenuineCase, Sealed
  <2> QED BY <1>1, <2>2 DEF CasefileStands
<1>4. AssertionStands'
  <2> HIDE DEF SignedAssertion
  <2> QED BY <1>1, AssertionsAreGenuine DEF CaseIInv, ReceiptsStand, AssertionStands
<1>5. SubmissionsStand'
  BY <1>1, <1>2 DEF SubmissionsStand
<1>6. WhatifStands'
  <2>1. Question # "none" => GenuineWhatif(whatif')
    <3> HIDE DEF Artifact
    <3> QED BY <1>1, AnswersAreGenuine DEF CaseIInv, ReceiptsStand, WhatifStands
  <2>2. Question # "none" => GenuineWhatif(whatif)'
    BY <1>2, <2>1 DEF GenuineWhatif
  <2> QED BY <1>1, <1>2, <2>2 DEF WhatifStands
<1> QED BY <1>1, <1>3, <1>4, <1>5, <1>6 DEF ReceiptsStand

LEMMA StepStands == CaseIInv /\ [CaseNext]_allVars => CaseIInv'
<1> SUFFICES ASSUME CaseIInv, [CaseNext]_allVars PROVE CaseIInv'
  OBVIOUS
<1>1. BundleIInv' /\ BundleSound'
  BY StepKeeps, CaseStepIsBundleStep, StepIsSound DEF CaseIInv
<1>2. captured' = captured /\ Attested' = Attested /\ Submissions' = Submissions /\ Question' = Question
  BY RunStaysTheSame DEF CaseIInv
<1>3. CASE UNCHANGED allVars
  <2>1. Honest' = Honest
    BY <1>3 DEF allVars, vars, Honest
  <2>2. ReceiptsStand'
    BY <1>2, <1>3, <2>1, ReceiptsLeftAlone DEF CaseIInv, ReceiptsStand, allVars
  <2> QED BY <1>1, <2>2 DEF CaseIInv
<1>4. ASSUME altered = "nothing", UNCHANGED caseVars PROVE CaseIInv'
  <2>1. ReceiptsStand'
    BY <1>2, <1>4, ReceiptsLeftAlone DEF CaseIInv
  <2> QED BY <1>1, <2>1 DEF CaseIInv
<1>5. CASE BuildCasefile \/ SignAssertion \/ MakeWhatif
  BY <1>1, <1>5, BuildCasefileStands, SignAssertionStands, MakeWhatifStands DEF CaseIInv
<1>6. CASE AlterCasefile \/ AlterAssertion \/ AlterSubmission \/ AlterReceipt \/ Discard
  BY <1>1, <1>6, AlterCasefileStands, AlterAssertionStands, AlterSubmissionStands, AlterReceiptStands,
     DiscardStands DEF CaseIInv
<1> QED BY <1>3, <1>4, <1>5, <1>6 DEF CaseNext, Sealing

\* The files of a bundle and every receipt made of them: written in order, genuine
\* unless something was altered, and recognisably altered otherwise.
THEOREM ReceiptInvariant == CaseSpec => []CaseIInv
<1>1. CaseInit => CaseIInv
  BY InitEstablishes, InitIsSound, InitReceiptsStand DEF CaseInit, CaseIInv
<1> QED BY <1>1, StepStands, PTL DEF CaseSpec

-----------------------------------------------------------------------------
(***************************************************************************)
(* What the receipts are worth.                                            *)
(***************************************************************************)
LEMMA CasefilesAreExact == CaseIInv => CasefileIsExact
<1> SUFFICES ASSUME CaseIInv PROVE CasefileIsExact
  OBVIOUS
<1>1. ASSUME Honest, altered = "nothing", SameManifest(casefile.manifest, Manifest(Rows))
      PROVE  VerifyCasefile
  <2>1. GenuineCase(casefile)
    BY <1>1 DEF CaseIInv, ReceiptsStand, CasefileStands
  <2>2. AuditRun(log, packet)
    BY <1>1, UntouchedPacketVerifies DEF CaseIInv, Honest
  <2>3. CheckBundleSignature
    BY <2>1 DEF GenuineCase, CheckBundleSignature, SameManifest
  <2>4. \A role \in DOMAIN casefile.manifest.rows : casefile.manifest.rows[role] = Digest(role)
    <3>1. /\ DOMAIN casefile.manifest.rows = DOMAIN Rows
          /\ \A role \in DOMAIN casefile.manifest.rows : casefile.manifest.rows[role] = Rows[role]
      BY <1>1 DEF SameManifest, Manifest
    <3>2. \A role \in DOMAIN Rows : Rows[role] = Digest(role)
      BY DEF Rows
    <3> QED BY <3>1, <3>2
  <2>5. CheckManifest
    BY <2>1, <2>4 DEF CheckManifest, RecomputedRow, GenuineCase
  <2> QED BY <2>2, <2>3, <2>5 DEF VerifyCasefile
<1>2. altered = "casefile" => ~ VerifyCasefile
  BY DEF CaseIInv, ReceiptsStand, CasefileStands, VerifyCasefile
<1>3. ASSUME VerifyCasefile, altered # "copy"
      PROVE  /\ GenuineCase(casefile)
             /\ \A role \in DOMAIN casefile.copies : casefile.copies[role] = Digest(role)
  <2>1. GenuineCase(casefile)
    BY <1>2, <1>3 DEF CaseIInv, ReceiptsStand, CasefileStands
  <2>2. \A role \in DOMAIN casefile.manifest.rows : Digest(role) = casefile.manifest.rows[role]
    BY <1>3 DEF VerifyCasefile, CheckManifest, RecomputedRow
  <2> QED BY <2>1, <2>2 DEF GenuineCase
<1>4. ASSUME VerifyCasefile, sealing = "idle", changed # "clocks"
      PROVE  VerifyThirdparty
  <2>1. CASE changed = "nothing"
    BY <1>4, <2>1, HonestIsAccepted DEF CaseIInv, HonestSealVerifies, Honest, AllAccept
  <2>2. CASE changed = "log" \/ changed = "record"
    <3>1. altered = "nothing"
      BY <2>2 DEF CaseIInv, ReceiptsStand, Honest
    <3>2. GenuineCase(casefile) /\ \A role \in DOMAIN casefile.copies : casefile.copies[role] = Digest(role)
      BY <1>3, <1>4, <3>1
    <3>3. /\ "run_log" \in DOMAIN casefile.copies /\ "packet" \in DOMAIN casefile.copies
          /\ casefile.copies["run_log"] = "sealed" /\ Unforged(casefile.copies["packet"][1])
      BY <3>2 DEF GenuineCase, Sealed
    <3>4. Digest("run_log") = "sealed" /\ Unforged(Digest("packet")[1])
      BY <3>2, <3>3
    <3>5. ShaOf(log) = "sealed" /\ Unforged(packet)
      BY <3>4 DEF Digest
    <3> QED BY <2>2, <3>5, SealedDigests DEF CaseIInv, BundleSound, SealsAreGenuine
  <2>3. changed \in Changes
    BY DEF CaseIInv, BundleIInv, BundleTypeOK
  <2> QED BY <1>4, <2>1, <2>2, <2>3 DEF Changes
<1> QED BY <1>1, <1>2, <1>3, <1>4 DEF CasefileIsExact

LEMMA AssertionsAreExact == CaseIInv => AssertionIsExact
<1> SUFFICES ASSUME CaseIInv, Attested PROVE AssertionIsExact
  BY DEF AssertionIsExact
<1>1. altered = "assertion" => ~ VerifyAssertion
  BY DEF CaseIInv, ReceiptsStand, AssertionStands, VerifyAssertion
<1>2. ASSUME Honest, VerifyAssertion
      PROVE  assertion.digest = [period |-> packet.signature.att, chain_head |-> packet.signature.head]
  <2>1. packet.signature = record /\ record.att = packet.clocks
    BY <1>2 DEF CaseIInv, BundleSound, OneSeal, Honest
  <2>2. packet.head = "sealed" /\ packet.signature.head = "sealed"
    BY <1>2 DEF CaseIInv, BundleSound, SealsAreGenuine, Honest, Unforged, Genuine
  <2> QED BY <1>2, <2>1, <2>2 DEF VerifyAssertion, Document
<1> QED BY <1>1, <1>2 DEF AssertionIsExact

LEMMA WhatifsAreExact == CaseIInv => WhatifIsExact
<1> SUFFICES ASSUME CaseIInv, Question # "none" PROVE WhatifIsExact
  BY DEF WhatifIsExact
<1>1. altered # "whatif" => GenuineWhatif(whatif)
  BY DEF CaseIInv, ReceiptsStand, WhatifStands
<1>2. changed # "log" => HeadOf(log) = "sealed" /\ log = captured
  BY SealedDigests DEF CaseIInv
<1>3. altered # "whatif" => VerifyWhatIf
  BY <1>1 DEF GenuineWhatif, VerifyWhatIf
<1>4. ASSUME Honest, altered # "whatif", whatif.outcome = Outcome PROVE CheckWhatif
  <2>1. HeadOf(log) = "sealed" /\ log = captured
    BY <1>2, <1>4 DEF Honest
  <2>2. ~ ReplayRaises(log)
    BY <2>1, LiveLogReplays DEF CaseIInv, BundleSound, WellFormed, ReplayRaises
  <2> QED BY <1>1, <1>4, <2>1, <2>2 DEF CheckWhatif, GenuineWhatif
<1>5. altered = "whatif" => ~ (CheckWhatif /\ VerifyWhatIf)
  <2> SUFFICES ASSUME altered = "whatif", CheckWhatif, VerifyWhatIf PROVE FALSE
    OBVIOUS
  <2>1. HeadOf(log) = "sealed"
    BY <1>2 DEF CaseIInv, ReceiptsStand, Honest
  <2>2. whatif.head = "sealed" /\ whatif.signature.over.actual_chain_head = "sealed"
    BY <2>1 DEF CheckWhatif, CounterfactualPayload
  <2> QED BY <2>2 DEF CaseIInv, ReceiptsStand, WhatifStands
<1>6. changed = "log" => ~ CheckWhatif
  <2> SUFFICES ASSUME changed = "log" PROVE ~ CheckWhatif
    OBVIOUS
  <2>1. altered = "nothing" /\ HeadOf(log) = "forged"
    BY SealedDigests DEF CaseIInv, ReceiptsStand, Honest
  <2> QED BY <1>1, <2>1 DEF CheckWhatif, GenuineWhatif
<1> QED BY <1>3, <1>4, <1>5, <1>6 DEF WhatifIsExact

-----------------------------------------------------------------------------
LEMMA CapturedReceipts ==
  ASSUME Captured, NEW j \in At(captured, "submission_receipt")
  PROVE  ReceiptIsSound(captured[j].payload)
BY ReceiptsAssumption DEF Captured

LEMMA ReceiptFields ==
  ASSUME NEW regime, NEW sha
  PROVE  /\ DOMAIN Receipt(regime, sha) =
              {"regime", "channel", "modeled_filing_id", "accepted_at", "artifact_sha256", "status"}
         /\ Receipt(regime, sha).regime = regime /\ Receipt(regime, sha).status = "accepted"
         /\ Receipt(regime, sha).artifact_sha256 = sha /\ Receipt(regime, sha).accepted_at \in Nat
         /\ Receipt(regime, sha).modeled_filing_id = FilingId(regime, sha)
<1> HIDE DEF FilingId
<1> QED BY DEF Receipt, TS

\* A regime of the packet is that of a receipt of the log, and shows that receipt.
LEMMA SubmissionsFacts ==
  ASSUME Captured
  PROVE  /\ DOMAIN Submissions = { captured[i].payload.regime : i \in At(captured, "submission_receipt") }
         /\ \A regime \in DOMAIN Submissions :
              /\ Submissions[regime] = [artifact |-> ArtifactOf(regime), receipt |-> Receipt(regime, ArtifactOf(regime))]
              /\ Submissions[regime].artifact = ArtifactOf(regime)
              /\ Submissions[regime].receipt = Receipt(regime, ArtifactOf(regime))
         /\ \A j \in At(captured, "submission_receipt") :
              /\ captured[j].payload.regime \in DOMAIN Submissions
              /\ captured[j].payload.regime # "none"
              /\ captured[j].payload =
                   Receipt(captured[j].payload.regime, ArtifactOf(captured[j].payload.regime))
<1> HIDE DEF ArtifactOf, Receipt
<1>1. /\ DOMAIN Submissions = { captured[i].payload.regime : i \in At(captured, "submission_receipt") }
      /\ \A regime \in DOMAIN Submissions :
           /\ Submissions[regime] = [artifact |-> ArtifactOf(regime), receipt |-> Receipt(regime, ArtifactOf(regime))]
           /\ Submissions[regime].artifact = ArtifactOf(regime)
           /\ Submissions[regime].receipt = Receipt(regime, ArtifactOf(regime))
  BY DEF Submissions
<1>2. ASSUME NEW j \in At(captured, "submission_receipt")
      PROVE  /\ captured[j].payload.regime \in DOMAIN Submissions
             /\ captured[j].payload.regime # "none"
             /\ captured[j].payload =
                  Receipt(captured[j].payload.regime, ArtifactOf(captured[j].payload.regime))
  BY <1>1, CapturedReceipts DEF ReceiptIsSound
<1> QED BY <1>1, <1>2

LEMMA FiledReceiptVerifies ==
  ASSUME NEW regime
  PROVE  VerifyReceipt(Receipt(regime, ArtifactOf(regime)), ArtifactOf(regime))
<1> HIDE DEF ArtifactOf, Receipt, FilingId
<1> QED BY ReceiptFields DEF VerifyReceipt, Get

\* A forged value of a receipt is another value.
LEMMA ForgedIsAnother ==
  ASSUME NEW p, ReceiptIsSound(p), NEW f \in ComparedFields
  PROVE  Forged(f, p[f]) # p[f]
<1> HIDE DEF ArtifactOf, Receipt, FilingId
<1>1. /\ p.status = "accepted" /\ p.artifact_sha256 # "forged" /\ p.modeled_filing_id # "forged"
      /\ p.accepted_at \in Nat
  BY ReceiptFields DEF ReceiptIsSound
<1>2. CASE f = "accepted_at"
  <2>1. Forged(f, p[f]) = p.accepted_at + 1
    BY <1>2 DEF Forged
  <2> QED BY <1>1, <1>2, <2>1
<1>3. CASE f \in {"modeled_filing_id", "artifact_sha256", "status"}
  <2>1. Forged(f, p[f]) = "forged"
    BY <1>3 DEF Forged
  <2> QED BY <1>1, <1>3, <2>1
<1> QED BY <1>2, <1>3 DEF ComparedFields

LEMMA SubmissionsAreExact == CaseIInv => SubmissionIsExact
<1> SUFFICES ASSUME CaseIInv, DOMAIN submissions # {} PROVE SubmissionIsExact
  BY DEF SubmissionIsExact
<1> DEFINE filed == At(captured, "submission_receipt")
<1>1. Captured
  BY DEF CaseIInv, BundleSound
<1>2. /\ DOMAIN Submissions = { captured[i].payload.regime : i \in filed }
      /\ \A regime \in DOMAIN Submissions :
           /\ Submissions[regime] = [artifact |-> ArtifactOf(regime), receipt |-> Receipt(regime, ArtifactOf(regime))]
           /\ Submissions[regime].artifact = ArtifactOf(regime)
           /\ Submissions[regime].receipt = Receipt(regime, ArtifactOf(regime))
      /\ \A j \in filed :
           /\ captured[j].payload.regime \in DOMAIN Submissions
           /\ captured[j].payload.regime # "none"
           /\ captured[j].payload = Receipt(captured[j].payload.regime, ArtifactOf(captured[j].payload.regime))
  BY <1>1, SubmissionsFacts
<1> HIDE DEF filed, Submissions, ArtifactOf, Receipt, FilingId
<1>3. ASSUME changed # "log", altered # "submission" PROVE VerifySubmission
  <2>1. log = captured /\ submissions = Submissions
    BY <1>3 DEF CaseIInv, BundleSound, LogOnDisk, ReceiptsStand, SubmissionsStand
  <2>2. filed # {}
    BY <1>2, <2>1
  <2>3. ASSUME NEW i \in filed
        PROVE  LET entry == captured[i].payload
                   regime == Get(entry, "regime", "none")
               IN  /\ regime \in DOMAIN submissions
                   /\ SameReceipt(submissions[regime].receipt, entry)
                   /\ VerifyReceipt(entry, submissions[regime].artifact)
    <3> DEFINE p == captured[i].payload
    <3>1. p.regime \in DOMAIN Submissions /\ p = Receipt(p.regime, ArtifactOf(p.regime))
      BY <1>2
    <3>2. Get(p, "regime", "none") = p.regime
      BY <3>1, ReceiptFields DEF Get
    <3>3. submissions[p.regime].receipt = p /\ submissions[p.regime].artifact = ArtifactOf(p.regime)
      <4> HIDE DEF p
      <4> QED BY <1>2, <2>1, <3>1
    <3>4. VerifyReceipt(p, ArtifactOf(p.regime))
      BY <3>1, FiledReceiptVerifies
    <3>5. SameReceipt(p, p)
      BY DEF SameReceipt
    <3> HIDE DEF p
    <3>6. LET regime == Get(p, "regime", "none")
          IN  /\ regime \in DOMAIN submissions
              /\ SameReceipt(submissions[regime].receipt, p)
              /\ VerifyReceipt(p, submissions[regime].artifact)
      BY <2>1, <3>1, <3>2, <3>3, <3>4, <3>5
    <3> QED BY <3>6 DEF p
  <2> QED BY <2>1, <2>2, <2>3 DEF VerifySubmission, filed
<1>4. ASSUME altered = "submission" PROVE ~ VerifySubmission
  <2>1. log = captured
    BY <1>4 DEF CaseIInv, BundleSound, LogOnDisk, ReceiptsStand, Honest
  <2>2. PICK g \in DOMAIN Submissions :
          \/ submissions = [Submissions EXCEPT ![g].artifact = "forged"]
          \/ \E f \in ComparedFields : submissions = [Submissions EXCEPT ![g].receipt[f] = Forged(f, @)]
    BY <1>4 DEF CaseIInv, ReceiptsStand, SubmissionsStand
  <2>3. PICK i \in filed : captured[i].payload.regime = g
    BY <1>2
  <2> DEFINE p == captured[i].payload
  <2>4. ReceiptIsSound(p) /\ p = Receipt(g, ArtifactOf(g)) /\ Get(p, "regime", "none") = g
    BY <1>1, <1>2, <2>3, CapturedReceipts, ReceiptFields DEF filed, Get
  <2>5. Submissions[g] = [artifact |-> ArtifactOf(g), receipt |-> p]
    BY <1>2, <2>4
  <2> HIDE DEF p
  <2>6. VerifySubmission => SameReceipt(submissions[g].receipt, p) /\ VerifyReceipt(p, submissions[g].artifact)
    BY <2>1, <2>3, <2>4 DEF VerifySubmission, filed, p
  <2>7. CASE submissions = [Submissions EXCEPT ![g].artifact = "forged"]
    <3>1. submissions[g].artifact = "forged"
      BY <2>5, <2>7
    <3>2. Get(p, "artifact_sha256", "none") = ArtifactOf(g) /\ ArtifactOf(g) # "forged"
      <4>1. p.regime = g /\ p.artifact_sha256 = ArtifactOf(g) /\ "artifact_sha256" \in DOMAIN p
        BY <2>4, ReceiptFields
      <4> QED BY <2>4, <4>1 DEF Get, ReceiptIsSound
    <3> QED BY <2>6, <3>1, <3>2 DEF VerifyReceipt
  <2>8. CASE \E f \in ComparedFields : submissions = [Submissions EXCEPT ![g].receipt[f] = Forged(f, @)]
    <3>1. PICK f \in ComparedFields : submissions = [Submissions EXCEPT ![g].receipt[f] = Forged(f, @)]
      BY <2>8
    <3>2. f \in DOMAIN p
      BY <2>4, ReceiptFields DEF ComparedFields
    <3>3. submissions[g].receipt[f] = Forged(f, p[f]) /\ f \in DOMAIN submissions[g].receipt
      BY <2>5, <3>1, <3>2
    <3>4. Forged(f, p[f]) # p[f]
      BY <2>4, ForgedIsAnother
    <3> QED BY <2>6, <3>2, <3>3, <3>4 DEF SameReceipt
  <2> QED BY <2>2, <2>7, <2>8
<1>5. ASSUME VerifySubmission, NEW i \in At(log, "submission_receipt")
      PROVE  \E j \in filed : /\ SameReceipt(log[i].payload, captured[j].payload)
                              /\ log[i].payload.regime = captured[j].payload.regime
  <2>1. submissions = Submissions
    BY <1>4, <1>5 DEF CaseIInv, ReceiptsStand, SubmissionsStand
  <2> DEFINE q == log[i].payload
             g == Get(q, "regime", "none")
  <2>2. g \in DOMAIN Submissions /\ SameReceipt(Submissions[g].receipt, q)
    BY <1>5, <2>1 DEF VerifySubmission
  <2>3. PICK j \in filed : captured[j].payload.regime = g
    BY <1>2, <2>2
  <2>4. captured[j].payload = Submissions[g].receipt /\ g # "none"
    <3> HIDE DEF q, g
    <3> QED BY <1>2, <2>2, <2>3
  <2>5. q.regime = g
    BY <2>4 DEF Get
  <2> HIDE DEF q, g
  <2>6. SameReceipt(q, captured[j].payload)
    BY <2>2, <2>4 DEF SameReceipt
  <2> QED BY <2>3, <2>5, <2>6 DEF q
<1> QED BY <1>3, <1>4, <1>5 DEF SubmissionIsExact, filed

-----------------------------------------------------------------------------
\* Of every receipt an examiner is handed, with the log and its seals: what was
\* made of an honest bundle verifies, and what was altered does not.
THEOREM ReceiptsTellApart ==
  CaseSpec => [](CasefileIsExact /\ AssertionIsExact /\ SubmissionIsExact /\ WhatifIsExact)
BY ReceiptInvariant, CasefilesAreExact, AssertionsAreExact, SubmissionsAreExact, WhatifsAreExact, PTL

\* With the figures of the answers, which are computed by recursion over a calendar
\* and a log and are left to the run, everything that it checks of the receipts.
THEOREM ReceiptsExact == CaseSpec /\ []AnswersTellTheRun => []ReceiptsAreExact
<1>1. VerifiersAreExact /\ CasefileIsExact /\ AssertionIsExact /\ SubmissionIsExact /\ WhatifIsExact
      /\ AnswersTellTheRun => ReceiptsAreExact
  BY DEF ReceiptsAreExact
<1> QED BY <1>1, VerifiersTellApart, ReceiptsTellApart, PTL

-----------------------------------------------------------------------------
(***************************************************************************)
(* The console: the timeline of the page.                                  *)
(***************************************************************************)
\* A bounded set of naturals that is not empty has a largest member.
LEMMA MaxIs ==
  ASSUME NEW n \in Nat, NEW S \in SUBSET (1..n), S # {}
  PROVE  Max(S) \in S /\ \A j \in S : j <= Max(S)
  <1> DEFINE R == { pair \in Nat \X Nat : pair[1] < pair[2] }
             G == { k \in Nat : n - k \in S }
  <1>1. G \subseteq Nat /\ G # {}
    <2>1. PICK i \in S : i \in 1..n
      OBVIOUS
    <2>2. n - i \in Nat /\ n - (n - i) = i
      BY <2>1
    <2>3. QED
      BY <2>1, <2>2
  <1>2. PICK m \in G : \A k \in G : ~(<<k, m>> \in R)
    <2>1. IsWellFoundedOn(R, Nat)
      BY NatLessThanWellFounded, Zenon DEF OpToRel
    <2> HIDE DEF R, G
    <2>2. QED
      BY <1>1, <2>1, WFMin
  <1>3. m \in Nat /\ n - m \in S
    BY <1>2
  <1>4. ASSUME NEW j \in S PROVE j <= n - m
    <2>1. j \in 1..n /\ n - j \in Nat /\ n - (n - j) = j
      OBVIOUS
    <2>2. n - j \in G
      BY <2>1
    <2>3. ~(n - j < m)
      BY <1>2, <1>3, <2>1, <2>2
    <2>4. QED
      BY <1>3, <2>1, <2>3
  <1>5. QED
    BY <1>3, <1>4 DEF Max

\* The words of the steps, what a step can say of the branches, and the steps.
Words == {"none", "draft", "diff_blocked", "diff_passed", "chaos", "fact_amended", "amend_blocked",
          "propose", "concur", "human_released", "clock_started", "fact_record", "final",
          "contradiction", "contradiction_cleared", "reconciliation",
          "blocked", "contradiction_checked", "amending", "released"}
Sayings == {Nothing} \cup { [x \in {b} |-> "draft_submitted"] : b \in Branches }
             \cup { All(state) : state \in Words } \cup { Reopened(state) : state \in Words }
Marks == [kind : Words, sets : Sayings, banner : Words, reveal : Words]

\* A step that is played before the release, and one that is played from it on.
Before(e) == e.kind # "human_released"
Later(e) == \A b \in DOMAIN e.sets : e.sets[b] \in {"released", "amending"}

\* The beats a step shows, and that the packet records them.
Shows(e) == ({e.reveal} \ {"none"}) \cup ({e.banner} \cap {"contradiction", "reconciliation"})
Told(e, s) == Shows(e) \subseteq Beats[s]

Early(q, s) == q \in Seq(Marks) /\ \A i \in 1..Len(q) : Before(q[i]) /\ Told(q[i], s)
Late(q, s) == q \in Seq(Marks) /\ \A i \in 1..Len(q) : Later(q[i]) /\ Told(q[i], s)
ShownIn(q, beat) == \E i \in 1..Len(q) : beat \in Shows(q[i])

LEMMA Concat ==
  ASSUME NEW S, NEW a \in Seq(S), NEW b \in Seq(S)
  PROVE  /\ a \o b \in Seq(S) /\ Len(a) \in Nat /\ Len(b) \in Nat
         /\ Len(a \o b) = Len(a) + Len(b)
         /\ \A i \in 1..Len(a) : i \in 1..(Len(a) + Len(b)) /\ (a \o b)[i] = a[i]
         /\ \A i \in 1..Len(b) : Len(a) + i \in 1..(Len(a) + Len(b)) /\ (a \o b)[Len(a) + i] = b[i]
         /\ \A i \in 1..(Len(a) + Len(b)) :
              \/ i \in 1..Len(a) /\ (a \o b)[i] = a[i]
              \/ i - Len(a) \in 1..Len(b) /\ (a \o b)[i] = b[i - Len(a)]
  <1>1. a \o b \in Seq(S) /\ Len(a) \in Nat /\ Len(b) \in Nat
        /\ Len(a \o b) = Len(a) + Len(b)
    OBVIOUS
  <1>2. QED
    BY <1>1

LEMMA StepIs ==
  ASSUME NEW kind \in Words, NEW sets \in Sayings,
         NEW banner \in Words, NEW reveal \in Words
  PROVE  /\ Step(kind, sets, banner, reveal) \in Marks
         /\ Step(kind, sets, banner, reveal).kind = kind
         /\ Step(kind, sets, banner, reveal).sets = sets
         /\ Step(kind, sets, banner, reveal).banner = banner
         /\ Step(kind, sets, banner, reveal).reveal = reveal
  BY DEF Step, Marks

LEMMA SayingsAre ==
  /\ Nothing \in Sayings /\ DOMAIN Nothing = {}
  /\ \A b \in Branches : [x \in {b} |-> "draft_submitted"] \in Sayings
  /\ \A state \in Words :
       /\ All(state) \in Sayings /\ Reopened(state) \in Sayings
       /\ DOMAIN All(state) = Branches
       /\ \A b \in DOMAIN All(state) : All(state)[b] = state
       /\ \A b \in DOMAIN Reopened(state) : Reopened(state)[b] = state
  <1>1. /\ Nothing \in Sayings
        /\ \A b \in Branches : [x \in {b} |-> "draft_submitted"] \in Sayings
        /\ \A state \in Words : All(state) \in Sayings /\ Reopened(state) \in Sayings
    BY DEF Sayings
  <1>2. /\ DOMAIN Nothing = {}
        /\ \A state \in Words :
             /\ DOMAIN All(state) = Branches
             /\ \A b \in DOMAIN All(state) : All(state)[b] = state
             /\ \A b \in DOMAIN Reopened(state) : Reopened(state)[b] = state
    BY DEF Nothing, All, Reopened
  <1>3. QED
    BY <1>1, <1>2

LEMMA PlainIs ==
  ASSUME NEW kind \in Words
  PROVE  /\ Plain(kind) \in Marks /\ Plain(kind).kind = kind
         /\ Later(Plain(kind)) /\ Shows(Plain(kind)) = {}
  <1>1. /\ Plain(kind) \in Marks /\ Plain(kind).kind = kind /\ Plain(kind).sets = Nothing
        /\ Plain(kind).banner = "none" /\ Plain(kind).reveal = "none"
    <2>1. Nothing \in Sayings /\ "none" \in Words
      BY SayingsAre DEF Words
    <2>2. QED
      BY <2>1, StepIs DEF Plain
  <1>2. QED
    BY <1>1, SayingsAre DEF Later, Shows

LEMMA DraftIs ==
  ASSUME NEW b \in Branches
  PROVE  /\ DraftStep(b) \in Marks /\ DraftStep(b).kind = "draft" /\ Shows(DraftStep(b)) = {}
  <1> DEFINE sets == [x \in {b} |-> "draft_submitted"]
  <1>1. sets \in Sayings
    BY SayingsAre
  <1>2. DraftStep(b) = Step("draft", sets, "none", "none")
    BY DEF DraftStep
  <1> HIDE DEF sets
  <1>3. /\ DraftStep(b) \in Marks /\ DraftStep(b).kind = "draft"
        /\ DraftStep(b).banner = "none" /\ DraftStep(b).reveal = "none"
    <2>1. "draft" \in Words /\ "none" \in Words
      BY DEF Words
    <2>2. QED
      BY <1>1, <1>2, <2>1, StepIs
  <1>4. QED
    BY <1>3 DEF Shows

LEMMA AllIs ==
  ASSUME NEW kind \in Words, NEW state \in Words, NEW banner \in Words, NEW reveal \in Words
  PROVE  LET e == Step(kind, All(state), banner, reveal)
         IN /\ e \in Marks /\ e.kind = kind /\ e.sets = All(state)
            /\ e.banner = banner /\ e.reveal = reveal
            /\ state \in {"released", "amending"} => Later(e)
  <1> DEFINE e == Step(kind, All(state), banner, reveal)
  <1>1. /\ e \in Marks /\ e.kind = kind /\ e.sets = All(state)
        /\ e.banner = banner /\ e.reveal = reveal
    BY SayingsAre, StepIs
  <1> HIDE DEF e
  <1>2. state \in {"released", "amending"} => Later(e)
    BY <1>1, SayingsAre DEF Later
  <1>3. QED
    BY <1>1, <1>2 DEF e

LEMMA ReopenedIs ==
  ASSUME NEW kind \in Words, NEW state \in Words, NEW banner \in Words, NEW reveal \in Words
  PROVE  LET e == Step(kind, Reopened(state), banner, reveal)
         IN /\ e \in Marks /\ e.kind = kind /\ e.banner = banner /\ e.reveal = reveal
            /\ state \in {"released", "amending"} => Later(e)
  <1> DEFINE e == Step(kind, Reopened(state), banner, reveal)
  <1>1. /\ e \in Marks /\ e.kind = kind /\ e.sets = Reopened(state)
        /\ e.banner = banner /\ e.reveal = reveal
    BY SayingsAre, StepIs
  <1> HIDE DEF e
  <1>2. state \in {"released", "amending"} => Later(e)
    BY <1>1, SayingsAre DEF Later
  <1>3. QED
    BY <1>1, <1>2 DEF e

LEMMA BareIs ==
  ASSUME NEW kind \in Words, NEW banner \in Words, NEW reveal \in Words
  PROVE  LET e == Step(kind, Nothing, banner, reveal)
         IN /\ e \in Marks /\ e.kind = kind /\ e.banner = banner /\ e.reveal = reveal
            /\ Later(e)
  <1> DEFINE e == Step(kind, Nothing, banner, reveal)
  <1>1. /\ e \in Marks /\ e.kind = kind /\ e.sets = Nothing
        /\ e.banner = banner /\ e.reveal = reveal
    <2>1. Nothing \in Sayings
      BY SayingsAre
    <2>2. QED
      BY <2>1, StepIs
  <1> HIDE DEF e
  <1>2. Later(e)
    BY <1>1, SayingsAre DEF Later
  <1>3. QED
    BY <1>1, <1>2 DEF e

LEMMA EarlyJoins ==
  ASSUME NEW s, NEW a, NEW b, Early(a, s), Early(b, s)
  PROVE  /\ Early(a \o b, s)
         /\ \A beat : ShownIn(a, beat) \/ ShownIn(b, beat) => ShownIn(a \o b, beat)
  <1>1. a \in Seq(Marks) /\ b \in Seq(Marks)
    BY DEF Early
  <1> DEFINE c == a \o b
  <1>2. /\ c \in Seq(Marks) /\ Len(a) \in Nat /\ Len(b) \in Nat
        /\ Len(c) = Len(a) + Len(b)
        /\ \A i \in 1..Len(a) : i \in 1..(Len(a) + Len(b)) /\ c[i] = a[i]
        /\ \A i \in 1..Len(b) : Len(a) + i \in 1..(Len(a) + Len(b)) /\ c[Len(a) + i] = b[i]
        /\ \A i \in 1..(Len(a) + Len(b)) :
             \/ i \in 1..Len(a) /\ c[i] = a[i]
             \/ i - Len(a) \in 1..Len(b) /\ c[i] = b[i - Len(a)]
    BY <1>1, Concat
  <1> HIDE DEF c
  <1>3. Early(c, s)
    BY <1>2 DEF Early
  <1>4. \A beat : ShownIn(a, beat) \/ ShownIn(b, beat) => ShownIn(c, beat)
    BY <1>2 DEF ShownIn
  <1>5. QED
    BY <1>3, <1>4 DEF c

LEMMA LateJoins ==
  ASSUME NEW s, NEW a, NEW b, Late(a, s), Late(b, s)
  PROVE  /\ Late(a \o b, s)
         /\ \A beat : ShownIn(a, beat) \/ ShownIn(b, beat) => ShownIn(a \o b, beat)
  <1>1. a \in Seq(Marks) /\ b \in Seq(Marks)
    BY DEF Late
  <1> DEFINE c == a \o b
  <1>2. /\ c \in Seq(Marks) /\ Len(a) \in Nat /\ Len(b) \in Nat
        /\ Len(c) = Len(a) + Len(b)
        /\ \A i \in 1..Len(a) : i \in 1..(Len(a) + Len(b)) /\ c[i] = a[i]
        /\ \A i \in 1..Len(b) : Len(a) + i \in 1..(Len(a) + Len(b)) /\ c[Len(a) + i] = b[i]
        /\ \A i \in 1..(Len(a) + Len(b)) :
             \/ i \in 1..Len(a) /\ c[i] = a[i]
             \/ i - Len(a) \in 1..Len(b) /\ c[i] = b[i - Len(a)]
    BY <1>1, Concat
  <1> HIDE DEF c
  <1>3. Late(c, s)
    BY <1>2 DEF Late
  <1>4. \A beat : ShownIn(a, beat) \/ ShownIn(b, beat) => ShownIn(c, beat)
    BY <1>2 DEF ShownIn
  <1>5. QED
    BY <1>3, <1>4 DEF c

\* The steps before the release.
LEMMA FirstSteps ==
  ASSUME NEW s \in Scenarios
  PROVE  LET q == << Plain("clock_started"), Plain("fact_record"),
                     DraftStep("nis2"), DraftStep("sec"), DraftStep("dora") >>
         IN Early(q, s) /\ Len(q) = 5
  <1>1. /\ "clock_started" \in Words /\ "fact_record" \in Words
        /\ "nis2" \in Branches /\ "sec" \in Branches /\ "dora" \in Branches
    BY DEF Words, Branches
  <1> DEFINE Fits(e) == e \in Marks /\ Before(e) /\ Told(e, s)
  <1>2. Fits(Plain("clock_started")) /\ Fits(Plain("fact_record"))
    BY <1>1, PlainIs DEF Before, Told
  <1>3. Fits(DraftStep("nis2")) /\ Fits(DraftStep("sec")) /\ Fits(DraftStep("dora"))
    BY <1>1, DraftIs DEF Before, Told
  <1>4. QED
    BY <1>2, <1>3 DEF Early

LEMMA DiffIs ==
  ASSUME NEW s \in Scenarios
  PROVE  /\ Early(DiffSteps(s), s)
         /\ "contradiction" \in Beats[s] => ShownIn(DiffSteps(s), "contradiction")
  <1> DEFINE e == Step("diff_blocked", All("blocked"), "contradiction", "contradiction")
             f == Step("diff_passed", All("contradiction_checked"), "contradiction_cleared", "none")
  <1>1. /\ e \in Marks /\ e.kind = "diff_blocked"
        /\ e.banner = "contradiction" /\ e.reveal = "contradiction"
    <2>1. "diff_blocked" \in Words /\ "blocked" \in Words /\ "contradiction" \in Words
      BY DEF Words
    <2>2. QED
      BY <2>1, AllIs
  <1>2. /\ f \in Marks /\ f.kind = "diff_passed"
        /\ f.banner = "contradiction_cleared" /\ f.reveal = "none"
    <2>1. /\ "diff_passed" \in Words /\ "contradiction_checked" \in Words
          /\ "contradiction_cleared" \in Words /\ "none" \in Words
      BY DEF Words
    <2>2. QED
      BY <2>1, AllIs
  <1>3. /\ Plain("diff_passed") \in Marks /\ Before(Plain("diff_passed"))
        /\ Told(Plain("diff_passed"), s)
    <2>1. "diff_passed" \in Words
      BY DEF Words
    <2>2. QED
      BY <2>1, PlainIs DEF Before, Told
  <1>4. CASE "contradiction" \in Beats[s]
    <2>1. DiffSteps(s) = <<e, f>>
      BY <1>4 DEF DiffSteps, ScenarioHasBeat
    <2> HIDE DEF e, f
    <2>2. Before(e) /\ Before(f) /\ Told(e, s) /\ Told(f, s) /\ "contradiction" \in Shows(e)
      BY <1>1, <1>2, <1>4 DEF Before, Told, Shows
    <2>3. Early(<<e, f>>, s)
      BY <1>1, <1>2, <2>2 DEF Early
    <2>4. ShownIn(<<e, f>>, "contradiction")
      BY <2>2 DEF ShownIn
    <2>5. QED
      BY <2>1, <2>3, <2>4
  <1>5. CASE "contradiction" \notin Beats[s]
    <2>1. DiffSteps(s) = <<Plain("diff_passed")>>
      BY <1>5 DEF DiffSteps, ScenarioHasBeat
    <2>2. QED
      BY <1>3, <1>5, <2>1 DEF Early
  <1>6. QED
    BY <1>4, <1>5

LEMMA ChaosIs ==
  ASSUME NEW s \in Scenarios
  PROVE  /\ Early(ChaosSteps(s), s)
         /\ "chaos" \in Beats[s] => ShownIn(ChaosSteps(s), "chaos")
  <1> DEFINE e == Step("chaos", Nothing, "chaos", "chaos")
  <1>1. e \in Marks /\ e.kind = "chaos" /\ e.banner = "chaos" /\ e.reveal = "chaos"
    <2>1. "chaos" \in Words
      BY DEF Words
    <2>2. QED
      BY <2>1, BareIs
  <1>2. CASE "chaos" \in Beats[s]
    <2>1. ChaosSteps(s) = <<e>>
      BY <1>2 DEF ChaosSteps, ScenarioHasBeat
    <2> HIDE DEF e
    <2>2. Before(e) /\ Told(e, s) /\ "chaos" \in Shows(e)
      BY <1>1, <1>2 DEF Before, Told, Shows
    <2>3. Early(<<e>>, s) /\ ShownIn(<<e>>, "chaos")
      BY <1>1, <2>2 DEF Early, ShownIn
    <2>4. QED
      BY <2>1, <2>3
  <1>3. CASE "chaos" \notin Beats[s]
    <2>1. ChaosSteps(s) = <<>>
      BY <1>3 DEF ChaosSteps, ScenarioHasBeat
    <2>2. QED
      BY <1>3, <2>1 DEF Early
  <1>4. QED
    BY <1>2, <1>3

LEMMA AmendmentIs ==
  ASSUME NEW s \in Scenarios
  PROVE  /\ Late(AmendmentSteps(s), s)
         /\ "reconciliation" \in Beats[s] => ShownIn(AmendmentSteps(s), "reconciliation")
  <1> DEFINE a == Step("fact_amended", Reopened("amending"), "reconciliation", "reconciliation")
             b == Step("amend_blocked", Nothing, "none", "reconciliation")
             c == Step("propose", Nothing, "none", "reconciliation")
             d == Step("concur", Nothing, "none", "reconciliation")
             e == Step("human_released", Reopened("released"), "none", "none")
  <1>0. /\ "fact_amended" \in Words /\ "amend_blocked" \in Words /\ "propose" \in Words
        /\ "concur" \in Words /\ "human_released" \in Words /\ "reconciliation" \in Words
        /\ "amending" \in Words /\ "released" \in Words /\ "none" \in Words
    BY DEF Words
  <1>1. a \in Marks /\ a.banner = "reconciliation" /\ a.reveal = "reconciliation" /\ Later(a)
    BY <1>0, ReopenedIs
  <1>2. /\ b \in Marks /\ b.banner = "none" /\ b.reveal = "reconciliation" /\ Later(b)
        /\ c \in Marks /\ c.banner = "none" /\ c.reveal = "reconciliation" /\ Later(c)
        /\ d \in Marks /\ d.banner = "none" /\ d.reveal = "reconciliation" /\ Later(d)
    BY <1>0, BareIs
  <1>3. e \in Marks /\ e.banner = "none" /\ e.reveal = "none" /\ Later(e)
    BY <1>0, ReopenedIs
  <1>4. CASE "reconciliation" \in Beats[s]
    <2>1. AmendmentSteps(s) = <<a, b, c, d, e>>
      BY <1>4 DEF AmendmentSteps, ScenarioHasBeat
    <2> HIDE DEF a, b, c, d, e
    <2>2. /\ Told(a, s) /\ Told(b, s) /\ Told(c, s) /\ Told(d, s) /\ Told(e, s)
          /\ "reconciliation" \in Shows(a)
      BY <1>1, <1>2, <1>3, <1>4 DEF Told, Shows
    <2>3. Late(<<a, b, c, d, e>>, s)
      BY <1>1, <1>2, <1>3, <2>2 DEF Late
    <2>4. ShownIn(<<a, b, c, d, e>>, "reconciliation")
      BY <2>2 DEF ShownIn
    <2>5. QED
      BY <2>1, <2>3, <2>4
  <1>5. CASE "reconciliation" \notin Beats[s]
    <2>1. AmendmentSteps(s) = <<>>
      BY <1>5 DEF AmendmentSteps, ScenarioHasBeat
    <2>2. QED
      BY <1>5, <2>1 DEF Late
  <1>6. QED
    BY <1>4, <1>5

LEMMA ReleaseIs ==
  ASSUME NEW s \in Scenarios
  PROVE  LET e == Step("human_released", All("released"), "none", "none")
         IN /\ e \in Marks /\ e.sets = All("released") /\ e.kind = "human_released"
            /\ Late(<<e>>, s)
  <1> DEFINE e == Step("human_released", All("released"), "none", "none")
  <1>1. /\ e \in Marks /\ e.sets = All("released") /\ e.kind = "human_released"
        /\ e.banner = "none" /\ e.reveal = "none" /\ Later(e)
    <2>1. "human_released" \in Words /\ "released" \in Words /\ "none" \in Words
      BY DEF Words
    <2>2. QED
      BY <2>1, AllIs
  <1> HIDE DEF e
  <1>2. Told(e, s)
    BY <1>1 DEF Told, Shows
  <1>3. Late(<<e>>, s)
    BY <1>1, <1>2 DEF Late
  <1>4. QED
    BY <1>1, <1>3 DEF e

LEMMA FinalIs ==
  ASSUME NEW s \in Scenarios
  PROVE  Late(<<Plain("final")>>, s)
  <1>1. "final" \in Words
    BY DEF Words
  <1>2. Plain("final") \in Marks /\ Later(Plain("final")) /\ Told(Plain("final"), s)
    BY <1>1, PlainIs DEF Told
  <1>3. QED
    BY <1>2 DEF Late

\* A timeline with its release at h: nothing is released before, and from then on a
\* branch is only ever said to be released or to be amending.
ReleasedAt(q, h, s) ==
  /\ q \in Seq(Marks) /\ h \in 1..Len(q)
  /\ q[h].sets = All("released") /\ q[h].kind = "human_released"
  /\ \A i \in 1..Len(q) : Told(q[i], s) /\ (i < h => Before(q[i])) /\ (i >= h => Later(q[i]))

LEMMA ReleaseFollows ==
  ASSUME NEW s, NEW p, NEW e \in Marks, Early(p, s), Late(<<e>>, s),
         e.sets = All("released"), e.kind = "human_released"
  PROVE  /\ ReleasedAt(p \o <<e>>, Len(p) + 1, s)
         /\ \A beat : ShownIn(p, beat) => ShownIn(p \o <<e>>, beat)
  <1>1. p \in Seq(Marks) /\ <<e>> \in Seq(Marks) /\ Len(<<e>>) = 1 /\ <<e>>[1] = e
    BY DEF Early
  <1> DEFINE b == <<e>>
             c == p \o b
  <1>2. /\ c \in Seq(Marks) /\ Len(p) \in Nat /\ Len(c) = Len(p) + Len(b)
        /\ \A i \in 1..Len(p) : i \in 1..(Len(p) + Len(b)) /\ c[i] = p[i]
        /\ \A i \in 1..Len(b) : Len(p) + i \in 1..(Len(p) + Len(b)) /\ c[Len(p) + i] = b[i]
        /\ \A i \in 1..(Len(p) + Len(b)) :
             \/ i \in 1..Len(p) /\ c[i] = p[i]
             \/ i - Len(p) \in 1..Len(b) /\ c[i] = b[i - Len(p)]
    BY <1>1, Concat
  <1>3. Late(b, s) /\ Len(b) = 1 /\ b[1] = e
    BY <1>1
  <1> HIDE DEF c, b
  <1>4. ReleasedAt(c, Len(p) + 1, s)
    <2>1. Len(c) = Len(p) + 1 /\ Len(p) + 1 \in 1..Len(c) /\ c[Len(p) + 1] = e
      BY <1>2, <1>3
    <2>2. ASSUME NEW i \in 1..Len(c)
          PROVE Told(c[i], s) /\ (i < Len(p) + 1 => Before(c[i])) /\ (i >= Len(p) + 1 => Later(c[i]))
      <3>1. CASE i \in 1..Len(p) /\ c[i] = p[i]
        BY <1>2, <3>1 DEF Early
      <3>2. CASE i - Len(p) \in 1..Len(b) /\ c[i] = b[i - Len(p)]
        <4>1. i = Len(p) + 1
          BY <1>2, <1>3, <3>2
        <4>2. QED
          BY <1>2, <1>3, <2>1, <4>1 DEF Late
      <3>3. QED
        BY <1>2, <1>3, <2>1, <3>1, <3>2
    <2>3. QED
      BY <1>2, <2>1, <2>2 DEF ReleasedAt
  <1>5. \A beat : ShownIn(p, beat) => ShownIn(c, beat)
    BY <1>2 DEF ShownIn
  <1>6. QED
    BY <1>4, <1>5 DEF c, b

LEMMA ReleaseStays ==
  ASSUME NEW s, NEW a, NEW h, NEW b, ReleasedAt(a, h, s), Late(b, s)
  PROVE  /\ ReleasedAt(a \o b, h, s)
         /\ \A beat : ShownIn(a, beat) \/ ShownIn(b, beat) => ShownIn(a \o b, beat)
  <1>1. a \in Seq(Marks) /\ b \in Seq(Marks)
    BY DEF Late, ReleasedAt
  <1> DEFINE c == a \o b
  <1>2. /\ c \in Seq(Marks) /\ Len(a) \in Nat /\ Len(b) \in Nat /\ Len(c) = Len(a) + Len(b)
        /\ \A i \in 1..Len(a) : i \in 1..(Len(a) + Len(b)) /\ c[i] = a[i]
        /\ \A i \in 1..Len(b) : Len(a) + i \in 1..(Len(a) + Len(b)) /\ c[Len(a) + i] = b[i]
        /\ \A i \in 1..(Len(a) + Len(b)) :
             \/ i \in 1..Len(a) /\ c[i] = a[i]
             \/ i - Len(a) \in 1..Len(b) /\ c[i] = b[i - Len(a)]
    BY <1>1, Concat
  <1> HIDE DEF c
  <1>3. ReleasedAt(c, h, s)
    <2>1. h \in 1..Len(a) /\ h \in 1..Len(c) /\ c[h] = a[h]
      BY <1>2 DEF ReleasedAt
    <2>2. ASSUME NEW i \in 1..Len(c)
          PROVE Told(c[i], s) /\ (i < h => Before(c[i])) /\ (i >= h => Later(c[i]))
      <3>1. CASE i \in 1..Len(a) /\ c[i] = a[i]
        BY <3>1 DEF ReleasedAt
      <3>2. CASE i - Len(a) \in 1..Len(b) /\ c[i] = b[i - Len(a)]
        BY <1>2, <2>1, <3>2 DEF Late
      <3>3. QED
        BY <1>2, <3>1, <3>2
    <2>3. QED
      BY <1>2, <2>1, <2>2 DEF ReleasedAt
  <1>4. \A beat : ShownIn(a, beat) \/ ShownIn(b, beat) => ShownIn(c, beat)
    BY <1>2 DEF ShownIn
  <1>5. QED
    BY <1>3, <1>4 DEF c

\* Every timeline has one release that the others follow, it shows no beat that the
\* packet does not record, and by its end all of them.
LEMMA TimelineIs ==
  ASSUME NEW s \in Scenarios
  PROVE  /\ \E h : ReleasedAt(BuildSteps(s), h, s)
         /\ \A beat \in Beats[s] : ShownIn(BuildSteps(s), beat)
  <1> DEFINE q1 == << Plain("clock_started"), Plain("fact_record"),
                      DraftStep("nis2"), DraftStep("sec"), DraftStep("dora") >>
             q2 == q1 \o DiffSteps(s)
             q3 == q2 \o ChaosSteps(s)
             e == Step("human_released", All("released"), "none", "none")
             q4 == q3 \o <<e>>
             q5 == q4 \o AmendmentSteps(s)
             q6 == q5 \o <<Plain("final")>>
  <1>1. BuildSteps(s) = q6
    BY DEF BuildSteps
  <1>2. Early(q1, s)
    BY FirstSteps
  <1> HIDE DEF q1
  <1>3. Early(q2, s) /\ \A beat : ShownIn(DiffSteps(s), beat) => ShownIn(q2, beat)
    BY <1>2, DiffIs, EarlyJoins
  <1> HIDE DEF q2
  <1>4. /\ Early(q3, s)
        /\ \A beat : ShownIn(q2, beat) \/ ShownIn(ChaosSteps(s), beat) => ShownIn(q3, beat)
    BY <1>3, ChaosIs, EarlyJoins
  <1> HIDE DEF q3
  <1>5. /\ ReleasedAt(q4, Len(q3) + 1, s)
        /\ \A beat : ShownIn(q3, beat) => ShownIn(q4, beat)
    <2>1. /\ e \in Marks /\ e.sets = All("released") /\ e.kind = "human_released"
          /\ Late(<<e>>, s)
      BY ReleaseIs
    <2> HIDE DEF e
    <2>2. QED
      BY <1>4, <2>1, ReleaseFollows
  <1> HIDE DEF q4
  <1>6. /\ ReleasedAt(q5, Len(q3) + 1, s)
        /\ \A beat : ShownIn(q4, beat) \/ ShownIn(AmendmentSteps(s), beat) => ShownIn(q5, beat)
    BY <1>5, AmendmentIs, ReleaseStays
  <1> HIDE DEF q5
  <1>7. /\ ReleasedAt(q6, Len(q3) + 1, s)
        /\ \A beat : ShownIn(q5, beat) => ShownIn(q6, beat)
    BY <1>6, FinalIs, ReleaseStays
  <1> HIDE DEF q6
  <1>8. ASSUME NEW beat \in Beats[s] PROVE ShownIn(q6, beat)
    <2>1. beat \in {"contradiction", "chaos", "reconciliation"}
      BY BeatsAssumption DEF BeatNames
    <2>2. CASE beat = "contradiction"
      BY <2>2, <1>3, <1>4, <1>5, <1>6, <1>7, DiffIs
    <2>3. CASE beat = "chaos"
      BY <2>3, <1>4, <1>5, <1>6, <1>7, ChaosIs
    <2>4. CASE beat = "reconciliation"
      BY <2>4, <1>6, <1>7, AmendmentIs
    <2>5. QED
      BY <2>1, <2>2, <2>3, <2>4
  <1>9. QED
    BY <1>1, <1>7, <1>8

LEMMA PrefixIs ==
  ASSUME NEW q \in Seq(Marks), NEW n \in 0..Len(q)
  PROVE  LET a == SubSeq(q, 1, n)
         IN a \in Seq(Marks) /\ Len(a) = n /\ DOMAIN a = 1..n /\ \A i \in 1..n : a[i] = q[i]
  OBVIOUS

\* What every played prefix of a released timeline says of a branch.
LEMMA BranchSaid ==
  ASSUME NEW s, NEW q, NEW h, ReleasedAt(q, h, s), NEW n \in 0..Len(q), h <= n, NEW b \in Branches
  PROVE  BranchState(SubSeq(q, 1, n), b) \in {"released", "amending"}
  <1> DEFINE a == SubSeq(q, 1, n)
             said == {i \in DOMAIN a : b \in DOMAIN a[i].sets}
  <1>1. q \in Seq(Marks) /\ h \in 1..Len(q) /\ n \in Nat /\ Len(q) \in Nat
    BY DEF ReleasedAt
  <1>2. a \in Seq(Marks) /\ Len(a) = n /\ DOMAIN a = 1..n /\ \A i \in 1..n : a[i] = q[i]
    BY <1>1, PrefixIs
  <1> HIDE DEF a
  <1>3. h \in said
    <2>1. h \in 1..n /\ a[h] = q[h]
      BY <1>1, <1>2
    <2>2. b \in DOMAIN q[h].sets
      BY DEF ReleasedAt, All
    <2>3. QED
      BY <1>2, <2>1, <2>2
  <1>4. said \in SUBSET (1..n) /\ said # {}
    BY <1>2, <1>3
  <1>5. BranchState(a, b) = a[Max(said)].sets[b]
    BY <1>4 DEF BranchState
  <1>6. \A i \in said : i \in 1..n /\ b \in DOMAIN a[i].sets
    BY <1>2
  <1> HIDE DEF said
  <1>7. Max(said) \in said /\ h <= Max(said)
    BY <1>1, <1>3, <1>4, MaxIs
  <1>8. Max(said) \in 1..n /\ b \in DOMAIN a[Max(said)].sets /\ a[Max(said)] = q[Max(said)]
    BY <1>2, <1>6, <1>7
  <1>9. Later(q[Max(said)])
    BY <1>1, <1>7, <1>8 DEF ReleasedAt
  <1>10. QED
    BY <1>5, <1>8, <1>9 DEF Later, a

\* The panel of the commander and the chips of the branches, at every cursor.
LEMMA GateAgrees ==
  ASSUME NEW s, NEW q, NEW h, ReleasedAt(q, h, s), NEW n \in 0..Len(q)
  PROVE  LET a == SubSeq(q, 1, n)
         IN DeriveGate(a).release = "released" <=> \A b \in Branches : BranchState(a, b) = "released"
  <1> DEFINE a == SubSeq(q, 1, n)
             all == \A b \in Branches : BranchState(a, b) = "released"
             Some(states) == \E b \in Branches : BranchState(a, b) \in states
             told == \E i \in DOMAIN a : a[i].kind = "human_released"
  <1>1. q \in Seq(Marks) /\ h \in 1..Len(q) /\ n \in Nat /\ Len(q) \in Nat
    BY DEF ReleasedAt
  <1>2. a \in Seq(Marks) /\ Len(a) = n /\ DOMAIN a = 1..n /\ \A i \in 1..n : a[i] = q[i]
    BY <1>1, PrefixIs
  <1>3. DeriveGate(a).release = "released"
          <=> ~Some({"blocked"}) /\ ~Some({"amending"}) /\ (all \/ told)
    <2> DEFINE Gate(headline, release) == [headline |-> headline, release |-> release]
               released == all \/ told
    <2>1. DeriveGate(a) =
            IF Some({"blocked"}) THEN Gate("blocked", "held")
            ELSE IF Some({"amending"}) THEN Gate("amending", "held")
            ELSE IF LastBanner(a) = "chaos"
              THEN Gate("recovered", IF released THEN "released" ELSE "running")
            ELSE IF released THEN Gate("cleared", "released")
            ELSE IF Some({"draft_submitted", "drafting"}) THEN Gate("drafting", "running")
            ELSE Gate("incident open", "running")
      BY DEF DeriveGate
    <2>2. \A headline, release : Gate(headline, release).release = release
      OBVIOUS
    <2> HIDE DEF Gate
    <2>3. CASE Some({"blocked"}) \/ Some({"amending"})
      <3>1. DeriveGate(a) = Gate("blocked", "held") \/ DeriveGate(a) = Gate("amending", "held")
        BY <2>1, <2>3
      <3>2. DeriveGate(a).release = "held"
        BY <2>2, <3>1
      <3>3. QED
        BY <2>3, <3>2
    <2>4. CASE ~Some({"blocked"}) /\ ~Some({"amending"}) /\ released
      <3>1. \/ DeriveGate(a) = Gate("recovered", "released")
            \/ DeriveGate(a) = Gate("cleared", "released")
        BY <2>1, <2>4
      <3>2. DeriveGate(a).release = "released"
        BY <2>2, <3>1
      <3>3. QED
        BY <2>4, <3>2
    <2>5. CASE ~Some({"blocked"}) /\ ~Some({"amending"}) /\ ~released
      <3>1. \/ DeriveGate(a) = Gate("recovered", "running")
            \/ DeriveGate(a) = Gate("drafting", "running")
            \/ DeriveGate(a) = Gate("incident open", "running")
        BY <2>1, <2>5
      <3>2. DeriveGate(a).release = "running"
        BY <2>2, <3>1
      <3>3. QED
        BY <2>5, <3>2
    <2>6. QED
      BY <2>3, <2>4, <2>5
  <1>4. told => h <= n
    <2>1. ASSUME NEW i \in DOMAIN a, a[i].kind = "human_released" PROVE h <= n
      <3>1. i \in 1..n /\ i \in 1..Len(q) /\ a[i] = q[i]
        BY <1>1, <1>2, <2>1
      <3>2. ~(i < h)
        BY <2>1, <3>1 DEF ReleasedAt, Before
      <3>3. QED
        BY <1>1, <3>1, <3>2
    <2>2. QED
      BY <2>1
  <1>5. told /\ ~Some({"amending"}) => all
    <2>1. ASSUME told, ~Some({"amending"}), NEW b \in Branches
          PROVE  BranchState(a, b) = "released"
      <3>1. BranchState(a, b) \in {"released", "amending"}
        BY <1>4, <2>1, BranchSaid
      <3>2. BranchState(a, b) # "amending"
        BY <2>1
      <3>3. QED
        BY <3>1, <3>2
    <2>2. QED
      BY <2>1
  <1>6. all => ~Some({"blocked"}) /\ ~Some({"amending"})
    OBVIOUS
  <1>7. QED
    BY <1>3, <1>5, <1>6

\* The beats that are lit, at every cursor and at the end.
LEMMA BeatsAgree ==
  ASSUME NEW s, NEW q, NEW h, ReleasedAt(q, h, s), NEW n \in 0..Len(q)
  PROVE  LET a == SubSeq(q, 1, n)
         IN /\ ReachedBeats(a) \subseteq Beats[s]
            /\ \A beat : n = Len(q) /\ ShownIn(q, beat) => beat \in ReachedBeats(a)
  <1> DEFINE a == SubSeq(q, 1, n)
  <1>1. q \in Seq(Marks) /\ n \in Nat /\ Len(q) \in Nat
    BY DEF ReleasedAt
  <1>2. a \in Seq(Marks) /\ Len(a) = n /\ DOMAIN a = 1..n /\ \A i \in 1..n : a[i] = q[i]
    BY <1>1, PrefixIs
  <1> HIDE DEF a
  <1>3. \A beat : beat \in ReachedBeats(a) <=> \E i \in DOMAIN a : beat \in Shows(a[i])
    BY DEF ReachedBeats, Reveals, Shows
  <1>4. \A i \in 1..n : Shows(a[i]) \subseteq Beats[s]
    BY <1>1, <1>2 DEF ReleasedAt, Told
  <1>5. ASSUME NEW beat, n = Len(q), ShownIn(q, beat) PROVE beat \in ReachedBeats(a)
    BY <1>2, <1>3, <1>5 DEF ShownIn
  <1>6. QED
    BY <1>2, <1>3, <1>4, <1>5 DEF a

-----------------------------------------------------------------------------
(***************************************************************************)
(* The page.                                                               *)
(***************************************************************************)
LEMMA TimelinesAre ==
  /\ Len(<<>>) = 0
  /\ \A s \in Scenarios :
       /\ Timelines[s] = BuildSteps(s) /\ Timelines[s] \in Seq(Marks)
       /\ Len(Timelines[s]) \in Nat /\ Len(Timelines[s]) > 0
  <1>1. ASSUME NEW s \in Scenarios
        PROVE  /\ Timelines[s] = BuildSteps(s) /\ Timelines[s] \in Seq(Marks)
               /\ Len(Timelines[s]) \in Nat /\ Len(Timelines[s]) > 0
    <2>1. Timelines[s] = BuildSteps(s)
      BY DEF Timelines
    <2>2. PICK h : ReleasedAt(BuildSteps(s), h, s)
      BY TimelineIs
    <2>3. BuildSteps(s) \in Seq(Marks) /\ h \in 1..Len(BuildSteps(s))
      BY <2>2 DEF ReleasedAt
    <2>4. Len(BuildSteps(s)) \in Nat
      BY <2>3
    <2>5. Len(BuildSteps(s)) > 0
      BY <2>3, <2>4
    <2>6. QED
      BY <2>1, <2>3, <2>4, <2>5
  <1>2. QED
    BY <1>1

LEMMA StepsAre ==
  ASSUME TypeOK
  PROVE  /\ Len(Steps) \in Nat
         /\ shown # None => /\ shown \in Scenarios /\ Steps = BuildSteps(shown)
                            /\ Steps \in Seq(Marks) /\ Len(Steps) > 0
  <1>1. shown = None \/ shown \in Scenarios
    BY DEF TypeOK, Runs
  <1>2. QED
    BY <1>1, TimelinesAre DEF Steps

LEMMA InitIInv == ConsoleInit => IInv
  <1> SUFFICES ASSUME ConsoleInit PROVE IInv
    OBVIOUS
  <1>1. TypeOK
    <2>1. loads \subseteq LoadsInFlight
      BY ConsoleAssumption DEF ConsoleInit, LoadsInFlight
    <2>2. /\ boot \in {"loading", "panels", "ready", "dead"} /\ shown \in Runs /\ issued \in Nat
          /\ cursor \in Nat /\ timers \in Nat
      BY DEF ConsoleInit, Runs
    <2>3. playing \in BOOLEAN /\ live \in BOOLEAN /\ toggle \in BOOLEAN
      BY DEF ConsoleInit
    <2>4. /\ DOMAIN drill = DOMAIN NoDrill /\ drill.manifest \in Runs /\ drill.on \in BOOLEAN
          /\ drill.overlay \in {"none", "question", "reveal", "result"}
      BY DEF ConsoleInit, Runs, NoDrill
    <2>5. /\ DOMAIN checks = 1..MaxChecks
          /\ \A v \in 1..MaxChecks : DOMAIN checks[v] = DOMAIN Idle
      BY DEF ConsoleInit
    <2>6. QED
      BY <2>1, <2>2, <2>3, <2>4, <2>5 DEF TypeOK
  <1>2. PageStands
    <2>1. Len(Steps) = 0
      BY TimelinesAre DEF ConsoleInit, Steps
    <2>2. QED
      BY <2>1 DEF ConsoleInit, PageStands
  <1>3. ChecksStand /\ VerdictBindsOneRun
    BY DEF ConsoleInit, ChecksStand, CheckStands, VerdictBindsOneRun, Idle, Pending
  <1>4. ExamStands /\ CertificateIsEarned
    BY DEF ConsoleInit, ExamStands, CertificateIsEarned, Examining, NoDrill
  <1>5. QED
    BY <1>1, <1>2, <1>3, <1>4 DEF IInv

\* What a step leaves alone.
LEMMA ChecksKept ==
  ASSUME TypeOK, ChecksStand, VerdictBindsOneRun, UNCHANGED <<checks, verdict>>,
         shown # None => shown' # None
  PROVE  ChecksStand' /\ VerdictBindsOneRun'
  BY DEF ChecksStand, CheckStands, VerdictBindsOneRun

LEMMA ExamKept ==
  ASSUME ExamStands, CertificateIsEarned, UNCHANGED <<drill, receipt>>, Examining => loads' = {}
  PROVE  ExamStands' /\ CertificateIsEarned'
  BY DEF ExamStands, CertificateIsEarned, Examining, GateCount

LEMMA TransportStep ==
  ASSUME IInv, UNCHANGED <<boot, shown, loads, issued, proofs, exam>>,
         cursor' \in Nat, cursor' <= Len(Steps), playing' \in BOOLEAN, timers' \in Nat, live' \in BOOLEAN
  PROVE  IInv'
  <1>1. TypeOK'
    BY DEF IInv, TypeOK, proofs, exam
  <1>2. PageStands'
    <2>1. Steps' = Steps
      BY DEF Steps
    <2>2. QED
      BY <2>1 DEF IInv, PageStands
  <1>3. ChecksStand' /\ VerdictBindsOneRun'
    BY ChecksKept DEF IInv, proofs
  <1>4. ~Hasty => ExamStands' /\ CertificateIsEarned'
    BY ExamKept DEF IInv, exam, ExamStands
  <1>5. QED
    BY <1>1, <1>2, <1>3, <1>4 DEF IInv

LEMMA StopIs ==
  ASSUME timers \in Nat, StopPlay(timers)
  PROVE  playing' \in BOOLEAN /\ timers' \in Nat
  <1>1. playing' \in BOOLEAN
    BY DEF StopPlay
  <1>2. timers' \in Nat
    BY DEF StopPlay
  <1>3. QED
    BY <1>1, <1>2

LEMMA StartIs ==
  ASSUME timers \in Nat, cursor \in Nat, playing \in BOOLEAN, StartPlay
  PROVE  playing' \in BOOLEAN /\ timers' \in Nat /\ cursor' \in Nat /\ cursor' \in {0, cursor}
  <1>1. playing' \in BOOLEAN
    BY DEF StartPlay
  <1>2. timers' \in Nat /\ cursor' \in Nat /\ cursor' \in {0, cursor}
    BY DEF StartPlay
  <1>3. QED
    BY <1>1, <1>2

LEMMA PlayStep ==
  ASSUME IInv, Play
  PROVE  IInv'
  <1>1. /\ cursor \in Nat /\ timers \in Nat /\ playing \in BOOLEAN /\ live \in BOOLEAN
        /\ cursor <= Len(Steps) /\ Len(Steps) \in Nat
    BY StepsAre DEF IInv, TypeOK, PageStands
  <1>2. CASE PressPlay
    <2>1. UNCHANGED <<boot, shown, loads, issued, live, proofs, exam>>
      BY <1>2 DEF PressPlay
    <2>2. playing' \in BOOLEAN /\ timers' \in Nat /\ cursor' \in Nat /\ cursor' \in {0, cursor}
      BY <1>1, <1>2, StopIs, StartIs DEF PressPlay
    <2>3. QED
      BY <1>1, <2>1, <2>2, TransportStep
  <1>3. CASE Scrub
    <2>1. UNCHANGED <<boot, shown, loads, issued, live, proofs, exam>>
      BY <1>3 DEF Scrub
    <2>2. Len(Steps) > 0
      BY <1>3, StepsAre DEF Scrub, IInv, PageStands
    <2>3. playing' \in BOOLEAN /\ timers' \in Nat
      BY <1>1, <1>3, StopIs DEF Scrub
    <2>4. cursor' \in Nat /\ cursor' <= Len(Steps)
      BY <1>1, <1>3, <2>2 DEF Scrub
    <2>5. QED
      BY <1>1, <2>1, <2>3, <2>4, TransportStep
  <1>4. CASE TimerFires
    <2>1. UNCHANGED <<boot, shown, loads, issued, live, proofs, exam>>
      BY <1>4 DEF TimerFires
    <2>2. cursor' \in Nat /\ cursor' <= Len(Steps) /\ timers' \in Nat
      BY <1>1, <1>4 DEF TimerFires
    <2>3. playing' \in BOOLEAN
      BY <1>1, <1>4 DEF TimerFires
    <2>4. QED
      BY <1>1, <2>1, <2>2, <2>3, TransportStep
  <1>5. CASE SetLiveMode
    <2>1. UNCHANGED <<boot, shown, loads, issued, cursor, proofs, exam>>
      BY <1>5 DEF SetLiveMode
    <2>2. live' \in BOOLEAN /\ playing' \in BOOLEAN /\ timers' \in Nat
      BY <1>1, <1>5, StopIs DEF SetLiveMode
    <2>3. QED
      BY <1>1, <2>1, <2>2, TransportStep
  <1>6. QED
    BY <1>2, <1>3, <1>4, <1>5 DEF Play

LEMMA SelectStep ==
  ASSUME IInv, NEW s \in Scenarios, SelectScenario(s)
  PROVE  IInv'
  <1>1. UNCHANGED <<boot, shown, cursor, live, proofs, exam>>
    BY DEF SelectScenario
  <1> DEFINE l == [id |-> issued', scn |-> s, stage |-> "fetch", play |-> TRUE]
  <1>2. loads' = loads \cup {l} /\ issued' = issued + 1 /\ StopPlay(timers)
    BY DEF SelectScenario
  <1>3. issued \in Nat /\ timers \in Nat /\ loads \subseteq LoadsInFlight
    BY DEF IInv, TypeOK
  <1>4. l \in LoadsInFlight /\ l.stage = "fetch"
    BY <1>2, <1>3 DEF LoadsInFlight
  <1> HIDE DEF l
  <1>5. TypeOK'
    <2>1. loads' \subseteq LoadsInFlight /\ issued' \in Nat
      BY <1>2, <1>3, <1>4
    <2>2. playing' \in BOOLEAN /\ timers' \in Nat
      BY <1>2, <1>3, StopIs
    <2>3. QED
      BY <1>1, <2>1, <2>2 DEF IInv, TypeOK, proofs, exam
  <1>6. PageStands'
    <2>1. Steps' = Steps
      BY <1>1 DEF Steps
    <2>2. QED
      BY <1>1, <1>2, <1>4, <2>1 DEF IInv, PageStands
  <1>7. ChecksStand' /\ VerdictBindsOneRun'
    BY <1>1, ChecksKept DEF IInv, proofs
  <1>8. ~Hasty => ExamStands' /\ CertificateIsEarned'
    <2>1. ~Hasty => ~Examining
      BY DEF SelectScenario
    <2>2. QED
      BY <1>1, <2>1, ExamKept DEF IInv, exam
  <1>9. QED
    BY <1>5, <1>6, <1>7, <1>8 DEF IInv

LEMMA PacketStep ==
  ASSUME IInv, NEW l \in loads, PacketArrives(l)
  PROVE  IInv'
  <1>1. UNCHANGED <<boot, issued, playing, timers, live, receipt, checks>>
    BY DEF PacketArrives, ResetChecks
  <1> DEFINE m == [l EXCEPT !.stage = "drill"]
  <1>2. /\ shown' = l.scn /\ cursor' = 0 /\ toggle' = FALSE /\ verdict' = Pending
        /\ drill' = [NoDrill EXCEPT !.overlay = drill.overlay]
        /\ loads' = (loads \ {l}) \cup {m}
    BY DEF PacketArrives, ResetChecks
  <1>3. l \in LoadsInFlight /\ loads \subseteq LoadsInFlight
    BY DEF IInv, TypeOK
  <1>4. m \in LoadsInFlight /\ l.scn \in Scenarios /\ l.scn # None
    BY <1>3, ConsoleAssumption DEF LoadsInFlight
  <1> HIDE DEF m
  <1>5. /\ DOMAIN drill' = DOMAIN NoDrill /\ drill'.manifest = None /\ drill'.on = FALSE
        /\ drill'.overlay = drill.overlay
    BY <1>2 DEF NoDrill
  <1>6. TypeOK'
    <2>1. loads' \subseteq LoadsInFlight /\ shown' \in Runs /\ cursor' \in Nat
      BY <1>2, <1>3, <1>4 DEF Runs
    <2>2. toggle' \in BOOLEAN /\ drill'.on \in BOOLEAN
      BY <1>2, <1>5
    <2>3. drill'.manifest \in Runs /\ drill'.overlay \in {"none", "question", "reveal", "result"}
      BY <1>5 DEF IInv, TypeOK, Runs
    <2>4. QED
      BY <1>1, <1>5, <2>1, <2>2, <2>3 DEF IInv, TypeOK
  <1>7. PageStands'
    <2>1. Steps' = Timelines[l.scn] /\ Len(Timelines[l.scn]) \in Nat
      BY <1>2, <1>4, TimelinesAre DEF Steps
    <2>2. QED
      BY <1>2, <1>4, <2>1 DEF PageStands
  <1>8. ChecksStand' /\ VerdictBindsOneRun'
    <2>1. ChecksStand'
      BY <1>1, <1>2, <1>4 DEF IInv, ChecksStand, CheckStands
    <2>2. VerdictBindsOneRun'
      BY <1>2 DEF VerdictBindsOneRun, Pending
    <2>3. QED
      BY <2>1, <2>2
  <1>9. ASSUME ~Hasty PROVE ExamStands' /\ CertificateIsEarned'
    <2>1. drill.overlay = "none"
      BY <1>9 DEF IInv, ExamStands, Examining
    <2>2. ExamStands'
      BY <1>5, <2>1 DEF ExamStands, Examining
    <2>3. CertificateIsEarned'
      BY <1>1, <1>9 DEF IInv, CertificateIsEarned
    <2>4. QED
      BY <2>2, <2>3
  <1>10. QED
    BY <1>6, <1>7, <1>8, <1>9 DEF IInv

LEMMA ManifestStep ==
  ASSUME IInv, NEW l \in loads, ManifestArrives(l)
  PROVE  IInv'
  <1>1. UNCHANGED <<shown, issued, live, proofs, receipt>> /\ loads' = loads \ {l}
    BY DEF ManifestArrives
  <1>2. PICK found \in {l.scn, None} : drill' = [drill EXCEPT !.manifest = found]
    BY DEF ManifestArrives
  <1>3. l \in LoadsInFlight /\ l.scn \in Scenarios /\ shown # None
    BY DEF IInv, TypeOK, LoadsInFlight, PageStands, ManifestArrives
  <1>4. found \in Runs
    BY <1>2, <1>3 DEF Runs
  <1>5. /\ DOMAIN drill' = DOMAIN NoDrill /\ drill'.manifest = found /\ drill'.on = drill.on
        /\ drill'.overlay = drill.overlay
    BY <1>2 DEF IInv, TypeOK, NoDrill
  <1>6. /\ cursor \in Nat /\ timers \in Nat /\ playing \in BOOLEAN /\ cursor <= Len(Steps)
        /\ Len(Steps) \in Nat
    BY StepsAre DEF IInv, TypeOK, PageStands
  <1>7. cursor' \in Nat /\ timers' \in Nat /\ playing' \in BOOLEAN /\ cursor' \in {0, cursor}
    <2>1. CASE l.play
      BY <1>6, <2>1, StartIs DEF ManifestArrives
    <2>2. CASE ~l.play
      BY <1>6, <2>2 DEF ManifestArrives
    <2>3. QED
      BY <2>1, <2>2
  <1>8. TypeOK'
    <2>1. boot' \in {"loading", "panels", "ready", "dead"}
      BY DEF IInv, TypeOK, ManifestArrives
    <2>2. loads' \subseteq LoadsInFlight
      BY <1>1 DEF IInv, TypeOK
    <2>3. drill'.on \in BOOLEAN
      BY <1>5 DEF IInv, TypeOK
    <2>4. drill'.overlay \in {"none", "question", "reveal", "result"}
      BY <1>5 DEF IInv, TypeOK
    <2>5. QED
      BY <1>1, <1>4, <1>5, <1>7, <2>1, <2>2, <2>3, <2>4 DEF IInv, TypeOK, proofs
  <1>9. PageStands'
    <2>1. Steps' = Steps
      BY <1>1 DEF Steps
    <2>2. QED
      BY <1>1, <1>3, <1>6, <1>7, <2>1 DEF PageStands
  <1>10. ChecksStand' /\ VerdictBindsOneRun'
    BY <1>1, ChecksKept DEF IInv, proofs
  <1>11. ASSUME ~Hasty PROVE ExamStands' /\ CertificateIsEarned'
    <2>1. drill.overlay = "none" /\ ~drill.on
      BY <1>11 DEF IInv, ExamStands, Examining
    <2>2. ExamStands'
      BY <1>5, <2>1 DEF ExamStands, Examining
    <2>3. CertificateIsEarned'
      BY <1>1, <1>11 DEF IInv, CertificateIsEarned
    <2>4. QED
      BY <2>2, <2>3
  <1>12. QED
    BY <1>8, <1>9, <1>10, <1>11 DEF IInv

LEMMA FailStep ==
  ASSUME IInv, NEW l \in loads, LoadFails(l)
  PROVE  IInv'
  <1>1. UNCHANGED <<shown, issued, transport, proofs, exam>> /\ loads' = loads \ {l}
    BY DEF LoadFails
  <1>2. boot' \in {"dead", boot}
    BY DEF LoadFails
  <1>3. TypeOK'
    BY <1>1, <1>2 DEF IInv, TypeOK, transport, proofs, exam
  <1>4. PageStands'
    <2>1. Steps' = Steps
      BY <1>1 DEF Steps
    <2>2. QED
      BY <1>1, <1>2, <2>1 DEF IInv, PageStands, transport
  <1>5. ChecksStand' /\ VerdictBindsOneRun'
    BY <1>1, ChecksKept DEF IInv, proofs
  <1>6. ~Hasty => ExamStands' /\ CertificateIsEarned'
    <2>1. ~Hasty => (Examining => loads' = {})
      BY <1>1 DEF IInv, ExamStands
    <2>2. QED
      BY <1>1, <2>1, ExamKept DEF IInv, exam
  <1>7. QED
    BY <1>3, <1>4, <1>5, <1>6 DEF IInv

LEMMA WireStep ==
  ASSUME IInv, Wire
  PROVE  IInv'
  <1>1. UNCHANGED <<shown, loads, issued, transport, proofs, exam>> /\ boot = "panels" /\ boot' = "ready"
    BY DEF Wire
  <1>2. TypeOK'
    BY <1>1 DEF IInv, TypeOK, transport, proofs, exam
  <1>3. PageStands'
    <2>1. Steps' = Steps
      BY <1>1 DEF Steps
    <2>2. QED
      BY <1>1, <2>1 DEF IInv, PageStands, transport
  <1>4. ChecksStand' /\ VerdictBindsOneRun'
    BY <1>1, ChecksKept DEF IInv, proofs
  <1>5. ~Hasty => ExamStands' /\ CertificateIsEarned'
    BY <1>1, ExamKept DEF IInv, exam, ExamStands
  <1>6. QED
    BY <1>2, <1>3, <1>4, <1>5 DEF IInv

LEMMA LoadStep ==
  ASSUME IInv, Load
  PROVE  IInv'
  BY SelectStep, PacketStep, ManifestStep, FailStep, WireStep DEF Load

\* One run of verifyAll goes on, the page stays.
LEMMA CheckStep ==
  ASSUME IInv, UNCHANGED <<boot, shown, loads, issued, transport, exam>>, toggle' \in BOOLEAN,
         NEW v \in 1..MaxChecks, NEW c, checks' = [checks EXCEPT ![v] = c],
         DOMAIN c = DOMAIN Idle, CheckStands(c), VerdictBindsOneRun'
  PROVE  IInv'
  <1>1. /\ DOMAIN checks' = 1..MaxChecks /\ checks'[v] = c
        /\ \A u \in 1..MaxChecks : u # v => checks'[u] = checks[u]
    BY DEF IInv, TypeOK
  <1>2. TypeOK'
    <2>1. \A u \in 1..MaxChecks : DOMAIN checks'[u] = DOMAIN Idle
      BY <1>1 DEF IInv, TypeOK
    <2>2. QED
      BY <1>1, <2>1 DEF IInv, TypeOK, transport, exam
  <1>3. PageStands'
    <2>1. Steps' = Steps
      BY DEF Steps
    <2>2. QED
      BY <2>1 DEF IInv, PageStands, transport
  <1>4. ChecksStand'
    BY <1>1 DEF IInv, ChecksStand, CheckStands
  <1>5. ~Hasty => ExamStands' /\ CertificateIsEarned'
    BY ExamKept DEF IInv, exam, ExamStands
  <1>6. QED
    BY <1>2, <1>3, <1>4, <1>5 DEF IInv

LEMMA IdleIs ==
  /\ DOMAIN Idle = {"pc", "reorder", "log", "sha", "head", "sig", "ok"}
  /\ Idle.pc = "idle"
  BY DEF Idle

LEMMA LogsAre ==
  \A s \in Scenarios :
    /\ BundledLog(s) = RecordedLog(s) <=> s \notin Altered
    /\ BundledLog(s) # None /\ RecordedLog(s) # None
    /\ \A r : RecordedLog(s) = RecordedLog(r) => s = r
  <1>1. \A s \in Scenarios : <<s, "sealed">> # None /\ <<s, "altered">> # None
    BY ConsoleAssumption
  <1>2. \A s : <<s, "altered">> # <<s, "sealed">>
    OBVIOUS
  <1>3. QED
    BY <1>1, <1>2 DEF BundledLog, RecordedLog

LEMMA StartVerifyStep ==
  ASSUME IInv, NEW v \in 1..MaxChecks, NEW on \in BOOLEAN, StartVerify(v, on)
  PROVE  IInv'
  <1>1. /\ UNCHANGED <<boot, shown, loads, issued, transport, exam>> /\ toggle' = on
        /\ verdict' = Pending /\ boot = "ready"
    BY DEF StartVerify
  <1>2. PICK c : c = [Idle EXCEPT !.pc = "hash", !.reorder = on, !.log = BundledLog(shown)]
    OBVIOUS
  <1>3. checks' = [checks EXCEPT ![v] = c]
    BY <1>2 DEF StartVerify
  <1>4. DOMAIN c = DOMAIN Idle /\ c.pc = "hash" /\ c.log = BundledLog(shown)
    BY <1>2, IdleIs
  <1>5. shown # None /\ shown \in Scenarios
    BY <1>1, StepsAre DEF IInv, PageStands
  <1>6. CheckStands(c)
    BY <1>4, <1>5 DEF CheckStands
  <1>7. VerdictBindsOneRun'
    BY <1>1 DEF VerdictBindsOneRun, Pending
  <1>8. QED
    BY <1>1, <1>3, <1>4, <1>6, <1>7, CheckStep

LEMMA HashStep ==
  ASSUME IInv, NEW v \in 1..MaxChecks, HashAnswers(v)
  PROVE  IInv'
  <1>1. UNCHANGED <<boot, shown, loads, issued, transport, toggle, verdict, exam>>
        /\ checks[v].pc = "hash"
    BY DEF HashAnswers
  <1>2. PICK failed \in BOOLEAN :
          checks' = [checks EXCEPT ![v] =
            [@ EXCEPT !.pc = "trusted", !.log = BundledLog(shown),
                      !.sha = IF failed THEN None ELSE checks[v].log,
                      !.ok = ~ failed /\ checks[v].log = RecordedLog(shown)]]
    BY DEF HashAnswers
  <1>3. PICK c : c = [checks[v] EXCEPT !.pc = "trusted", !.log = BundledLog(shown),
                        !.sha = IF failed THEN None ELSE checks[v].log,
                        !.ok = ~ failed /\ checks[v].log = RecordedLog(shown)]
    OBVIOUS
  <1>4. checks' = [checks EXCEPT ![v] = c]
    BY <1>2, <1>3 DEF IInv, TypeOK
  <1>5. DOMAIN checks[v] = DOMAIN Idle
    BY DEF IInv, TypeOK
  <1>6. /\ DOMAIN c = DOMAIN Idle /\ c.pc = "trusted" /\ c.log = BundledLog(shown)
        /\ c.sha = IF failed THEN None ELSE checks[v].log
        /\ c.ok = (~ failed /\ checks[v].log = RecordedLog(shown))
    BY <1>3, <1>5, IdleIs
  <1>7. PICK s \in Scenarios : checks[v].log = BundledLog(s)
    BY <1>1 DEF IInv, ChecksStand, CheckStands
  <1>8. shown # None /\ shown \in Scenarios
    BY <1>1, StepsAre DEF IInv, ChecksStand, CheckStands
  <1>9. c.ok => \E r \in Scenarios \ Altered : c.sha = BundledLog(r)
    <2>1. c.ok => c.sha = RecordedLog(shown) /\ c.sha = BundledLog(s)
      BY <1>6, <1>7
    <2>2. BundledLog(s) = RecordedLog(shown) => s \notin Altered
      <3>1. CASE s \in Altered
        BY <3>1 DEF BundledLog, RecordedLog
      <3>2. QED
        BY <3>1
    <2>3. QED
      BY <1>7, <2>1, <2>2
  <1>10. CheckStands(c)
    BY <1>6, <1>8, <1>9 DEF CheckStands
  <1>11. VerdictBindsOneRun'
    BY <1>1 DEF IInv, VerdictBindsOneRun
  <1>12. toggle' \in BOOLEAN
    BY <1>1 DEF IInv, TypeOK
  <1>13. QED
    BY <1>1, <1>4, <1>6, <1>10, <1>11, <1>12, CheckStep

LEMMA TrustedStep ==
  ASSUME IInv, NEW v \in 1..MaxChecks, TrustedAnswers(v)
  PROVE  IInv'
  <1>1. UNCHANGED <<boot, shown, loads, issued, transport, toggle, verdict, exam>>
        /\ checks[v].pc = "trusted"
    BY DEF TrustedAnswers
  <1>2. PICK c : c = [checks[v] EXCEPT !.pc = "chain", !.log = BundledLog(shown),
                                       !.head = ChainHeadOf(checks[v].log, FALSE)]
    OBVIOUS
  <1>3. checks' = [checks EXCEPT ![v] = c]
    BY <1>2 DEF IInv, TypeOK, TrustedAnswers
  <1>4. DOMAIN checks[v] = DOMAIN Idle
    BY DEF IInv, TypeOK
  <1>5. /\ DOMAIN c = DOMAIN Idle /\ c.pc = "chain" /\ c.log = BundledLog(shown)
        /\ c.sha = checks[v].sha /\ c.ok = checks[v].ok
    BY <1>2, <1>4, IdleIs
  <1>6. shown # None /\ shown \in Scenarios
    BY <1>1, StepsAre DEF IInv, ChecksStand, CheckStands
  <1>7. checks[v].ok => \E r \in Scenarios \ Altered : checks[v].sha = BundledLog(r)
    BY <1>1 DEF IInv, ChecksStand, CheckStands
  <1>8. CheckStands(c)
    BY <1>5, <1>6, <1>7 DEF CheckStands
  <1>9. VerdictBindsOneRun'
    BY <1>1 DEF IInv, VerdictBindsOneRun
  <1>10. toggle' \in BOOLEAN
    BY <1>1 DEF IInv, TypeOK
  <1>11. QED
    BY <1>1, <1>3, <1>5, <1>8, <1>9, <1>10, CheckStep

LEMMA ChainStep ==
  ASSUME IInv, NEW v \in 1..MaxChecks, ChainAnswers(v)
  PROVE  IInv'
  <1> DEFINE now == ChainHeadOf(checks[v].log, checks[v].reorder)
  <1>1. UNCHANGED <<boot, shown, loads, issued, transport, toggle, verdict, exam>>
        /\ checks[v].pc = "chain"
    BY DEF ChainAnswers
  <1>2. PICK c : c = [checks[v] EXCEPT !.pc = "sig", !.head = now, !.sig = shown,
                        !.ok = checks[v].ok /\ (checks[v].reorder \/ now = checks[v].head)]
    OBVIOUS
  <1>3. DOMAIN checks[v] = DOMAIN Idle /\ DOMAIN checks = 1..MaxChecks
    BY DEF IInv, TypeOK
  <1>4. checks' = [checks EXCEPT ![v] = c]
    BY <1>2, <1>3 DEF ChainAnswers
  <1>5. /\ DOMAIN c = DOMAIN Idle /\ c.pc = "sig" /\ c.log = checks[v].log
        /\ c.sha = checks[v].sha /\ c.sig = shown
        /\ c.ok = (checks[v].ok /\ (checks[v].reorder \/ now = checks[v].head))
    BY <1>2, <1>3, IdleIs
  <1>6. /\ shown # None /\ \E s \in Scenarios : checks[v].log = BundledLog(s)
        /\ checks[v].ok => \E r \in Scenarios \ Altered : checks[v].sha = BundledLog(r)
    BY <1>1 DEF IInv, ChecksStand, CheckStands
  <1>7. CheckStands(c)
    BY <1>5, <1>6 DEF CheckStands
  <1>8. VerdictBindsOneRun'
    BY <1>1 DEF IInv, VerdictBindsOneRun
  <1>9. toggle' \in BOOLEAN
    BY <1>1 DEF IInv, TypeOK
  <1>10. QED
    BY <1>1, <1>4, <1>5, <1>7, <1>8, <1>9, CheckStep

\* A signature that verifies is over the payload of the run it is checked with.
LEMMA SignatureStep ==
  ASSUME IInv, NEW v \in 1..MaxChecks, SignatureAnswers(v)
  PROVE  IInv'
  <1>1. UNCHANGED <<boot, shown, loads, issued, transport, toggle, exam>> /\ checks[v].pc = "sig"
    BY DEF SignatureAnswers
  <1>2. PICK pill \in {"unsupported", IF SignatureValid(checks[v]) THEN "VALID" ELSE "INVALID"} :
          verdict' = [said |-> RollUp(checks[v], pill), on |-> checks[v]]
    BY DEF SignatureAnswers
  <1>3. PICK c : c = [Idle EXCEPT !.pc = "done"]
    OBVIOUS
  <1>4. checks' = [checks EXCEPT ![v] = c]
    BY <1>3 DEF SignatureAnswers
  <1>5. DOMAIN c = DOMAIN Idle /\ c.pc = "done"
    BY <1>3, IdleIs
  <1>6. CheckStands(c)
    BY <1>5 DEF CheckStands
  <1>7. PICK d : d = checks[v]
    OBVIOUS
  <1>8. VerdictBindsOneRun'
    <2>1. SUFFICES ASSUME verdict'.said = "all three verified"
                   PROVE  /\ ~ d.reorder /\ d.sig \notin Altered
                          /\ d.sha = BundledLog(d.sig)
                          /\ d.head = ChainHeadOf(BundledLog(d.sig), FALSE)
      BY <1>2, <1>7 DEF VerdictBindsOneRun
    <2>2. RollUp(d, pill) = "all three verified"
      BY <1>2, <1>7, <2>1
    <2>3. ~d.reorder /\ d.ok /\ pill = "VALID"
      BY <2>2 DEF RollUp
    <2>4. SignatureValid(d)
      BY <1>2, <1>7, <2>3
    <2>5. PICK s \in Scenarios \ Altered : d.sha = BundledLog(s)
      BY <1>1, <1>7, <2>3 DEF IInv, ChecksStand, CheckStands
    <2>6. d.sha = RecordedLog(s) /\ d.sha # None
      BY <2>5, LogsAre
    <2>7. d.sha = RecordedLog(d.sig) /\ d.head = ChainHeadOf(RecordedLog(d.sig), FALSE)
      BY <2>4, <2>6 DEF SignatureValid, Bound
    <2>8. s = d.sig
      BY <2>5, <2>6, <2>7, LogsAre
    <2>9. QED
      BY <2>3, <2>5, <2>7, <2>8
  <1>9. toggle' \in BOOLEAN
    BY <1>1 DEF IInv, TypeOK
  <1>10. QED
    BY <1>1, <1>4, <1>5, <1>6, <1>8, <1>9, CheckStep

LEMMA VerifyStep ==
  ASSUME IInv, Verify
  PROVE  IInv'
  BY StartVerifyStep, HashStep, TrustedStep, ChainStep, SignatureStep DEF Verify

LEMMA DrillKept ==
  ASSUME IInv, UNCHANGED <<boot, shown, loads, issued, proofs, cursor, live>>,
         playing' \in BOOLEAN, timers' \in Nat,
         DOMAIN drill' = DOMAIN NoDrill, drill'.manifest = drill.manifest, drill'.on \in BOOLEAN,
         drill'.overlay \in {"none", "question", "reveal", "result"},
         ~Hasty => ExamStands' /\ CertificateIsEarned'
  PROVE  IInv'
  <1>1. TypeOK'
    BY DEF IInv, TypeOK, proofs
  <1>2. PageStands'
    <2>1. Steps' = Steps
      BY DEF Steps
    <2>2. QED
      BY <2>1 DEF IInv, PageStands
  <1>3. ChecksStand' /\ VerdictBindsOneRun'
    BY ChecksKept DEF IInv, proofs
  <1>4. QED
    BY <1>1, <1>2, <1>3 DEF IInv

LEMMA NoDrillIs == DOMAIN NoDrill = {"manifest", "on", "index", "answers", "overlay"}
  BY DEF NoDrill

LEMMA StartDrillStep ==
  ASSUME IInv, StartDrill
  PROVE  IInv'
  <1>1. UNCHANGED <<boot, shown, loads, issued, cursor, live, proofs, receipt>>
        /\ GateCount(drill) > 0 /\ (loads # {} => Hasty) /\ StopPlay(timers)
    BY DEF StartDrill
  <1>2. DOMAIN drill = DOMAIN NoDrill /\ drill.manifest \in Runs /\ timers \in Nat
    BY DEF IInv, TypeOK
  <1>3. /\ DOMAIN drill' = DOMAIN NoDrill /\ drill'.manifest = drill.manifest /\ drill'.on = TRUE
        /\ drill'.index = 0 /\ drill'.answers = <<>> /\ drill'.overlay = "question"
    BY <1>2, NoDrillIs DEF StartDrill
  <1>4. playing' \in BOOLEAN /\ timers' \in Nat
    BY <1>1, <1>2, StopIs
  <1>5. ASSUME ~Hasty PROVE ExamStands' /\ CertificateIsEarned'
    <2>1. loads' = {}
      BY <1>1, <1>5
    <2>2. drill.manifest # None /\ GateCount(drill) \in Nat
      BY <1>1, <1>2, ConsoleAssumption DEF GateCount, Runs
    <2>3. GateCount(drill)' = GateCount(drill)
      BY <1>3 DEF GateCount
    <2>4. DOMAIN drill'.answers = {}
      BY <1>3
    <2>5. ExamStands'
      BY <1>1, <1>3, <2>1, <2>2, <2>3, <2>4 DEF ExamStands, Examining
    <2>6. CertificateIsEarned'
      BY <1>1, <1>5 DEF IInv, CertificateIsEarned
    <2>7. QED
      BY <2>5, <2>6
  <1>6. drill'.on \in BOOLEAN
    BY <1>3
  <1>7. QED
    BY <1>1, <1>3, <1>4, <1>5, <1>6, DrillKept

LEMMA QuitDrillStep ==
  ASSUME IInv, QuitDrill
  PROVE  IInv'
  <1>1. UNCHANGED <<boot, shown, loads, issued, transport, proofs, receipt>>
    BY DEF QuitDrill
  <1>2. DOMAIN drill = DOMAIN NoDrill /\ playing \in BOOLEAN /\ timers \in Nat
    BY DEF IInv, TypeOK
  <1>3. /\ DOMAIN drill' = DOMAIN NoDrill /\ drill'.manifest = drill.manifest /\ drill'.on = FALSE
        /\ drill'.overlay = "none"
    BY <1>2, NoDrillIs DEF QuitDrill
  <1>4. ExamStands'
    BY <1>3 DEF ExamStands, Examining
  <1>5. ~Hasty => CertificateIsEarned'
    BY <1>1 DEF IInv, CertificateIsEarned
  <1>6. drill'.on \in BOOLEAN
    BY <1>3
  <1>7. QED
    BY <1>1, <1>2, <1>3, <1>4, <1>5, <1>6, DrillKept DEF transport

LEMMA AnswerDrillStep ==
  ASSUME IInv, AnswerDrill
  PROVE  IInv'
  <1>1. UNCHANGED <<boot, shown, loads, issued, transport, proofs, receipt>>
        /\ drill.overlay = "question" /\ drill.on
    BY DEF AnswerDrill
  <1>2. DOMAIN drill = DOMAIN NoDrill /\ playing \in BOOLEAN /\ timers \in Nat /\ drill.on \in BOOLEAN
    BY DEF IInv, TypeOK
  <1>3. PICK right \in BOOLEAN :
          drill' = [drill EXCEPT !.overlay = "reveal",
                      !.answers = [i \in DOMAIN @ \cup {drill.index} |->
                                     IF i = drill.index
                                       THEN [right |-> right, of |-> drill.manifest] ELSE @[i]]]
    BY DEF AnswerDrill
  <1>4. /\ DOMAIN drill' = DOMAIN NoDrill /\ drill'.manifest = drill.manifest /\ drill'.on = drill.on
        /\ drill'.overlay = "reveal" /\ drill'.index = drill.index
        /\ drill'.answers = [i \in DOMAIN drill.answers \cup {drill.index} |->
                               IF i = drill.index
                                 THEN [right |-> right, of |-> drill.manifest] ELSE drill.answers[i]]
    BY <1>2, <1>3, NoDrillIs
  <1>5. ASSUME ~Hasty PROVE ExamStands' /\ CertificateIsEarned'
    <2>1. /\ loads = {} /\ drill.manifest # None /\ drill.index \in 0..(GateCount(drill) - 1)
          /\ DOMAIN drill.answers \subseteq 0..(drill.index - 1)
          /\ \A i \in DOMAIN drill.answers : drill.answers[i].of = drill.manifest
      BY <1>1, <1>5 DEF IInv, ExamStands, Examining
    <2>2. GateCount(drill)' = GateCount(drill)
      BY <1>4 DEF GateCount
    <2>3. /\ DOMAIN drill'.answers \subseteq 0..drill.index
          /\ \A i \in DOMAIN drill'.answers : drill'.answers[i].of = drill.manifest
      BY <1>4, <2>1
    <2>4. ExamStands'
      BY <1>1, <1>4, <2>1, <2>2, <2>3 DEF ExamStands, Examining
    <2>5. CertificateIsEarned'
      BY <1>1, <1>5 DEF IInv, CertificateIsEarned
    <2>6. QED
      BY <2>4, <2>5
  <1>6. drill'.on \in BOOLEAN
    BY <1>2, <1>4
  <1>7. QED
    BY <1>1, <1>2, <1>4, <1>5, <1>6, DrillKept DEF transport

\* Answers to no more than n gates that are right as often as there are gates answer
\* every gate.
LEMMA EveryGate ==
  ASSUME NEW n \in Nat, NEW d, DOMAIN d.answers \subseteq 0..(n - 1), Score(d) = n
  PROVE  \A i \in 0..(n - 1) : i \in DOMAIN d.answers /\ d.answers[i].right
  <1> DEFINE S == {i \in DOMAIN d.answers : d.answers[i].right}
  <1>1. S \in SUBSET (0..(n - 1)) /\ Cardinality(S) = n
    BY DEF Score
  <1>2. IsFiniteSet(0..(n - 1)) /\ Cardinality(0..(n - 1)) = n
    BY FS_Interval
  <1>3. S = 0..(n - 1)
    <2> HIDE DEF S
    <2>1. QED
      BY <1>1, <1>2, FS_Subset
  <1>4. QED
    BY <1>3

LEMMA NextGateStep ==
  ASSUME IInv, NextDrillGate
  PROVE  IInv'
  <1>1. UNCHANGED <<boot, shown, loads, issued, transport, proofs>> /\ drill.overlay = "reveal"
    BY DEF NextDrillGate
  <1>2. /\ DOMAIN drill = DOMAIN NoDrill /\ playing \in BOOLEAN /\ timers \in Nat
        /\ drill.on \in BOOLEAN /\ drill.manifest \in Runs
    BY DEF IInv, TypeOK
  <1>3. PICK d : d = [drill EXCEPT !.index = @ + 1]
    OBVIOUS
  <1>4. /\ DOMAIN d = DOMAIN NoDrill /\ d.manifest = drill.manifest /\ d.on = drill.on
        /\ d.index = drill.index + 1 /\ d.answers = drill.answers
        /\ GateCount(d) = GateCount(drill)
    <2>1. /\ DOMAIN d = DOMAIN NoDrill /\ d.manifest = drill.manifest /\ d.on = drill.on
          /\ d.index = drill.index + 1 /\ d.answers = drill.answers
      BY <1>2, <1>3, NoDrillIs
    <2>2. QED
      BY <2>1 DEF GateCount
  <1>5. /\ d.index >= GateCount(d) => FinishDrill(d)
        /\ ~(d.index >= GateCount(d)) =>
             drill' = [d EXCEPT !.overlay = "question"] /\ UNCHANGED receipt
    BY <1>3 DEF NextDrillGate
  <1>6. ~Hasty =>
          /\ loads = {} /\ drill.on /\ drill.manifest # None
          /\ drill.index \in 0..(GateCount(drill) - 1)
          /\ DOMAIN drill.answers \subseteq 0..drill.index
          /\ \A i \in DOMAIN drill.answers : drill.answers[i].of = drill.manifest
    BY <1>1 DEF IInv, ExamStands, Examining
  <1>7. GateCount(drill) \in Nat
    BY <1>2, ConsoleAssumption DEF GateCount, Runs
  <1>8. CASE d.index >= GateCount(d)
    <2>1. /\ drill' = [d EXCEPT !.on = FALSE, !.overlay = "result"]
          /\ receipt' = IF Score(d) = GateCount(d)
                        THEN [run |-> d.manifest, answers |-> d.answers] ELSE None
      BY <1>5, <1>8 DEF FinishDrill
    <2>2. /\ DOMAIN drill' = DOMAIN NoDrill /\ drill'.manifest = drill.manifest /\ drill'.on = FALSE
          /\ drill'.overlay = "result"
      BY <1>4, <2>1, NoDrillIs
    <2>3. ~Hasty => ExamStands'
      BY <1>1, <1>6, <2>2 DEF ExamStands, Examining
    <2>4. ASSUME ~Hasty PROVE CertificateIsEarned'
      <3>1. SUFFICES ASSUME receipt' # None PROVE CertificateIsEarned'
        BY DEF CertificateIsEarned
      <3>2. Score(d) = GateCount(drill) /\ receipt' = [run |-> d.manifest, answers |-> d.answers]
        BY <1>4, <2>1, <3>1
      <3>3. drill.index + 1 = GateCount(drill)
        BY <1>4, <1>6, <1>7, <1>8, <2>4
      <3>4. DOMAIN d.answers \subseteq 0..(GateCount(drill) - 1)
        BY <1>4, <1>6, <1>7, <2>4, <3>3
      <3>5. \A i \in 0..(GateCount(drill) - 1) : i \in DOMAIN d.answers /\ d.answers[i].right
        BY <1>7, <3>2, <3>4, EveryGate
      <3>6. receipt'.run = drill.manifest /\ receipt'.answers = d.answers
        BY <1>4, <3>2
      <3>7. drill.manifest # None /\ GateCount(drill) = Gates[drill.manifest]
        BY <1>6, <2>4 DEF GateCount
      <3>8. QED
        BY <1>4, <1>6, <2>4, <3>5, <3>6, <3>7 DEF CertificateIsEarned
    <2>5. drill'.on \in BOOLEAN
      BY <2>2
    <2>6. QED
      BY <1>1, <1>2, <2>2, <2>3, <2>4, <2>5, DrillKept DEF transport
  <1>9. CASE ~(d.index >= GateCount(d))
    <2>1. drill' = [d EXCEPT !.overlay = "question"] /\ UNCHANGED receipt
      BY <1>5, <1>9
    <2>2. /\ DOMAIN drill' = DOMAIN NoDrill /\ drill'.manifest = drill.manifest /\ drill'.on = drill.on
          /\ drill'.overlay = "question" /\ drill'.index = drill.index + 1
          /\ drill'.answers = drill.answers
      BY <1>4, <2>1, NoDrillIs
    <2>3. GateCount(drill)' = GateCount(drill)
      BY <2>2 DEF GateCount
    <2>4. ASSUME ~Hasty PROVE ExamStands' /\ CertificateIsEarned'
      <3>1. /\ drill'.index \in 0..(GateCount(drill) - 1)
            /\ DOMAIN drill'.answers \subseteq 0..(drill'.index - 1)
        BY <1>4, <1>6, <1>7, <1>9, <2>2, <2>4
      <3>2. ExamStands'
        BY <1>1, <1>6, <2>2, <2>3, <2>4, <3>1 DEF ExamStands, Examining
      <3>3. CertificateIsEarned'
        BY <2>1, <2>4 DEF IInv, CertificateIsEarned
      <3>4. QED
        BY <3>2, <3>3
    <2>5. drill'.on \in BOOLEAN
      BY <1>2, <2>2
    <2>6. QED
      BY <1>1, <1>2, <2>2, <2>4, <2>5, DrillKept DEF transport
  <1>10. QED
    BY <1>8, <1>9

LEMMA DrillStep ==
  ASSUME IInv, Drill
  PROVE  IInv'
  BY StartDrillStep, QuitDrillStep, AnswerDrillStep, NextGateStep DEF Drill

LEMMA StutterStep ==
  ASSUME IInv, UNCHANGED consoleVars
  PROVE  IInv'
  <1>1. UNCHANGED <<boot, shown, loads, issued, proofs, exam, cursor, playing, timers, live>>
    BY DEF consoleVars, transport
  <1>2. /\ cursor' \in Nat /\ cursor' <= Len(Steps) /\ playing' \in BOOLEAN
        /\ timers' \in Nat /\ live' \in BOOLEAN
    BY <1>1 DEF IInv, TypeOK, PageStands
  <1>3. QED
    BY <1>1, <1>2, TransportStep

-----------------------------------------------------------------------------
(***************************************************************************)
(* The theorems.                                                           *)
(***************************************************************************)
\* The page stands: whichever loads, checks and answers overlap, a check that still
\* passes has read an unaltered log, and (unless runs may be changed in a drill) an
\* open drill is taken on one manifest, gate by gate.
THEOREM ConsoleInvariant == ConsoleSpec => []IInv
  <1>1. IInv /\ [ConsoleNext]_consoleVars => IInv'
    BY LoadStep, PlayStep, VerifyStep, DrillStep, StutterStep DEF ConsoleNext
  <1>2. QED
    BY InitIInv, <1>1, PTL DEF ConsoleSpec

\* The roll-up line of verifyAll says that all three checks passed only of one run.
THEOREM VerdictsBind == ConsoleSpec => []VerdictBindsOneRun
  <1>1. IInv => VerdictBindsOneRun
    BY DEF IInv
  <1>2. QED
    BY ConsoleInvariant, <1>1, PTL

\* finishDrill certifies only who matched every verdict of the run it names, as long
\* as no run is selected while a drill is open.
THEOREM CertificatesAreEarned ==
  ASSUME ~Hasty
  PROVE  ConsoleSpec => []CertificateIsEarned
  <1>1. IInv => CertificateIsEarned
    BY DEF IInv
  <1>2. QED
    BY ConsoleInvariant, <1>1, PTL

\* deriveGate agrees with the chips and the clocks at every cursor of every run.
THEOREM PanelsAlwaysAgree == ConsoleSpec => []PanelsAgree
  <1>1. ASSUME IInv PROVE PanelsAgree
    <2>1. SUFFICES ASSUME shown # None PROVE PanelsAgree
      BY DEF PanelsAgree
    <2>2. /\ shown \in Scenarios /\ Steps = BuildSteps(shown) /\ Steps \in Seq(Marks)
          /\ Len(Steps) \in Nat
      BY <1>1, <2>1, StepsAre DEF IInv
    <2>3. cursor \in 0..Len(Steps)
      BY <1>1, <2>2 DEF IInv, TypeOK, PageStands
    <2>4. PICK s : s = shown
      OBVIOUS
    <2>5. PICK q : q = Steps
      OBVIOUS
    <2>6. PICK n : n = cursor
      OBVIOUS
    <2>7. s \in Scenarios /\ q = BuildSteps(s) /\ n \in 0..Len(q)
      BY <2>2, <2>3, <2>4, <2>5, <2>6
    <2>8. PICK h : ReleasedAt(q, h, s)
      BY <2>7, TimelineIs
    <2>9. \A beat \in Beats[s] : ShownIn(q, beat)
      BY <2>7, TimelineIs
    <2>10. DeriveGate(SubSeq(q, 1, n)).release = "released"
             <=> \A b \in Branches : BranchState(SubSeq(q, 1, n), b) = "released"
      BY <2>7, <2>8, GateAgrees
    <2>11. /\ ReachedBeats(SubSeq(q, 1, n)) \subseteq Beats[s]
           /\ n = Len(q) => ReachedBeats(SubSeq(q, 1, n)) = Beats[s]
      <3>1. /\ ReachedBeats(SubSeq(q, 1, n)) \subseteq Beats[s]
            /\ \A beat : n = Len(q) /\ ShownIn(q, beat) => beat \in ReachedBeats(SubSeq(q, 1, n))
        BY <2>7, <2>8, BeatsAgree
      <3>2. QED
        BY <2>9, <3>1
    <2>12. QED
      <3>1. Active = SubSeq(q, 1, n)
        BY <2>5, <2>6 DEF Active
      <3>2. /\ DeriveGate(Active).release = "released"
                 <=> \A b \in Branches : BranchState(Active, b) = "released"
            /\ ReachedBeats(Active) \subseteq Beats[shown]
            /\ cursor = Len(Steps) => ReachedBeats(Active) = Beats[shown]
        BY <2>4, <2>5, <2>6, <2>10, <2>11, <3>1
      <3>3. QED
        BY <3>2 DEF PanelsAgree
  <1>2. QED
    BY ConsoleInvariant, <1>1, PTL
=============================================================================
