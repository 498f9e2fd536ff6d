-------------------------------- MODULE BandRoom --------------------------------
(***************************************************************************)
(* The Band room of a run: the run of FilingFloor with every message the   *)
(* agents post, who is mentioned in it, and which mention an agent takes   *)
(* when it drains its inbox.  The driver is sequential and plays every     *)
(* agent; an inbox serves its oldest unmarked mention, whatever the driver *)
(* is waiting for.                                                         *)
(*                                                                         *)
(* A message is its dedup key, its sender, those it mentions and the       *)
(* branches it is about.  The fake room and the live one differ in this    *)
(* model by the lag with which the last message becomes visible.           *)
(***************************************************************************)
EXTENDS FilingFloor

CONSTANT Lags   \* for how many polls the last message may stay unseen
ASSUME LagsAssumption == Lags \subseteq Nat

VARIABLES
  challenge,  \* the run has a Challenger agent
  apClient,   \* the drafter of the Art 34 communication has a client
  lag,        \* how late the last message is
  room        \* the room, and what its agents made of it

options == <<challenge, apClient, lag>>

Startup == { DRAFTER_ROLES[i] : i \in DOMAIN DRAFTER_ROLES }
Agents == {"warden", "triage", "challenger"} \cup Branches
MAX_LOOPS == 12     \* polls of one drain
IDLE_BREAKS == 6    \* empty polls after which the Warden's loop ends
STALL_THRESHOLD == 1

Message(key, from, to, about) ==
  [key |-> key, from |-> from, to |-> to, about |-> about]

NoWatch == [last |-> 0, liveness |-> "healthy"]

EmptyRoom(peers) ==
  [log |-> <<>>, marked |-> [a \in Agents |-> {}], peers |-> peers,
   fault |-> "none",
   clock |-> 0, watch |-> [b \in Branches |-> NoWatch]]

RoomInit ==
  /\ Init
  /\ challenge \in BOOLEAN /\ apClient \in BOOLEAN /\ lag \in Lags
  /\ room = EmptyRoom(Startup \cup {"triage"} \cup
                        (IF challenge THEN {"challenger"} ELSE {}))
-----------------------------------------------------------------------------
(***************************************************************************)
(* Posting and announcing.  An operator takes a room and returns the room  *)
(* after it.                                                               *)
(***************************************************************************)
Posted(r, key) == \E i \in DOMAIN r.log : r.log[i].key = key

\* A key that is in the room already is dropped; the room refuses a message
\* whose sender mentions itself.
Post(r, m) ==
  IF Posted(r, m.key) THEN r
  ELSE IF m.from \in m.to THEN [r EXCEPT !.fault = "refused"]
  ELSE [r EXCEPT !.log = Append(@, m)]

Register(r, peer) == [r EXCEPT !.peers = @ \cup {peer}]

\* The Warden mentions those it names except itself, or else everybody.
Addressees(r, to) ==
  IF to \ {"warden"} # {} THEN to \ {"warden"} ELSE r.peers \ {"warden"}

AnnounceAbout(r, key, to, about) ==
  LET named == Addressees(r, to) IN
    IF named = {} THEN [r EXCEPT !.fault = "refused"]
                  ELSE Post(r, Message(key, "warden", named, about))

Announce(r, topic, b, round, to) ==
  AnnounceAbout(r, <<topic, b, round>>, to, {b})

Tell(r, topic, b, round, from, to) ==
  Post(r, Message(<<topic, b, round>>, from, to, {b}))
-----------------------------------------------------------------------------
(***************************************************************************)
(* Draining an inbox.                                                      *)
(***************************************************************************)
Inbox(r, a) == { i \in DOMAIN r.log : a \in r.log[i].to /\ i \notin r.marked[a] }

Oldest(S) == CHOOSE i \in S : \A j \in S : i <= j

\* The last message of the room is seen after `lag` polls.
SeenAfter(r, i) == IF i = Len(r.log) THEN lag ELSE 0

Mark(r, a, S) == [r EXCEPT !.marked[a] = @ \cup S]
Starve(r) == [r EXCEPT !.fault = "starved"]

\* _drain, and the mention is marked processed: the oldest one is answered.
Answer(r, a) ==
  LET inbox == Inbox(r, a) IN
    IF inbox = {} \/ SeenAfter(r, Oldest(inbox)) >= MAX_LOOPS THEN Starve(r)
    ELSE Mark(r, a, {Oldest(inbox)})

IsEnvelope(m) == m.key[1] \in {"propose", "concur"}

\* Fault: what is swept aside is not marked, and is served again.
AnswerEnvelope_Unmarked(r, a) ==
  IF ~IsEnvelope(r.log[Oldest(Inbox(r, a))]) THEN Starve(r) ELSE Answer(r, a)

\* _drain_for_envelope: the mentions before the envelope are swept aside, one a
\* poll; the first poll that finds nothing, or the twelfth, gives up.
AnswerEnvelope(r, a) ==
  LET inbox == Inbox(r, a)
      envelopes == { i \in inbox : IsEnvelope(r.log[i]) }
      swept == { i \in inbox : i < Oldest(envelopes) }
  IN  IF envelopes = {} THEN Starve(Mark(r, a, inbox))
      ELSE IF \/ Cardinality(swept) >= MAX_LOOPS
              \/ SeenAfter(r, Oldest(envelopes)) > Cardinality(swept)
        THEN Starve(Mark(r, a, swept))
        ELSE Answer(Mark(r, a, swept), a)

\* The Warden's loop answers every mention it finds; what has no claims block
\* raises in its handler and is marked failed, and the loop goes on.
Observe(r, b) ==
  LET inbox == Inbox(r, "warden")
      seen == { i \in inbox : SeenAfter(r, i) < IDLE_BREAKS }
      drafts == { i \in seen : r.log[i].key[1] = "draft" }
  IN  IF drafts = {} \/ Cardinality(seen) > MAX_LOOPS THEN Starve(Mark(r, "warden", seen))
      ELSE Announce(Mark(r, "warden", seen), "ack", b, 1, {b})
-----------------------------------------------------------------------------
(***************************************************************************)
(* The watchdog: a logical clock that ticks at every drain of a drafter.   *)
(***************************************************************************)
Tick(r) == [r EXCEPT !.clock = @ + 1]
Heartbeat(r, b) == [r EXCEPT !.watch[b].last = r.clock]
WatchedFrom(r, b) == [r EXCEPT !.watch[b] = [last |-> r.clock, liveness |-> "healthy"]]
IsStalled(r, b) == r.clock - r.watch[b].last > STALL_THRESHOLD

Check(r, b) ==
  IF r.watch[b].liveness = "dead" \/ ~IsStalled(r, b) THEN r
  ELSE Announce([r EXCEPT !.watch[b].liveness = "dead"], "dead", b, 1, {b})

Recover(r, b) ==
  IF r.watch[b].liveness # "dead" THEN r
  ELSE Announce([r EXCEPT !.watch[b] = [last |-> r.clock, liveness |-> "recovered"]],
                "recovered", b, 1, {b})
-----------------------------------------------------------------------------
(***************************************************************************)
(* The messages of each step of the run.                                   *)
(***************************************************************************)
OpenMessages ==
  LET held == IF scenario.mode = "legal_hold"
                THEN AnnounceAbout(room, <<"hold", "attached", 1>>, Startup, {}) ELSE room
  IN  Post(held, Message(<<"factrecord", "all", 1>>, "triage", Startup, {}))

DraftFrom(r, b, round) == Tell(r, "draft", b, round, b, {"warden"})

\* Fault: the silent drain between the kill and the restart goes uncounted.
Killed_Uncounted(r, b) == Check(Tick(r), b)

\* The drafter was killed after its post and before its mark: the watchdog sees
\* a silent drain and the drain of the restart.
Killed(r, b) == Check(Tick(Tick(r)), b)

\* _drive_drafter: the draft is posted for the oldest mention.  After a kill the
\* same mention is served again, and the draft that is in the room already is
\* not posted twice.
DrafterTurn(r, b) ==
  LET started == Tick(WatchedFrom(r, b))
      drafted == Heartbeat(DraftFrom(started, b, 1), b)
  IN  IF Answer(started, b).fault # "none" THEN Answer(started, b)
      ELSE IF scenario.mode = "chaos" /\ b = "sec"
        THEN Recover(Answer(Announce(Killed(drafted, b), "dedup", b, 1, {b}), b), b)
        ELSE Answer(drafted, b)

\* The Challenger objects to the draft; the drafter answers it and the Warden.
Challenged(r, b) ==
  IF ~challenge THEN r
  ELSE Tell(Tell(r, "challenge", b, 1, "challenger", {b}),
            "challenge-reply", b, 1, b, {"challenger", "warden"})

DraftMessages(b) ==
  LET turned == DrafterTurn(room, b)
      observed == Observe(turned, b)
  IN  IF turned.fault # "none" THEN turned
      ELSE IF observed.fault # "none" THEN observed
      ELSE Challenged(observed, b)

RecruitMessages(b) ==
  DraftFrom(Announce(Register(room, b), "recruit", b, 1, {b}), b, 1)

ScanMessages ==
  LET routed == Announce(room, "art56", "all", 1, Startup)
      pair == CHOOSE p \in OpposedObligations :
                /\ \A b \in p : InRun(b)
                /\ "dora" \in p \/ ~\E q \in OpposedObligations :
                                      "dora" \in q /\ \A b \in q : InRun(b)
  IN  IF conflict' = "blocked"
        THEN Announce(routed, "xborder-block", "all", 1, pair \cap Startup)
        ELSE routed

SignoffMessages == Announce(room, "xborder-resolved", "all", 1, Startup)

\* The two branches of the first conflict the diff lists.
FirstConflict ==
  LET clash(p) == Contradict(claims, p)
      low(p)  == Rank(CHOOSE b \in p : \A c \in p : Rank(b) <= Rank(c))
      high(p) == Rank(CHOOSE b \in p : \A c \in p : Rank(b) >= Rank(c))
      pairs == { p \in { {a, b} : a, b \in Drafted } : clash(p) }
  IN  CHOOSE p \in pairs : \A q \in pairs :
        low(p) < low(q) \/ (low(p) = low(q) /\ high(p) <= high(q))

DiffMessages ==
  IF Contradict(claims, Drafted)
    THEN Announce(room, "block", "all", 1, FirstConflict \cap Startup)
    ELSE Announce(room, "diff-green", "all", 1, Startup)

PeerOf(fixed) == CHOOSE b \in FirstConflict : b # fixed

\* The sent-back drafter asks its peer, is told the canonical value and files
\* again.
ResolveMessages ==
  LET fixed == ContradictedBranch
      peer == PeerOf(fixed)
      asked == Tell(Tell(room, "reconcile", fixed, 1, fixed, {peer}),
                    "reconcile", peer, 1, peer, {fixed})
      spoken == IF {fixed, peer} \subseteq Startup THEN asked ELSE room
      refiled == IF fixed \in Startup THEN Tell(spoken, "redraft", fixed, 2, fixed, {"warden"})
                                      ELSE spoken
  IN  IF step' = "raised" THEN refiled
      ELSE Announce(refiled, "diff-resolved", "all", 1, {fixed} \cap Startup)

\* Fault: the keys are announced with the first release of the loop.
LoopEnds_AtFirst == step = "release"

\* The loop over the released branches is over.
LoopEnds == step = "release" /\ Len(todo) = 1

\* One announcement for each key, naming the branches that were released.
KeysForAll ==
  LET released == { b \in Branches : filed'[b] # <<>> }
      told(r, topic) == AnnounceAbout(r, <<topic, "all", 1>>, Startup, released)
  IN  IF LoopEnds /\ released # {} THEN told(told(room, "key1"), "released") ELSE room

\* The later releases are told key by key.
Told(b) == IF b = AffectedParty /\ ~apClient THEN {} ELSE {b}
Narrated == step \in Releases \ {"release"}

SignMessages ==
  LET b == Head(todo) IN
    IF Narrated /\ lock' = "signing"
      THEN Announce(room, "key1", b, Len(filed[b]) + 1, Told(b)) ELSE room

TurnMessages ==
  LET b == Head(todo)
      released == IF Narrated /\ step' # "raised"
                    THEN Announce(room, "released", b, Len(filed[b]) + 1, Told(b))
                    ELSE KeysForAll
  IN  IF step = "cure" THEN Announce(released, "accepted", b, 1, {b}) ELSE released

AmendMessages ==
  LET pair == {"sec", "nis2"}
      amended == Post(room, Message(<<"amend", "all", 1>>, "triage", pair, pair))
  IN  IF step' = "raised" THEN amended ELSE Announce(amended, "amend-block", "all", 1, pair)

ProposeMessages ==
  LET asked == Answer(room, "sec") IN
    IF asked.fault # "none" THEN asked
                            ELSE Tell(asked, "propose", "sec", 1, "sec", {"nis2"})

ConcurMessages ==
  LET asked == AnswerEnvelope(room, "nis2") IN
    IF asked.fault # "none" THEN asked
                            ELSE Tell(asked, "concur", "nis2", 1, "nis2", {"sec"})

\* The round of a filing is part of its dedup key.
AmendedRound == 2

AmendedDraftMessages ==
  IF CanSubmit THEN DraftFrom(room, Head(todo), AmendedRound) ELSE room

AmendDiffMessages ==
  IF step' = "raised" THEN room
                      ELSE Announce(room, "amend-green", "all", 1, {"sec", "nis2"})

\* Everybody hears whether the customers will be told; the communication itself
\* is posted if its drafter has a client.
NoHighRiskMessages == Announce(room, "art34", "no", 1, room.peers)
HighRiskMessages ==
  LET required == Announce(room, "art34", "yes", 1, room.peers) IN
    IF apClient THEN DraftFrom(Register(required, AffectedParty), AffectedParty, 1)
                ELSE required

NoticeMessages ==
  Tell(room, "deficiency", "sec", 1, "warden", {"sec"})

CureMessages ==
  LET asked == Answer(room, "sec") IN
    IF asked.fault # "none" THEN asked ELSE DraftFrom(asked, "sec", 2)

LiftMessages == AnnounceAbout(room, <<"hold", "released", 1>>, Startup, {})

\* The regimes submit in an order of their own: SEC, NIS2, ICO.
SubmissionMessages ==
  LET filedOf(r, b) ==
        IF b \in receipts' THEN Announce(r, "submission", b, 1, Startup) ELSE r
  IN  filedOf(filedOf(filedOf(room, "sec"), "nis2"), "uk")
-----------------------------------------------------------------------------
Hears(r) == r.fault # "starved" /\ room' = r /\ UNCHANGED options
Quiet == UNCHANGED <<options, room>>

RoomDrive ==
  \/ Open /\ Hears(OpenMessages)
  \/ (Materiality \/ Reportability \/ SkipSuppressed) /\ Quiet
  \/ Draft /\ Hears(DraftMessages(Head(todo)))
  \/ Recruit /\ Hears(RecruitMessages(Head(todo)))
  \/ CrossBorderScan /\ Hears(ScanMessages)
  \/ CrossBorderSignoff /\ Hears(SignoffMessages)
  \/ Diff /\ Hears(DiffMessages)
  \/ Resolve /\ Hears(ResolveMessages)
  \/ (BeginRelease \/ BeginRerelease \/ Seal) /\ Quiet
  \/ SkipUnchecked /\ Hears(KeysForAll)
  \/ SignKey /\ Hears(SignMessages)
  \/ Turn /\ Hears(TurnMessages)
  \/ Amend /\ Hears(AmendMessages)
  \/ Propose /\ Hears(ProposeMessages)
  \/ Concur /\ Hears(ConcurMessages)
  \/ SubmitAmendment /\ Hears(AmendedDraftMessages)
  \/ AmendDiff /\ Hears(AmendDiffMessages)
  \/ NoHighRisk /\ Hears(NoHighRiskMessages)
  \/ HighRisk /\ Hears(HighRiskMessages)
  \/ DeficiencyNotice /\ Hears(NoticeMessages)
  \/ Cure /\ Hears(CureMessages)
  \/ LiftHold /\ Hears(LiftMessages)
  \/ Submission /\ Hears(SubmissionMessages)

\* The drains of this step: the run stops where one comes back empty.
Drained ==
  CASE step = "drafting" /\ state[Head(todo)] # "suppressed" -> DraftMessages(Head(todo))
    [] step = "propose" -> ProposeMessages
    [] step = "concur"  -> ConcurMessages
    [] step = "cure" /\ lock = "idle" -> CureMessages
    [] OTHER -> room

GiveUp ==
  /\ step \notin Finished
  /\ Drained.fault = "starved"
  /\ room' = Drained
  /\ Raise
  /\ UNCHANGED <<scenario, branchVars, lockVars, clock, dutyVars, options>>

RoomNext ==
  \/ RoomDrive
  \/ GiveUp
  \/ (Interrupt \/ Over) /\ Quiet

roomVars == <<vars, options, room>>

RoomSpec == RoomInit /\ [][RoomNext]_roomVars

\* The driver is one sequential function, and the room in its process: it goes
\* on as long as the floor does, and where a drain comes back empty it gives up.
FairRoomSpec == RoomSpec /\ WF_vars(Drive)
-----------------------------------------------------------------------------
(***************************************************************************)
(* Properties.                                                             *)
(***************************************************************************)
\* Nobody waits for a mention that does not come, and the run's own assertions
\* never fail: the driver raises only on a suppressed branch it amends, or when a
\* message takes more than five polls to show.  Up to that, every inbox holds
\* what it is drained for, the sweep for the envelope stays within its twelve,
\* and every announcement has its addressee.  (_drain, _drain_for_envelope,
\* _warden_announce, the RuntimeErrors of _run_full_floor)
TurnsAreServed ==
  /\ room.fault # "refused"
  /\ room.fault = "starved" => lag >= IDLE_BREAKS
  /\ step = "raised" =>
       \/ room.fault = "starved"
       \/ /\ scenario.mode = "amendment" /\ state["sec"] = "suppressed"
          /\ todo = AMENDMENT_BRANCHES /\ filed["sec"] = <<>>

At(key) == { i \in DOMAIN room.log : room.log[i].key = key }

ReleasesOf(b, round) ==
  { i \in DOMAIN room.log :
      /\ room.log[i].key[1] = "released" /\ b \in room.log[i].about
      /\ room.log[i].key[3] = round }

\* What the run files, the room has seen: when a run is sealed every version of
\* every filing was announced as released, after the draft of that version was
\* posted to the Warden.  Only the Art 34 communication of a run without its
\* client is released unseen.
RoomKnowsEveryFiling ==
  step = "sealed" =>
    \A b \in Branches : \A round \in DOMAIN filed[b] :
      \E told \in ReleasesOf(b, round) :
        \/ b = AffectedParty /\ ~apClient
        \/ \E drafted \in At(<<"draft", b, round>>) : drafted < told

\* A drafter that was killed is declared dead, then its second draft is dropped,
\* then it is declared recovered, all between its draft and the Warden's ack;
\* no drafter that was not killed is ever declared dead.
RecoveryIsTold ==
  \A b \in Startup :
    LET Once(topic) == Cardinality(At(<<topic, b, 1>>)) = 1
        Where(topic) == Oldest(At(<<topic, b, 1>>))
    IN  IF scenario.mode = "chaos" /\ b = "sec" /\ Once("ack")
          THEN /\ Once("draft") /\ Once("dead") /\ Once("dedup") /\ Once("recovered")
               /\ Where("draft") < Where("dead") /\ Where("dead") < Where("dedup")
               /\ Where("dedup") < Where("recovered")
               /\ Where("recovered") < Where("ack")
          ELSE Once("ack") => At(<<"dead", b, 1>>) = {}
-----------------------------------------------------------------------------
(***************************************************************************)
(* The inductive invariant of the room, next to that of the floor: which   *)
(* messages are there when the driver stands where it stands, and which    *)
(* mentions are still open.                                                *)
(***************************************************************************)
Topics == {"factrecord", "hold", "draft", "dead", "dedup", "recovered", "ack",
           "challenge", "challenge-reply", "recruit", "art56", "xborder-block",
           "xborder-resolved", "block", "diff-green", "reconcile", "redraft",
           "diff-resolved", "key1", "released", "accepted", "amend", "amend-block",
           "propose", "concur", "amend-green", "art34", "deficiency", "submission"}
Subjects == Branches \cup {"all", "attached", "released", "yes", "no"}
DedupKeys == Topics \X Subjects \X Nat
Messages == [key : DedupKeys, from : Agents,
             to : SUBSET Agents, about : SUBSET Subjects]
Rooms == [log : Seq(Messages), marked : [Agents -> SUBSET Nat],
          peers : SUBSET Agents, fault : {"none", "starved"}, clock : Nat,
          watch : [Branches -> [last : Nat,
                                liveness : {"healthy", "dead", "recovered"}]]]

\* Nothing is in the room twice, nothing is marked that is not there, and there
\* is always somebody to talk to.
Sound(r) ==
  /\ r \in Rooms /\ Startup \subseteq r.peers
  /\ \A i, j \in DOMAIN r.log : r.log[i].key = r.log[j].key => i = j
  /\ \A a \in Agents : r.marked[a] \subseteq DOMAIN r.log

OptionsOK == challenge \in BOOLEAN /\ apClient \in BOOLEAN /\ lag \in Nat

\* The branch has not had its turn to draft.
Undrafted(b) ==
  step \in {"open", "materiality", "reportability"} \/ (step = "drafting" /\ InTodo(b))

TurnTopics == {"draft", "dead", "dedup", "recovered", "ack"}
All(topic) == <<topic, "all", 1>>
ToNis2(topic) == <<topic, "nis2", 1>>
TheProposal == <<"propose", "sec", 1>>
BeforeAmend == Early \cup {"release", "amend"}

\* The phases in which nobody has brought up the topic.
Before(key) ==
  CASE key[1] = "diff-green" -> Early
    [] key \in {All("key1"), All("released")} -> Early \cup {"release"}
    [] key[1] \in {"amend", "amend-block"} -> BeforeAmend
    [] key[1] = "propose" -> BeforeAmend \cup {"propose"}
    [] key[1] = "concur" -> BeforeAmend \cup {"propose", "concur"}
    [] key[1] = "deficiency" -> Early \cup {"release", "deficiency"}
    [] OTHER -> {"open"}

Timely(key) ==
  /\ step \notin Before(key)
  /\ key[1] \in TurnTopics /\ key[2] \in Startup => ~Undrafted(key[2])
  /\ key[1] = "released" /\ key[2] \in Branches => key[3] <= Len(filed[key[2]])

TopicsOK == \A i \in DOMAIN room.log : Timely(room.log[i].key)

\* The last draft of every branch is in the room.
Cured(b) ==
  /\ scenario.mode = "deficiency" /\ b = "sec"
  /\ step \in Ending \/ (step = "cure" /\ lock # "idle")

DraftNumber(b) ==
  IF b # AffectedParty /\ (claims[b].records = "new" \/ Cured(b)) THEN 2 ELSE 1

DraftsPosted ==
  \A b \in Branches :
    claims[b] # NoClaims /\ (b = AffectedParty => apClient)
      => Posted(room, <<"draft", b, DraftNumber(b)>>)

\* And so is every release, once the loop that tells of it is over.
FilingIsTold(b, round) ==
  \E told \in ReleasesOf(b, round) :
    \/ b = AffectedParty /\ ~apClient
    \/ \E drafted \in At(<<"draft", b, round>>) : drafted < told

ReleasesTold ==
  step # "release" =>
    \A b \in Branches : \A round \in DOMAIN filed[b] : FilingIsTold(b, round)

\* Whom the driver waits for has mail.
InboxOK ==
  /\ step \in {"materiality", "reportability", "drafting"} =>
       /\ \A b \in Startup : Undrafted(b) => Inbox(room, b) # {}
       /\ \A i \in Inbox(room, "warden") :
            i = Len(room.log) /\ room.log[i].key[1] # "draft"
  /\ step = "propose" => Inbox(room, "sec") # {}
  /\ step = "cure" /\ lock = "idle" => Inbox(room, "sec") # {}

\* The mail of the drafter that is asked to concur: it has read the fact record
\* only, and what it sweeps aside before the envelope is at least six messages,
\* at most eight.
Due(key) ==
  \/ key = ToNis2("ack") /\ ~Undrafted("nis2")
  \/ key = All("diff-green") /\ step \notin Early
  \/ key \in {All("key1"), All("released")} /\ step \notin Early \cup {"release"}
  \/ key \in {All("amend"), All("amend-block")} /\ step \notin BeforeAmend

Dues == {ToNis2("ack")} \cup { All(topic) : topic \in {"diff-green", "key1", "released",
                                                       "amend", "amend-block"} }

\* The last message of the room asks it.
Asked ==
  /\ room.log # <<>>
  /\ LET last == room.log[Len(room.log)]
     IN  last.key = TheProposal /\ "nis2" \in last.to

MailOK ==
  Amends /\ step \in BeforeAmend \cup {"propose", "concur"} =>
    /\ \A i \in DOMAIN room.log : "nis2" \in room.log[i].to =>
         LET key == room.log[i].key IN
           \/ Due(key) \/ key = All("factrecord")
           \/ key = ToNis2("challenge") /\ ~Undrafted("nis2")
           \/ key = TheProposal /\ step = "concur"
    /\ \A i \in room.marked["nis2"] : room.log[i].key = All("factrecord")
    /\ \A key \in Dues : Due(key) =>
         \E i \in DOMAIN room.log : room.log[i].key = key /\ "nis2" \in room.log[i].to
    /\ step = "concur" => Asked

\* What the amendment found, and the order of its two branches.
ClaimsOK ==
  /\ step = "resolve" => "sec" \in Drafted
  /\ step \in {"amend_submit", "amend_release"} =>
       todo \in {AMENDMENT_BRANCHES, <<"nis2">>}
  /\ step = "amend_submit" /\ todo # AMENDMENT_BRANCHES => claims["sec"] = AmendedFacts
  /\ step = "amend_diff" => \A b \in Branches : Amended(b) => claims[b] = AmendedFacts

RoomIInv ==
  /\ OptionsOK /\ Sound(room) /\ RecoveryIsTold /\ TurnsAreServed /\ SignoffIsOpen
  /\ ~CutShort => /\ room.fault = "none" /\ TopicsOK /\ DraftsPosted
                 /\ ReleasesTold /\ InboxOK /\ MailOK /\ ClaimsOK
=============================================================================
