------------------------- MODULE GovernanceService -------------------------
(***************************************************************************)
(* The standing service over a directory of sealed runs: service/app.py,   *)
(* service/worker.py, service/corpus.py, and scripts/attest_portfolio.py,  *)
(* which reads the same directory.                                         *)
(*                                                                         *)
(* Every request runs in a thread of its own and keeps nothing in memory:  *)
(* a posted incident becomes two files, its log and then its signature,    *)
(* and every answer is folded from the files that a read finds, one run    *)
(* after the other, while other threads write.  The log is moved into the  *)
(* directory by a rename, or by a copy when the directory is a volume of   *)
(* its own.  The process may stop; people remove, rename and change files. *)
(***************************************************************************)
EXTENDS Portfolio

CONSTANTS Modes,         \* the scenarios that were captured or may be posted
          PostModes,     \* what is posted: scenarios of Modes, or something else
          Posts,         \* clients that post an incident
          Attestor,      \* the attestation script: the read endpoints read as it does
          Names,         \* file names of runs, in their order
          Captures,      \* the runs that are there: name -> mode
          Intake,        \* the declared pending records: [key, deadline]
          EntityMap,     \* the declared entities: name -> entity
          MAX_FAULTS       \* crashes of the process and changes of the files

ASSUME ServiceAssumption ==
  /\ IsFiniteSet(Modes) /\ Modes \cap {"none", "torn", "changed", "cut"} = {}
  /\ Names \subseteq Nat /\ DOMAIN Captures \subseteq Names
  /\ \A n \in DOMAIN Captures : Captures[n] \in Modes
  /\ Attestor \notin Posts
  /\ MAX_FAULTS \in Nat

Threads == Posts \cup {Attestor}

VARIABLES facts,      \* mode -> the facts of its log: it never changes
          renames,    \* the scratch directory is on the same volume
          disk,       \* name -> [log, sig], the two files of a run
          post,       \* client -> [at, mode, name]
          read,       \* thread -> [at, todo, seen, since]
          document,   \* the runs the script attested, NoDocument before
          crashes, edits

vars == <<facts, renames, disk, post, read, document, crashes, edits>>

(***************************************************************************)
(* The files.  A log is the captured log of a mode, cut within a line,     *)
(* or readable and not as captured; a signature is of the log of a mode,   *)
(* or was cut.                                                             *)
(***************************************************************************)
LogFile == Modes \cup {"none", "torn", "changed"}
SigFile == Modes \cup {"none", "cut"}
Absent == [log |-> "none", sig |-> "none"]
NoDocument == <<>>

Present == {n \in Names : disk[n].log # "none"}
Torn == {n \in Names : disk[n].log = "torn"}
Valid(n) == disk[n].log \in Modes /\ disk[n].sig = disk[n].log
Attested == {n \in Names : Valid(n)}
Fleet(runs) == [n \in DOMAIN runs |-> facts[runs[n]]]
OnDisk == [n \in Attested |-> disk[n].log]

Over(how) == [at |-> how, todo |-> {}, seen |-> <<>>, since |-> {}]
Idle == Over("idle")
Writing(p) == post[p].at \in {"run", "copying", "sign", "sealed"}
Quiet == /\ \A p \in Posts : ~ Writing(p)
         /\ \A t \in Threads : read[t].at # "reading"

Init ==
  /\ facts = [m \in Modes |-> RunFacts(Recorded(m), CHOOSE k \in 1..Cardinality(Modes) :
                 SetToSeq(Modes)[k] = m)]
  /\ renames \in BOOLEAN
  /\ disk = [n \in Names |-> IF n \in DOMAIN Captures
                               THEN [log |-> Captures[n], sig |-> Captures[n]] ELSE Absent]
  /\ post \in [Posts -> [at : {"new"}, mode : PostModes, name : {0}]]
  /\ read = [t \in Threads |-> Idle]
  /\ document = NoDocument
  /\ crashes = 0 /\ edits = 0

(***************************************************************************)
(* Reading: the names are listed at once, the runs read one by one.  A log *)
(* never changes once it is whole, so that it is read with its signature.  *)
(***************************************************************************)
StartRead(t) ==
  read' = [read EXCEPT ![t] = [at |-> "reading", todo |-> Present, seen |-> <<>>,
                               since |-> Attested]]

\* load_portfolio: a run without a signature that verifies is flagged, a log
\* that cannot be parsed ends the read.
ReadRun(t) ==
  /\ read[t].at = "reading" /\ read[t].todo # {}
  /\ LET n == Min(read[t].todo) IN
       read' = IF disk[n].log \in {"torn", "none"}
                 THEN [read EXCEPT ![t] = Over("raised")]
                 ELSE [read EXCEPT
                   ![t].todo = @ \ {n},
                   ![t].seen = IF Valid(n) THEN [m \in DOMAIN @ \cup {n} |-> IF m = n THEN disk[n].log ELSE @[m]]
                                           ELSE @]
  /\ UNCHANGED <<facts, renames, disk, post, document, crashes, edits>>

\* The answer is folded: a post is answered with it, the script writes it and
\* compares with it, from then on, what it reads.
FinishRead(t) ==
  /\ read[t].at = "reading" /\ read[t].todo = {}
  /\ read' = [read EXCEPT ![t] = IF t \in Posts THEN Over("done") ELSE Idle]
  /\ document' = IF t = Attestor /\ document = NoDocument THEN read[t].seen ELSE document
  /\ UNCHANGED <<facts, renames, disk, post, crashes, edits>>

Ask ==
  /\ read[Attestor].at = "idle"
  /\ StartRead(Attestor)
  /\ UNCHANGED <<facts, renames, disk, post, document, crashes, edits>>

\* A read that failed may be tried again.
Retry ==
  /\ read[Attestor].at = "raised"
  /\ read' = [read EXCEPT ![Attestor] = Idle]
  /\ UNCHANGED <<facts, renames, disk, post, document, crashes, edits>>

(***************************************************************************)
(* Posting an incident.                                                    *)
(***************************************************************************)
Step(p, from, to) == post[p].at = from /\ post' = [post EXCEPT ![p].at = to]
Sets(p, f, v) == disk' = [disk EXCEPT ![post[p].name][f] = v]

Validate(p) ==
  /\ Step(p, "new", IF post[p].mode \in Modes THEN "run" ELSE "rejected")
  /\ UNCHANGED <<facts, renames, disk, read, document, crashes, edits>>

Free == Names \ (Present \cup {post[p].name : p \in {q \in Posts : Writing(q)}})
MoveTo(p, n) ==
  /\ post[p].at = "run"
  /\ post' = [post EXCEPT ![p].name = n, ![p].at = IF renames THEN "sign" ELSE "copying"]
  /\ \E part \in IF renames THEN {post[p].mode} ELSE {"torn", "changed"} :
       disk' = [disk EXCEPT ![n].log = part]
  /\ UNCHANGED <<facts, renames, read, document, crashes, edits>>

\* Fault: the runs of a scenario share one name, which has to be free first.
MoveLog_NameOfMode(p) == \E n \in Free : n = Max(Names) /\ MoveTo(p, n)

\* The floor ran in a scratch directory, where its log was checked: it gets a
\* name that nobody else has.
MoveLog(p) == \E n \in Free : MoveTo(p, n)

FinishCopy(p) ==
  /\ Step(p, "copying", "sign")
  /\ Sets(p, "log", post[p].mode)
  /\ UNCHANGED <<facts, renames, read, document, crashes, edits>>

\* Fault: the client is answered as soon as its log is in the directory.
WriteSidecar_AnswerFirst(p) ==
  /\ Step(p, "sign", "answer")
  /\ Sets(p, "sig", "cut")
  /\ StartRead(p)
  /\ UNCHANGED <<facts, renames, document, crashes, edits>>

\* Then the run is read again, and the answer to the client is the queue.
WriteSidecar(p) ==
  /\ Step(p, "sign", "sealed")
  /\ Sets(p, "sig", post[p].mode)
  /\ UNCHANGED <<facts, renames, read, document, crashes, edits>>

ReadQueue(p) ==
  /\ Step(p, "sealed", "answer")
  /\ StartRead(p)
  /\ UNCHANGED <<facts, renames, disk, document, crashes, edits>>

(***************************************************************************)
(* What happens to the process and to the files.                           *)
(***************************************************************************)
\* The service stops: its threads are gone, the files stay as they are; a
\* signature that was being written may be cut.
Crash ==
  /\ crashes + edits < MAX_FAULTS
  /\ \E p \in Posts : Writing(p)
  /\ crashes' = crashes + 1
  /\ post' = [p \in Posts |-> IF Writing(p) \/ read[p].at = "reading"
                                THEN [post[p] EXCEPT !.at = "lost"] ELSE post[p]]
  /\ read' = [t \in Threads |->
                IF t \in Posts /\ read[t].at = "reading" THEN Idle ELSE read[t]]
  /\ \/ disk' = disk
     \/ \E p \in Posts : post[p].at = "sign" /\ Sets(p, "sig", "cut")
  /\ UNCHANGED <<facts, renames, document, edits>>

\* The files of a run are removed, renamed, exchanged with those of another,
\* or its log is changed.
Edit ==
  /\ Quiet /\ crashes + edits < MAX_FAULTS /\ document # NoDocument
  /\ \E n \in Attested :
       \/ disk' = [disk EXCEPT ![n] = Absent]
       \/ \E m \in Names \ {n} : disk' = [disk EXCEPT ![n] = disk[m], ![m] = disk[n]]
       \/ disk' = [disk EXCEPT ![n].log = "changed"]
  /\ edits' = edits + 1
  /\ UNCHANGED <<facts, renames, post, read, document, crashes>>

Post(p) == Validate(p) \/ MoveLog(p) \/ FinishCopy(p) \/ WriteSidecar(p) \/ ReadQueue(p)
Read(t) == ReadRun(t) \/ FinishRead(t)
Next ==
  \/ \E p \in Posts : Post(p)
  \/ \E t \in Threads : Read(t)
  \/ Ask \/ Retry \/ Crash \/ Edit

Spec == Init /\ [][Next]_vars

\* A thread of the service that runs goes on; nobody has to read, crash or edit.
FairSpec == Spec /\ \A p \in Posts : WF_vars(Post(p) \/ Read(p))

(***************************************************************************)
(* Properties.                                                             *)
(***************************************************************************)
\* An answer shows every run that was sealed when it was asked for, and none
\* that is not sealed when it is given; the answer to a post shows its own run.
\* Runs that are sealed in between may be in it in any combination
\* (corpus.py: every accessor folds the runs on disk; app.post_incident).
Answers(t) == read[t].at = "reading" /\ read[t].todo = {} /\ read'[t].at # "reading"
AnswerIsBetween ==
  [][\A t \in Threads : Answers(t) =>
         /\ read[t].since \subseteq DOMAIN read[t].seen
         /\ DOMAIN read[t].seen \subseteq Attested
         /\ t \in Posts => post[t].name \in DOMAIN read[t].seen]_read

\* When the script verifies what it wrote, the attestation holds exactly if the
\* runs it was made of are the attested runs it reads, each under its name
\* (attest_portfolio.verify).
VerifiesIffUnchanged ==
  [][Answers(Attestor) /\ document # NoDocument =>
       (Verifies(Document(Fleet(document)), Fleet(read[Attestor].seen))
          <=> document = read[Attestor].seen)]_read

\* The board of an answer holds every run and every pending record once, the
\* next deadline first, its counts add up, and the three folds of a log agree:
\* a run is released when each of its branches is, and then the margins are
\* those of its releases (portfolio.queue_view, portfolio_sla).
BoardBooks ==
  [][\A t \in Threads : Answers(t) =>
    LET fleet == Fleet(read[t].seen)
        board == QueueView(fleet, Intake)
        keys == [i \in DOMAIN board.items |-> board.items[i].key]
        sla == PortfolioSla(fleet)
    IN /\ ToSet(keys) = DOMAIN fleet \cup {p.key : p \in Intake} /\ IsInjective(keys)
       /\ \A i, j \in DOMAIN keys : i < j => board.items[i].nearest <= board.items[j].nearest
       /\ FoldSeq(+, 0, board.counts) = Len(keys)
       /\ \A i \in DOMAIN keys : board.items[i].kind = "run" =>
            (board.items[i].status = "released" <=>
               DOMAIN fleet[keys[i]].margins = ToSet(BRANCHES))
       /\ sla.total_filings = sla.released
       /\ sla.nearest = Min({NoDeadline} \cup {fleet[n].nearest : n \in DOMAIN fleet})]_read

\* Each attested run is in the attestation of exactly one entity, and that
\* attestation is the one the entity's own runs give, whatever other runs are
\* in the directory (portfolio.segment_by_entity, scoped_attestation).
Entities == {EntityMap[n] : n \in DOMAIN EntityMap} \cup {Unassigned}

ScopesAreApart ==
  [][Answers(Attestor) =>
       LET fleet == Fleet(read[Attestor].seen)
           subs == {SubManifest(fleet, EntityMap, e) : e \in Entities}
       IN /\ \A n \in DOMAIN fleet : \E s \in subs : {t \in subs : n \in DOMAIN t.runs} = {s}
          /\ \A s \in subs :
               s = SubManifest(Restrictions(fleet, DOMAIN s.runs), EntityMap, s.entity)]_read

\* What is folded over the fleet adds up: the board, and the attestation of each
\* entity.
FleetAddsUp == BoardBooks /\ ScopesAreApart

\* Where a log is renamed into the directory no read ever fails, whatever is
\* posted and whenever the process stops (worker.py: shutil.move; readyz).
RenameNeverFailsReads == renames => \A t \in Threads : read[t].at # "raised"

\* What a reader gets while others write: an answer, and one that lies between
\* two states of the directory.
ReadsAreSound == []RenameNeverFailsReads /\ AnswerIsBetween

\* A valid post is answered with its run sealed, unless the process stopped, or
\* another log was being copied, or had been left half copied by a stop, when the
\* queue was read for the answer.
PostsAreAnswered ==
  \A p \in Posts :
    post[p].at = "run" ~> \/ post[p].at = "lost"
                          \/ post[p].at = "answer" /\ read[p].at = "done"
                          \/ read[p].at = "raised" /\ ~ renames
=============================================================================
