------------------------------- MODULE RunLog -------------------------------
(***************************************************************************)
(* The sealed run log and what is computed over it: warden/replay.py,      *)
(* warden/chain.py, warden/logcheck.py, the in-log predicates of           *)
(* scripts/audit_run.py and the edit families of scripts/tamper_sweep.py.  *)
(*                                                                         *)
(* An entry is a record of a sequence number, a type and a payload; a      *)
(* payload is a record with the fields the computations read.  Hashes are  *)
(* perfect: the hash of a log is the log, the chain its prefixes.          *)
(***************************************************************************)
EXTENDS WardenProtocol, Integers, Sequences, SequencesExt, FiniteSetsExt, TLC

CONSTANT BRANCHES   \* the branches of the catalog in its order, e.g. <<"nis2", "sec", "dora">>

\* The instants of a captured run, in their order (run_floor.py TS_*).
TS == [facts |-> 0, drafts |-> 1, diff |-> 2, repost |-> 3, key1 |-> 4,
       release |-> 5, amend |-> 6, key2 |-> 7, rerelease |-> 8,
       submission |-> 9]
Deadline == [early |-> 10, nis2 |-> 11, dora |-> 11, sec |-> 12]

Item(type, payload) == [type |-> type, payload |-> payload]
Proto(b, e, role, ts) ==
  Item("protocol_event",
       [corr |-> b, event |-> e, actor_role |-> role, ts |-> ts,
        admitted |-> TRUE, to_state |-> "none", reason |-> "none"])

\* RunLog.append: entries are numbered from 0 in the order they are appended.
Numbered(items) ==
  [i \in DOMAIN items |->
     [seq |-> i - 1, type |-> items[i].type, payload |-> items[i].payload]]

(***************************************************************************)
(* What a run of the floor writes, by mode.                                *)
(***************************************************************************)
Each(bs, Items(_)) == FlattenSeq([i \in DOMAIN bs |-> Items(bs[i])])

Clocks ==
  Each(<<"early">> \o BRANCHES,
       LAMBDA b : << Item("clock_started", [corr |-> b, deadline |-> Deadline[b]]) >>)

Stopped(b, ts) == Item("clock_stopped", [corr |-> b, ts |-> ts])
Diff(n) == << Item("diff", [conflicts |-> n]) >>
Facts(b) == << Proto(b, "fact_record_posted", "triage", TS.facts) >>
Passed(b, ts) == << Proto(b, "diff_passed", "warden", ts) >>

Drafts(mode, b) ==
  << Proto(b, "draft_started", "drafter", TS.drafts),
     Proto(b, "draft_posted", "drafter", TS.drafts) >>
  \o (IF mode = "chaos" /\ b = "nis2"
        THEN << Item("chaos", [disposition |-> "killed_position_B"]),
                Item("chaos", [disposition |-> "duplicate_dropped"]) >>
        ELSE <<>>)

\* Both keys of a branch, then the release they admit.
Release(b, ts1, ts2) ==
  << Item("release_signoff", [corr |-> b, role |-> "general_counsel", ts |-> ts1]),
     Item("release_signoff", [corr |-> b, role |-> "head_of_ir", ts |-> ts2]),
     Proto(b, "human_released", "human_owner", ts2) >>

Contradiction ==
  Each(BRANCHES, LAMBDA b : << Proto(b, "diff_blocked", "warden", TS.diff) >>)
  \o Each(BRANCHES, LAMBDA b : << Proto(b, "draft_posted", "drafter", TS.repost) >>)
  \o Diff(0)

Amendment ==
  LET both == <<"sec", "nis2">> IN
  << Item("fact_amendment", [ts |-> TS.amend]) >>
  \o Each(both, LAMBDA b : << Proto(b, "fact_amended", "triage", TS.amend) >>)
  \o Each(both, LAMBDA b : << Item("negotiation", [corr |-> b]) >>)
  \o Each(both, LAMBDA b : << Item("ledger", [key |-> b, disposition |-> "accepted"]),
                              Proto(b, "draft_posted", "drafter", TS.amend) >>)
  \o Diff(0)
  \o Each(both, LAMBDA b : Passed(b, TS.rerelease)
       \o << Proto(b, "signoff_opened", "warden", TS.rerelease) >>
       \o Release(b, TS.key2, TS.rerelease))

\* The filed receipts of a submission run: an artifact's digest is its name, and
\* the modelled filing id is made of the regime and that digest.
FilingId(regime, sha) == regime \o "-" \o sha
Regime == [sec |-> "SEC", nis2 |-> "NIS2", uk |-> "ICO"]
Receipt(regime, sha) ==
  [regime |-> regime, channel |-> "modeled", modeled_filing_id |-> FilingId(regime, sha),
   accepted_at |-> TS.submission, artifact_sha256 |-> sha, status |-> "accepted"]
Submitted == SelectSeq(<<"sec", "nis2", "uk">>, LAMBDA b : b \in Range(BRANCHES))
ArtifactOf(regime) == regime \o " artifact"

Submission ==
  Each(Submitted, LAMBDA b : << Item("submission_receipt", Receipt(Regime[b], ArtifactOf(Regime[b]))) >>)

Script(mode) ==
  Clocks \o Each(BRANCHES, Facts)
  \o IF mode = "suppress"
       THEN Each(BRANCHES, LAMBDA b : << Proto(b, "suppress", "materiality", TS.facts),
                                         Stopped(b, TS.facts) >>)
       ELSE LET again == mode = "inject_contradiction"
                passed == IF again THEN TS.repost ELSE TS.diff
            IN Each(BRANCHES, LAMBDA b : Drafts(mode, b))
               \o (IF again THEN Diff(1) \o Contradiction ELSE Diff(0))
               \o Each(BRANCHES, LAMBDA b : Passed(b, passed))
               \o Each(BRANCHES, LAMBDA b :
                    << Proto(b, "signoff_opened", "warden", TS.diff) >>
                    \o Release(b, TS.key1, TS.release) \o << Stopped(b, TS.release) >>)
               \o (CASE mode = "amendment" -> Amendment [] mode = "submit" -> Submission [] OTHER -> <<>>)

(***************************************************************************)
(* Replay: the state machine runs again over the recorded inputs, and its  *)
(* verdicts replace the recorded ones.                                     *)
(***************************************************************************)
Get(p, f, default) == IF f \in DOMAIN p THEN p[f] ELSE default

\* What a protocol event asks for, in a state of its branch.
Role(p) == Get(p, "actor_role", NoRole)
Reason(s, p) ==
  IF Admits(s, p.event, Role(p)) THEN "none"
  ELSE IF ~ Authorised(p.event, Role(p)) THEN "unauthorised"
  ELSE "illegal"

\* The verdict is computed anew from the other fields, and takes its place among them.
Verdict(s, p) ==
  LET admitted == Admits(s, p.event, Role(p)) IN
  [admitted |-> admitted,
   to_state |-> IF admitted THEN NextState(s, p.event, Role(p)) ELSE "none",
   reason |-> Reason(s, p)]

Rederived(s, p) ==
  [f \in DOMAIN p \cup DOMAIN Verdict(s, p) |->
     IF f \in DOMAIN Verdict(s, p) THEN Verdict(s, p)[f] ELSE p[f]]

ReplayOne(acc, e) ==
  IF e.type # "protocol_event"
    THEN [acc EXCEPT !.out = Append(@, Item(e.type, e.payload))]
    ELSE LET s == Get(acc.states, e.payload.corr, "initiated") IN
         [states |-> (e.payload.corr :> NextState(s, e.payload.event, Role(e.payload))) @@ acc.states,
          out |-> Append(acc.out, Item(e.type, Rederived(s, e.payload)))]

Replay(log) ==
  LET after[n \in 0..Len(log)] ==
        IF n = 0 THEN [states |-> <<>>, out |-> <<>>] ELSE ReplayOne(after[n - 1], log[n])
  IN Numbered(after[Len(log)].out)

\* replay() cannot read a protocol event without its fields or of an unknown kind.
Readable(e) ==
  e.type = "protocol_event" =>
    {"corr", "event", "ts"} \subseteq DOMAIN e.payload /\ e.payload.event \in Event
ReplayRaises(log) == \E i \in DOMAIN log : ~ Readable(log[i])

\* The log that a run of a mode leaves behind.
Recorded(mode) == Replay(Numbered(Script(mode)))

(***************************************************************************)
(* The chain and the structural check.                                     *)
(***************************************************************************)
GENESIS == <<>>
ChainOver(log) == [i \in DOMAIN log |-> SubSeq(log, 1, i)]
ChainHead(log) == IF log = <<>> THEN GENESIS ELSE ChainOver(log)[Len(log)]

\* first_broken_index: -1 stands for None.
FirstBroken(log, trusted) ==
  LET both == DOMAIN log \cap DOMAIN trusted
      broken == {i \in both : SubSeq(log, 1, i) # trusted[i]}
  IN IF broken # {} THEN Min(broken) - 1
     ELSE IF Len(log) # Len(trusted) THEN Min({Len(log), Len(trusted)})
     ELSE -1

WellFormed(log) ==
  /\ log # <<>>
  /\ \A i \in DOMAIN log : log[i].seq = i - 1 /\ Readable(log[i])

(***************************************************************************)
(* The predicates audit_run.py reads off the log itself.                   *)
(***************************************************************************)
REQUIRED_RELEASE_ROLES == {"head_of_ir", "general_counsel"}

At(log, type) == {i \in DOMAIN log : log[i].type = type}
Corr(e) == Get(e.payload, "corr", "")
Said(log, i, event) ==
  log[i].type = "protocol_event" /\ Get(log[i].payload, "event", "") = event

ExactlyOnce(log) ==
  LET entries == At(log, "ledger")
      accepted == {i \in entries : Get(log[i].payload, "disposition", "") = "accepted"}
  IN /\ \A i \in entries : /\ {"key", "disposition"} \subseteq DOMAIN log[i].payload
                           /\ log[i].payload.disposition \in {"accepted", "duplicate_dropped"}
     /\ \A i, j \in accepted : log[i].payload.key = log[j].payload.key => i = j
     /\ \A i \in entries : \E j \in accepted : log[j].payload.key = log[i].payload.key

AdmittedReleases(log) ==
  {i \in DOMAIN log : Said(log, i, "human_released") /\ Get(log[i].payload, "admitted", FALSE)}

TwoKeyRelease(log) ==
  LET keys == At(log, "release_signoff")
      Clean(i, c) == \/ log[i].type = "diff" /\ Get(log[i].payload, "conflicts", 0) = 0
                     \/ Said(log, i, "diff_passed") /\ Corr(log[i]) = c
  IN /\ \A i \in keys : Get(log[i].payload, "role", "none") \in REQUIRED_RELEASE_ROLES
     /\ \A i \in AdmittedReleases(log) :
          /\ \E j \in 1..(i - 1) : Clean(j, Corr(log[i]))
          /\ \A r \in REQUIRED_RELEASE_ROLES :
               \E j \in keys : j < i /\ Corr(log[j]) = Corr(log[i]) /\ log[j].payload.role = r

ClockMonotonic(log) ==
  LET dated == {i \in At(log, "protocol_event") : "ts" \in DOMAIN log[i].payload}
      window == {log[i].payload.ts : i \in dated}
      starts == At(log, "clock_started")
  IN /\ window # {}
     /\ \A i \in starts : /\ "deadline" \in DOMAIN log[i].payload
                          /\ log[i].payload.deadline > Min(window)
     /\ \A i \in At(log, "clock_stopped") :
          /\ \E j \in starts : j < i /\ Corr(log[j]) = Corr(log[i])
          /\ "ts" \in DOMAIN log[i].payload
          /\ Min(window) <= log[i].payload.ts /\ log[i].payload.ts <= Max(window)

(***************************************************************************)
(* The edits of tamper_sweep.py at entry i of a log.                       *)
(***************************************************************************)
Forged(f, v) ==
  CASE f = "admitted" -> ~ v
    [] f \in {"ts", "deadline", "conflicts", "accepted_at"} -> v + 1
    [] OTHER -> "forged"

FieldEdits(log, i) ==
  {[log EXCEPT ![i].payload[f] = Forged(f, @)] : f \in DOMAIN log[i].payload}
  \cup {[log EXCEPT ![i].payload = [g \in DOMAIN @ \ {f} |-> @[g]]] :
          f \in DOMAIN log[i].payload}
  \cup {[log EXCEPT ![i].seq = @ + 1000], [log EXCEPT ![i].type = "forged"]}

\* The ts or the deadline of an entry, moved before the run.
Backdated(log, i) ==
  {[log EXCEPT ![i].payload[f] = @ - 100] : f \in DOMAIN log[i].payload \cap {"ts", "deadline"}}

OrderEdits(log, i) ==
  {RemoveAt(log, i), InsertAt(log, i + 1, log[i]), SubSeq(log, 1, i - 1)}
  \cup (IF i < Len(log) THEN {[log EXCEPT ![i] = log[i + 1], ![i + 1] = log[i]]} ELSE {})

Edits(log, i) ==
  (FieldEdits(log, i) \cup Backdated(log, i) \cup OrderEdits(log, i)) \ {log}

=============================================================================
