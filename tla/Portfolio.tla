----------------------------- MODULE Portfolio -----------------------------
(***************************************************************************)
(* The fleet of sealed runs and what is folded over it: floor/portfolio.py *)
(* and warden/portfolio_signing.py.                                        *)
(*                                                                         *)
(* A fleet maps the names of its attested runs, natural numbers in the     *)
(* order of the file names, to the facts of their logs.  Hashes are        *)
(* perfect; the chain head of a log is a number, ordered as its hex digest *)
(* would be.  Instants are those of RunLog: their order counts, not their  *)
(* distance.                                                               *)
(***************************************************************************)
EXTENDS RunLog

NoDeadline == 99           \* sorts behind every deadline
NEAR_BREACH_HOURS == 6     \* in places of that order: stands for the hours of the code

(***************************************************************************)
(* One run.                                                                *)
(***************************************************************************)
Values(log, type, f) ==
  {log[i].payload[f] : i \in {j \in At(log, type) : f \in DOMAIN log[j].payload}}

\* The last start and the last stop of a clock decide its margin.
FiledMargins(log) ==
  LET Latest(type, c) == Max({i \in At(log, type) : Corr(log[i]) = c})
      filed == Values(log, "clock_started", "corr") \cap Values(log, "clock_stopped", "corr")
  IN [c \in filed |->
        log[Latest("clock_started", c)].payload.deadline - log[Latest("clock_stopped", c)].payload.ts]

NearestDeadline(log) ==
  LET d == Values(log, "clock_started", "deadline") IN IF d = {} THEN NoDeadline ELSE Min(d)

Throughput(log) ==
  LET Saying(event) == {i \in DOMAIN log : Said(log, i, event)}
      Regimes(event) == {Corr(log[i]) : i \in Saying(event)}
  IN [drafted |-> Cardinality(Regimes("draft_started")),
      filings |-> Cardinality(Regimes("human_released")),
      suppressed |-> Cardinality(Saying("suppress")),
      diff_conflicts |-> Cardinality(Saying("diff_blocked"))]

\* The state of each branch after its last admitted event.
BranchStates(log) ==
  LET moves == {i \in At(log, "protocol_event") : log[i].payload.admitted}
  IN [c \in {Corr(log[i]) : i \in moves} |->
        log[Max({i \in moves : Corr(log[i]) = c})].payload.to_state]

Settled == {"released", "suppressed", "failed"}
RunStatus(states) ==
  LET reached == {states[c] : c \in DOMAIN states} IN
  IF reached = {} \/ ~ (reached \subseteq Settled) THEN "active"
  ELSE IF "failed" \in reached THEN "failed"
  ELSE IF "suppressed" \in reached THEN "suppressed"
  ELSE "released"

\* A veto is counted for its field when the log disputes one field only: the
\* floor's diffs dispute one.
Vetoes(log) ==
  IF \E i \in At(log, "diff") : log[i].payload.conflicts > 0
    THEN Throughput(log).diff_conflicts ELSE 0

Suppressions(log) ==
  [c \in ToSet(BRANCHES) |->
     Cardinality({i \in DOMAIN log : Said(log, i, "suppress") /\ Corr(log[i]) = c})]

RunFacts(log, head) ==
  [head |-> head, margins |-> FiledMargins(log), nearest |-> NearestDeadline(log),
   throughput |-> Throughput(log), branches |-> BranchStates(log),
   vetoes |-> Vetoes(log), suppressions |-> Suppressions(log)]

(***************************************************************************)
(* The root over the sorted heads of a fleet.                              *)
(***************************************************************************)
\* The heads of a fleet, sorted: equal logs have equal heads.
Heads(fleet) ==
  LET byHead == SetToSortSeq(DOMAIN fleet,
                  LAMBDA a, b : \/ fleet[a].head < fleet[b].head
                                \/ fleet[a].head = fleet[b].head /\ a < b)
  IN [i \in DOMAIN byHead |-> fleet[byHead[i]].head]

\* An odd node is paired with itself.
Paired(level) ==
  [i \in 1..((Len(level) + 1) \div 2) |->
     <<"node", level[2 * i - 1], level[IF 2 * i <= Len(level) THEN 2 * i ELSE 2 * i - 1]>>]

MerkleRoot(leaves) ==
  LET level[d \in 0..Len(leaves)] ==
        IF d = 0 THEN [i \in DOMAIN leaves |-> <<"leaf", leaves[i]>>]
        ELSE IF Len(level[d - 1]) = 1 THEN level[d - 1]
        ELSE Paired(level[d - 1])
  IN IF leaves = <<>> THEN <<"empty">> ELSE level[Len(leaves)][1]

(***************************************************************************)
(* The roll-ups of a fleet.                                                *)
(***************************************************************************)
FleetSum(fleet, F(_)) == FoldSet(LAMBDA n, acc : acc + F(fleet[n]), 0, DOMAIN fleet)

Insights(fleet) ==
  [veto_field_recurrence |-> FleetSum(fleet, LAMBDA r : r.vetoes),
   suppress_by_regime |->
     [c \in ToSet(BRANCHES) |->
        FleetSum(fleet, LAMBDA r : r.suppressions[c])]]

AllMargins(fleet) == UNION {{<<n, c>> : c \in DOMAIN fleet[n].margins} : n \in DOMAIN fleet}

\* Twice the median, so that it stays a whole number.
Median2(margins, M(_)) ==
  LET k == Cardinality(margins)
      Nth(i) == CHOOSE v \in {M(m) : m \in margins} :
                  /\ Cardinality({m \in margins : M(m) < v}) < i
                  /\ Cardinality({m \in margins : M(m) <= v}) >= i
  IN IF k = 0 THEN 0
     ELSE IF k % 2 = 1 THEN 2 * Nth(k \div 2 + 1) ELSE Nth(k \div 2) + Nth(k \div 2 + 1)

PortfolioSla(fleet) ==
  LET all == AllMargins(fleet)
      M(m) == fleet[m[1]].margins[m[2]]
      least == {m \in all : \A o \in all : M(m) <= M(o)}
      nearest == {fleet[n].nearest : n \in DOMAIN fleet}
  IN [per_run |-> [n \in DOMAIN fleet |-> [margins |-> fleet[n].margins,
                                           throughput |-> fleet[n].throughput,
                                           nearest |-> fleet[n].nearest]],
      total_filings |-> Cardinality(all),
      total_breaches |-> Cardinality({m \in all : M(m) < 0}),
      near_breach_count |-> Cardinality({m \in all : M(m) >= 0 /\ M(m) < NEAR_BREACH_HOURS}),
      worst_margin_run |-> IF all = {} THEN 0 ELSE Min({m[1] : m \in least}),
      median |-> Median2(all, M),
      nearest |-> IF nearest = {} THEN NoDeadline ELSE Min(nearest),
      released |-> FleetSum(fleet, LAMBDA r : r.throughput.filings)]

(***************************************************************************)
(* The signed manifest and its verification.                               *)
(***************************************************************************)
PortfolioPayload(m) == [root |-> m.root, run_count |-> m.run_count,
                        insights |-> m.insights, sla |-> m.sla]

Manifest(fleet) ==
  [run_count |-> Cardinality(DOMAIN fleet), root |-> MerkleRoot(Heads(fleet)),
   insights |-> Insights(fleet), sla |-> PortfolioSla(fleet),
   runs |-> [n \in DOMAIN fleet |-> fleet[n].head]]

Document(fleet) ==
  [manifest |-> Manifest(fleet), signature |-> PortfolioPayload(Manifest(fleet))]

\* Fault: the runs on disk are folded again, and not compared one by one.
Verifies_RootOnly(document, fleet) ==
  /\ MerkleRoot(Heads(fleet)) = document.manifest.root
  /\ document.signature = PortfolioPayload(document.manifest)

\* attest_portfolio.py --verify: against the runs on disk.
Verifies(document, fleet) ==
  LET stored == document.manifest
      disk == Manifest(fleet)
  IN /\ DOMAIN stored.runs = DOMAIN disk.runs             \* none dropped, none unattested
     /\ \A n \in DOMAIN stored.runs : stored.runs[n] = disk.runs[n]
     /\ disk.root = stored.root
     /\ disk.insights = stored.insights /\ disk.sla = stored.sla
     /\ document.signature = PortfolioPayload(stored)

(***************************************************************************)
(* The board: attested runs and pending records, nearest deadline first.   *)
(***************************************************************************)
QUEUE_STAGES == <<"queued", "active", "released", "suppressed", "failed", "closed">>

RunItem(n, r) == [key |-> n, kind |-> "run", status |-> RunStatus(r.branches),
                  nearest |-> r.nearest, branches |-> r.branches]
PendingItem(p) == [key |-> p.key, kind |-> "pending", status |-> "queued",
                   nearest |-> p.deadline, branches |-> <<>>]

Stage(item) == CHOOSE s \in DOMAIN QUEUE_STAGES : QUEUE_STAGES[s] = item.status

\* Fault: the board is sorted by stage, then by deadline.
Before_StageFirst(a, b) ==
  \/ Stage(a) < Stage(b)
  \/ Stage(a) = Stage(b) /\ \/ a.nearest < b.nearest
                            \/ a.nearest = b.nearest /\ a.key < b.key

Before(a, b) ==
  \/ a.nearest < b.nearest
  \/ a.nearest = b.nearest /\ \/ Stage(a) < Stage(b)
                              \/ Stage(a) = Stage(b) /\ a.key < b.key

QueueView(fleet, pending) ==
  LET items == {RunItem(n, fleet[n]) : n \in DOMAIN fleet} \cup {PendingItem(p) : p \in pending}
      dated == {i \in items : i.nearest # NoDeadline}
  IN [items |-> SetToSortSeq(items, Before),
      counts |-> [s \in DOMAIN QUEUE_STAGES |->
                    Cardinality({i \in items : i.status = QUEUE_STAGES[s]})],
      nearest |-> IF dated = {} THEN NoDeadline ELSE Min({i.nearest : i \in dated}),
      worst_case_run |-> PortfolioSla(fleet).worst_margin_run]

(***************************************************************************)
(* The fleet by entity.  The floor's logs name no entity: the declarative  *)
(* map does, and a run that it does not name is unassigned.                *)
(***************************************************************************)
Unassigned == "(unassigned)"
ResolveEntity(n, map) == IF n \in DOMAIN map THEN map[n] ELSE Unassigned

Restrictions(fleet, ns) == [n \in ns |-> fleet[n]]
EntityRuns(fleet, map, entity) ==
  Restrictions(fleet, {n \in DOMAIN fleet : ResolveEntity(n, map) = entity})

SubManifest(fleet, map, entity) ==
  LET own == EntityRuns(fleet, map, entity) IN
  [entity |-> entity, run_count |-> Cardinality(DOMAIN own),
   sub_root |-> MerkleRoot(Heads(own)), runs |-> [n \in DOMAIN own |-> own[n].head]]

=============================================================================
