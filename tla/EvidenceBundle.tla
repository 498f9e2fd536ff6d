--------------------------- MODULE EvidenceBundle ---------------------------
(***************************************************************************)
(* One captured run as it lies on disk: the run log, the packet that       *)
(* records its hash, and the three sidecars that sign it, attest it and    *)
(* date it.  scripts/resign_captures.py writes the four files one after    *)
(* the other and may stop in between; the verifiers of scripts/ read them  *)
(* at any time, each of them a different choice of the four.               *)
(*                                                                         *)
(* A digest is the value it was taken of.  A signature is the payload it   *)
(* was made over: it verifies when the payload rebuilt by the verifier is  *)
(* that payload.  The log is compared with the captured one; "sealed" is   *)
(* the digest of the captured log and "forged" any other.                  *)
(***************************************************************************)
EXTENDS RunLog

CONSTANTS Modes,        \* the captured scenarios
          MAX_REVISIONS, \* how often the derived data of a packet changes
          MAX_CRASHES    \* how often a sealing script stops half-way

ASSUME BundleAssumption ==
  /\ Modes \subseteq {"normal", "inject_contradiction", "chaos", "amendment", "submit"}
  /\ MAX_REVISIONS \in Nat /\ MAX_CRASHES \in Nat

VARIABLES captured,    \* the log that was captured: it never changes
          log,         \* the log on disk
          packet,      \* [clocks, sha, head, signature]
          sidecar,     \* the signature record in <log>.sig.json
          dsse,        \* [subject, over] in <log>.intoto.json, or Absent
          token,       \* [imprint, over] in <log>.tst.json, or Absent
          sealing,     \* the next file to write, "idle" when no script runs
          record,      \* the signature record the script has in hand
          changed,     \* what was altered since the last seal: "nothing", "log",
                       \* "record" or "clocks"
          revisions, crashes

vars == <<captured, log, packet, sidecar, dsse, token, sealing, record, changed,
          revisions, crashes>>

\* The digest of the bytes on disk: sha256 and chain head move together.
ShaOf(l) == IF l = captured THEN "sealed" ELSE "forged"
HeadOf(l) == IF ChainHead(l) = ChainHead(captured) THEN "sealed" ELSE "forged"

(***************************************************************************)
(* Signing and verifying.  att is the digest of the deadline attestation   *)
(* derived from the packet's clock rows.                                   *)
(***************************************************************************)
BoundPayload(sha, head, att) == [sha |-> sha, head |-> head, att |-> att]
Sign(l, att) ==
  [sha |-> ShaOf(l), head |-> HeadOf(l), att |-> att,
   over |-> BoundPayload(ShaOf(l), HeadOf(l), att)]

VerifyRunLog(l, rec) == rec.over = BoundPayload(ShaOf(l), HeadOf(l), rec.att)

\* The run of a submission is signed, but neither attested nor dated.
Absent == [absent |-> TRUE]
Attested == dsse # Absent

Envelope(l, rec) ==
  LET statement == [subject |-> ShaOf(l), att |-> rec.att]
  IN [subject |-> statement.subject, statement |-> statement, over |-> statement]
VerifyEnvelope(l, e) == e.over = e.statement /\ e.subject = ShaOf(l)

\* The time stamp anchors the payload that the record names.
Imprint(rec) == BoundPayload(rec.sha, rec.head, rec.att)
Stamp(rec) == [imprint |-> Imprint(rec), over |-> Imprint(rec)]

VerifyToken(t, rec) == t.over = t.imprint /\ t.imprint = Imprint(rec)

(***************************************************************************)
(* The verifiers.                                                          *)
(***************************************************************************)
\* tamper_sweep.py: the first detector that objects to a log.
FirstCatch(l, rec) ==
  IF ~ WellFormed(l) THEN "logcheck"
  ELSE IF HeadOf(l) # "sealed" THEN "chain_head"
  ELSE IF ReplayRaises(l) \/ Replay(l) # captured THEN "replay_sha"
  ELSE IF ~ VerifyRunLog(l, rec) THEN "signature"
  ELSE "none"

\* tamper_sweep.py sweeps a run only if its seal is consistent to begin with.
SweepLoads(l, p) ==
  /\ p.sha = ShaOf(l) /\ p.head = HeadOf(l)
  /\ VerifyRunLog(l, p.signature)
  /\ Replay(l) = l

\* audit_run.py: the packet's record, its own head, and the log's own events.
AuditRun(l, p) ==
  /\ WellFormed(l)
  /\ Replay(l) = l
  /\ p.head = HeadOf(l)
  /\ VerifyRunLog(l, p.signature)
  /\ ExactlyOnce(l) /\ TwoKeyRelease(l) /\ ClockMonotonic(l)

VerifySignature == VerifyRunLog(log, sidecar)
VerifyIntoto == VerifyEnvelope(log, dsse)
VerifyTimestamp == VerifyToken(token, sidecar)
VerifyThirdparty ==
  /\ packet.signature.sha = ShaOf(log)
  /\ packet.signature.head = HeadOf(log)
  /\ VerifyRunLog(log, packet.signature)
  /\ Attested => VerifyEnvelope(log, dsse) /\ VerifyToken(token, packet.signature)

AllAccept ==
  /\ SweepLoads(log, packet) /\ AuditRun(log, packet) /\ VerifySignature /\ VerifyThirdparty
  /\ Attested => VerifyIntoto /\ VerifyTimestamp

(***************************************************************************)
(* Init: a run captured and sealed.  The captures are of runs that went    *)
(* well: they pass the checks of audit_run.py that read the log alone.     *)
(***************************************************************************)
CaptureIsSound(l) ==
  /\ l \in Seq(Range(l))
  /\ WellFormed(l) /\ Replay(l) = l
  /\ ExactlyOnce(l) /\ TwoKeyRelease(l) /\ ClockMonotonic(l)

ASSUME CapturesAssumption == \A m \in Modes : CaptureIsSound(Recorded(m))

Init ==
  /\ \E m \in Modes :
       /\ captured = Recorded(m) /\ log = captured /\ record = Sign(captured, 0)
       /\ dsse = IF m = "submit" THEN Absent ELSE Envelope(captured, record)
       /\ token = IF m = "submit" THEN Absent ELSE Stamp(record)
  /\ packet = [clocks |-> 0, sha |-> "sealed", head |-> "sealed", signature |-> record]
  /\ sidecar = record
  /\ sealing = "idle" /\ changed = "nothing"
  /\ revisions = 0 /\ crashes = 0

Honest == sealing = "idle" /\ changed = "nothing"
Files == <<log, packet, sidecar, dsse, token>>

(***************************************************************************)
(* Changes.  Each alters one thing and is taken back before the next.      *)
(***************************************************************************)
\* One edit of the log, of a family of the sweep, in a copy of the captured run.
EditLog ==
  /\ Honest /\ revisions = 0 /\ crashes = 0
  /\ \E i \in DOMAIN log : \E l \in Edits(log, i) : log' = l
  /\ changed' = "log"
  /\ UNCHANGED <<captured, packet, sidecar, dsse, token, sealing, record, revisions, crashes>>

\* One recorded value of the packet: its hash or head, or a part of its signature.
ForgeRecord ==
  /\ Honest
  /\ \/ \E f \in {"sha", "head"} : packet' = [packet EXCEPT ![f] = "forged"]
     \/ \E f \in {"sha", "head"} : packet' = [packet EXCEPT !.signature[f] = "forged"]
     \/ packet' = [packet EXCEPT !.signature.att = @ + 100]
     \/ packet' = [packet EXCEPT !.signature.over = [@ EXCEPT !.sha = "forged"]]
  /\ changed' = "record"
  /\ UNCHANGED <<captured, log, sidecar, dsse, token, sealing, record, revisions, crashes>>

\* The log or the record is put back.
Restore ==
  /\ sealing = "idle" /\ changed \in {"log", "record"}
  /\ log' = captured
  /\ packet' = [packet EXCEPT !.sha = "sealed", !.head = record.head, !.signature = record]
  /\ changed' = "nothing"
  /\ UNCHANGED <<captured, sidecar, dsse, token, sealing, record, revisions, crashes>>

\* The clock rows of the packet are derived anew: the seal is of the old ones.
ReviseClocks ==
  /\ Honest /\ Attested /\ revisions < MAX_REVISIONS
  /\ packet' = [packet EXCEPT !.clocks = @ + 1]
  /\ revisions' = revisions + 1
  /\ changed' = "clocks"
  /\ UNCHANGED <<captured, log, sidecar, dsse, token, sealing, record, crashes>>

(***************************************************************************)
(* resign_captures.py: it refuses a log the packet does not record, then   *)
(* signs what the packet's rows give and writes packet, signature,         *)
(* envelope and token.                                                     *)
(***************************************************************************)
\* Fault: a packet that carries the digest already is not sealed again.
StartReseal_OnlyIfStale ==
  /\ sealing = "idle" /\ Attested
  /\ packet.sha = ShaOf(log)
  /\ packet.signature.att # packet.clocks
  /\ record' = Sign(log, packet.clocks)
  /\ sealing' = "packet"
  /\ UNCHANGED <<captured, Files, changed, revisions, crashes>>

StartReseal ==
  /\ sealing = "idle" /\ Attested
  /\ packet.sha = ShaOf(log)
  /\ record' = Sign(log, packet.clocks)
  /\ sealing' = "packet"
  /\ UNCHANGED <<captured, Files, changed, revisions, crashes>>

WritePacket ==
  /\ sealing = "packet"
  /\ packet' = [packet EXCEPT !.head = record.head, !.signature = record]
  /\ sealing' = "sidecar"
  /\ UNCHANGED <<captured, log, sidecar, dsse, token, record, changed, revisions, crashes>>

WriteSidecar ==
  /\ sealing = "sidecar"
  /\ sidecar' = record
  /\ sealing' = "intoto"
  /\ UNCHANGED <<captured, log, packet, dsse, token, record, changed, revisions, crashes>>

\* Fault: the token is written where the envelope should be, and the script ends.
WriteIntoto_TokenFirst ==
  /\ sealing = "intoto"
  /\ token' = Stamp(record)
  /\ sealing' = "token"
  /\ UNCHANGED <<captured, log, packet, sidecar, dsse, record, changed, revisions, crashes>>

WriteIntoto ==
  /\ sealing = "intoto"
  /\ dsse' = Envelope(log, packet.signature)
  /\ sealing' = "token"
  /\ UNCHANGED <<captured, log, packet, sidecar, token, record, changed, revisions, crashes>>

WriteToken ==
  /\ sealing = "token"
  /\ token' = Stamp(record)
  /\ sealing' = "idle"
  /\ changed' = "nothing"
  /\ UNCHANGED <<captured, log, packet, sidecar, dsse, record, revisions, crashes>>

Crash ==
  /\ sealing # "idle" /\ crashes < MAX_CRASHES
  /\ sealing' = "idle"
  /\ crashes' = crashes + 1
  /\ changed' = "clocks"
  /\ UNCHANGED <<captured, Files, record, revisions>>

Reseal == StartReseal \/ WritePacket \/ WriteSidecar \/ WriteIntoto \/ WriteToken
Next == EditLog \/ ForgeRecord \/ Restore \/ ReviseClocks \/ Reseal \/ Crash

Spec == Init /\ [][Next]_vars

\* A script that runs goes on, a stale bundle is sealed again, an edit of a
\* copy is dropped.
FairSpec == /\ Spec
            /\ WF_vars(WritePacket \/ WriteSidecar \/ WriteIntoto \/ WriteToken)
            /\ WF_vars(changed = "clocks" /\ StartReseal)
            /\ WF_vars(Restore)

(***************************************************************************)
(* Properties.                                                             *)
(***************************************************************************)
\* A sealed run that nobody touched is accepted by every verifier, in every
\* scenario: the log replays to itself, its chain ends at the recorded head,
\* the signature, the envelope and the token verify, and the log's own events
\* pass the audit (audit_run.py, verify_signature.py, verify_intoto.py,
\* verify_timestamp.py, verify_thirdparty.py).
HonestSealVerifies == Honest => AllAccept

\* No single edit of a log passes: a detector of the sweep objects, neither
\* the audit nor the outside verifier accepts it, and the chain names the
\* first entry that is not the captured one.  A verdict of the state machine
\* that was altered convicts itself: the replay of the log is not the log
\* (replay.py, tamper_sweep.py, tamper_test.py, chain.first_broken_index).
EditNeverPasses ==
  changed = "log" =>
    LET l == log
        chain == ChainOver(captured)
        differs == {i \in DOMAIN l \cap DOMAIN chain : l[i] # captured[i]}
        first == IF differs = {} THEN Min({Len(l), Len(chain)}) ELSE Min(differs) - 1
        Inputs(e) == IF e.type # "protocol_event" THEN e.payload
                     ELSE [f \in DOMAIN e.payload \ {"admitted", "to_state", "reason"} |-> e.payload[f]]
        verdict == /\ DOMAIN l = DOMAIN captured
                   /\ \A i \in DOMAIN l : /\ l[i].seq = i - 1
                                          /\ l[i].type = captured[i].type
                                          /\ Inputs(l[i]) = Inputs(captured[i])
    IN /\ FirstCatch(l, record) # "none"
       /\ WellFormed(l) => ~ AuditRun(l, packet)
       /\ ~ VerifyThirdparty
       /\ FirstBroken(l, chain) = first
       /\ verdict => Replay(l) # l

\* A recorded value of the packet that was altered is noticed by the sweep, the
\* audit or the outside verifier (tamper_sweep.packet_tamper_results).
ForgedRecordIsSeen ==
  changed = "record" /\ sealing = "idle" =>
    ~ (SweepLoads(log, packet) /\ AuditRun(log, packet) /\ VerifyThirdparty)

\* The verifiers tell the honest from the altered: what was sealed and left alone
\* they all accept, and no edit of a log and no altered record gets past them.
VerifiersAreExact == HonestSealVerifies /\ EditNeverPasses /\ ForgedRecordIsSeen

\* A bundle the outside verifier accepts is of one seal, also while a script
\* writes it or after it stopped half-way: packet, envelope and token carry
\* the same attestation (verify_thirdparty.py, resign_captures._resign).
AcceptedBundleIsOneSeal ==
  VerifyThirdparty /\ Attested => /\ dsse.statement.att = packet.signature.att
                                  /\ token.imprint.att = packet.signature.att

\* A seal that stopped half-way, or that is older than the packet's rows, is
\* made good by running the script again: in the end the bundle is sealed, so
\* that every verifier accepts it (HonestSealVerifies), and every file carries
\* the digest of the rows in the packet (resign_captures._resign).
ResealHeals ==
  changed = "clocks" ~>
    Honest /\ Attested /\ \A att \in {packet.signature.att, sidecar.att, dsse.statement.att, token.imprint.att} :
                att = packet.clocks
=============================================================================
