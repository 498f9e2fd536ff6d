------------------------------- MODULE CaseFile -------------------------------
(***************************************************************************)
(* The receipts an examiner is handed beside a captured run: the case file *)
(* (floor/casefile.py), the management assertion (floor/assertion.py), the *)
(* answer to a what-if question and, for a submission run, the filed       *)
(* receipts (floor/submission.py), with the scripts that make them and the *)
(* scripts that verify them.  They are made when somebody runs a script,   *)
(* also while a bundle is being sealed.                                    *)
(***************************************************************************)
EXTENDS WhatIf

VARIABLES casefile,     \* [manifest, over, copies] in casefile-<mode>.json
          assertion,    \* [digest, over] in assertion-<mode>.json
          submissions,  \* what the packet shows of each regime's submission
          altered       \* what was altered of the receipts: "nothing", "casefile",
                        \* "copy", "assertion", "submission" or "whatif"

caseVars == <<casefile, assertion, submissions, whatif, altered>>
allVars == <<vars, caseVars>>

(***************************************************************************)
(* The case file: a signed manifest of digests, and copies of what it      *)
(* lists.  A digest is the content; the root over the rows is the rows.    *)
(***************************************************************************)
Sealed == {"run_log", "packet", "signature"} \cup (IF Attested THEN {"intoto", "timestamp"} ELSE {})
Derived == {"edgar_8k", "corpus"}

\* The corpus chunks are those of the regimes with a clock, which no revision of
\* the rows changes; the 8-K export takes its dates from the rows.
ClockedRegimes == { Corr(captured[i]) : i \in At(captured, "clock_started") }

Digest(role) ==
  CASE role = "run_log" -> ShaOf(log)
    [] role = "packet" -> <<packet, submissions>>
    [] role = "signature" -> sidecar
    [] role = "intoto" -> dsse
    [] role = "timestamp" -> token
    [] role = "edgar_8k" -> [dates |-> packet.clocks]
    [] role = "corpus" -> ClockedRegimes

Rows == [role \in Sealed \cup Derived |-> Digest(role)]
Manifest(rows) == [rows |-> rows, root |-> rows]
Casefile == [manifest |-> Manifest(Rows), over |-> Manifest(Rows), copies |-> Rows]

\* Fault: the verifier hashes the copies it was handed.
RecomputedRow_OfCopy(role) == casefile.copies[role]

\* recompute_manifest: a sealed file is read again, a derived one made again
\* from the packet on disk.  The copies in the case file are not looked at.
RecomputedRow(role) == Digest(role)

CheckManifest ==
  LET stored == casefile.manifest
      recomputed == [role \in DOMAIN stored.rows |-> RecomputedRow(role)]
  IN  /\ \A role \in DOMAIN recomputed : recomputed[role] = stored.rows[role]
      /\ DOMAIN stored.root = DOMAIN recomputed
      /\ \A role \in DOMAIN recomputed : stored.root[role] = recomputed[role]

SameManifest(m1, m2) ==
  /\ DOMAIN m1.rows = DOMAIN m2.rows /\ DOMAIN m1.root = DOMAIN m2.root
  /\ \A role \in DOMAIN m1.rows : m1.rows[role] = m2.rows[role]
  /\ \A role \in DOMAIN m1.root : m1.root[role] = m2.root[role]
CheckBundleSignature == SameManifest(casefile.over, casefile.manifest)

VerifyCasefile == CheckManifest /\ CheckBundleSignature /\ AuditRun(log, packet)

(***************************************************************************)
(* The management assertion: derived from the packet's clock rows, the     *)
(* head it records and its control register, which no seal changes.        *)
(***************************************************************************)
Document == [period |-> packet.clocks, chain_head |-> packet.head]
SignedAssertion == [digest |-> Document, over |-> Document]
VerifyAssertion == assertion.digest = Document /\ assertion.over = Document

(***************************************************************************)
(* The filed receipts of a submission run.                                 *)
(***************************************************************************)
\* Every branch that was released is exported, accepted and given a receipt; the
\* log keeps the receipt and the packet shows it next to its artifact.
Submissions ==
  [regime \in { captured[i].payload.regime : i \in At(captured, "submission_receipt") } |->
     [artifact |-> ArtifactOf(regime), receipt |-> Receipt(regime, ArtifactOf(regime))]]

\* The receipts of a capture are those of the stub regulator, of regimes and
\* artifacts that bear a name, so that a forged value is another value.
ReceiptIsSound(p) ==
  /\ p = Receipt(p.regime, ArtifactOf(p.regime)) /\ p.regime # "none"
  /\ ArtifactOf(p.regime) # "forged" /\ FilingId(p.regime, ArtifactOf(p.regime)) # "forged"

ASSUME ReceiptsAssumption ==
  \A m \in Modes : \A i \in At(Recorded(m), "submission_receipt") :
    ReceiptIsSound(Recorded(m)[i].payload)

VerifyReceipt(receipt, artifact) ==
  /\ Get(receipt, "status", "none") = "accepted"
  /\ Get(receipt, "artifact_sha256", "none") = artifact
  /\ Get(receipt, "modeled_filing_id", "none") = FilingId(receipt.regime, artifact)

ComparedFields == {"modeled_filing_id", "artifact_sha256", "accepted_at", "status"}
SameReceipt(r1, r2) ==
  \A f \in ComparedFields : /\ (f \in DOMAIN r1) = (f \in DOMAIN r2)
                            /\ f \in DOMAIN r1 => r1[f] = r2[f]

\* verify_submission.py goes by the receipts in the log.
VerifySubmission ==
  /\ At(log, "submission_receipt") # {}
  /\ \A i \in At(log, "submission_receipt") :
       LET receipt == log[i].payload
           regime == Get(receipt, "regime", "none")
       IN  /\ regime \in DOMAIN submissions
           /\ SameReceipt(submissions[regime].receipt, receipt)
           /\ VerifyReceipt(receipt, submissions[regime].artifact)

(***************************************************************************)
(* A captured run comes with its case file, and with its assertion where   *)
(* it has one.                                                             *)
(***************************************************************************)
CaseInit ==
  /\ Init
  /\ submissions = Submissions
  /\ casefile = Casefile
  /\ assertion = SignedAssertion
  /\ WhatifInit
  /\ altered = "nothing"

Untouched == altered = "nothing" /\ changed \notin {"log", "record"}

\* build_casefile.py
BuildCasefile ==
  /\ Untouched
  /\ casefile' = Casefile
  /\ UNCHANGED <<vars, assertion, submissions, whatif, altered>>

\* sign_assertions.py
SignAssertion ==
  /\ Untouched /\ Attested
  /\ assertion' = SignedAssertion
  /\ UNCHANGED <<vars, casefile, submissions, whatif, altered>>

\* One row of a stored case file, with or without its root, its signature, or a
\* copy inside it.
AlterCasefile ==
  /\ altered = "nothing" /\ Honest
  /\ LET m == casefile.manifest
         dropped == [role \in DOMAIN m.rows \ {"packet"} |-> m.rows[role]]
         edited == [m.rows EXCEPT !["run_log"] = "forged"]
     IN  \/ \E rows \in {dropped, edited} :
              /\ casefile' \in { [casefile EXCEPT !.manifest = Manifest(rows)],
                                 [casefile EXCEPT !.manifest.rows = rows],
                                 [casefile EXCEPT !.over = Manifest(rows)] }
              /\ altered' = "casefile"
         \/ casefile' = [casefile EXCEPT !.copies["run_log"] = "forged"] /\ altered' = "copy"
  /\ UNCHANGED <<vars, assertion, submissions, whatif>>

AlterAssertion ==
  /\ altered = "nothing" /\ Honest /\ Attested
  /\ \E part \in {"digest", "over"} : assertion' = [assertion EXCEPT ![part].period = @ + 100]
  /\ altered' = "assertion"
  /\ UNCHANGED <<vars, casefile, submissions, whatif>>

AlterSubmission ==
  /\ altered = "nothing" /\ Honest
  /\ \E regime \in DOMAIN submissions :
       submissions' \in
         {[submissions EXCEPT ![regime].artifact = "forged"]}
         \cup { [submissions EXCEPT ![regime].receipt[f] = Forged(f, @)] : f \in ComparedFields }
  /\ altered' = "submission"
  /\ UNCHANGED <<vars, casefile, assertion, whatif>>

\* whatif_report.py, on a run whose receipts are as they were made.
MakeWhatif ==
  /\ Untouched /\ ReportWhatif
  /\ UNCHANGED <<vars, casefile, assertion, submissions, altered>>

AlterReceipt ==
  /\ altered = "nothing" /\ Honest /\ AlterWhatif
  /\ altered' = "whatif"
  /\ UNCHANGED <<vars, casefile, assertion, submissions>>

\* What was altered was a copy, which is thrown away and made again.
Discard ==
  /\ altered # "nothing"
  /\ casefile' = IF altered \in {"casefile", "copy"} THEN Casefile ELSE casefile
  /\ assertion' = IF altered = "assertion" THEN SignedAssertion ELSE assertion
  /\ submissions' = Submissions
  /\ whatif' = IF altered = "whatif" THEN Artifact ELSE whatif
  /\ altered' = "nothing"
  /\ UNCHANGED vars

Sealing(A) == A /\ altered = "nothing" /\ UNCHANGED caseVars

\* A packet is forged in memory, where no sealing script finds it.
SealOnDisk == changed # "record" /\ StartReseal

CaseNext ==
  \/ Sealing(EditLog) \/ Sealing(ForgeRecord) \/ Sealing(Restore) \/ Sealing(ReviseClocks)
  \/ Sealing(SealOnDisk) \/ Sealing(WritePacket) \/ Sealing(WriteSidecar) \/ Sealing(WriteIntoto)
  \/ Sealing(WriteToken) \/ Sealing(Crash)
  \/ BuildCasefile \/ SignAssertion \/ MakeWhatif
  \/ AlterCasefile \/ AlterAssertion \/ AlterSubmission \/ AlterReceipt \/ Discard

\* As FairSpec; the copies that were altered are thrown away.
CaseSpec ==
  /\ CaseInit /\ [][CaseNext]_allVars
  /\ WF_allVars(Sealing(WritePacket \/ WriteSidecar \/ WriteIntoto \/ WriteToken))
  /\ WF_allVars(Sealing(changed = "clocks" /\ StartReseal))
  /\ WF_allVars(Sealing(Restore)) /\ WF_allVars(Discard)

(***************************************************************************)
(* Properties.                                                             *)
(***************************************************************************)
\* A case file made of an honest bundle verifies; none that was altered does.
\* One that verifies carries copies of what lies on disk, and can only be of a
\* bundle that the outside verifier accepts, unless it was made while a seal was
\* unfinished (verify_casefile.py, casefile.recompute_manifest).
CasefileIsExact ==
  /\ Honest /\ altered = "nothing" /\ SameManifest(casefile.manifest, Manifest(Rows)) => VerifyCasefile
  /\ altered = "casefile" => ~ VerifyCasefile
  /\ VerifyCasefile /\ altered # "copy" => \A role \in DOMAIN casefile.copies : casefile.copies[role] = Digest(role)
  /\ VerifyCasefile => VerifyThirdparty \/ sealing # "idle" \/ changed = "clocks"

\* An assertion that was altered is refused. One that verifies in a sealed bundle
\* speaks of the clock rows that the seal attests and of the head it signs, though
\* it may have been signed while a seal was unfinished: its signer takes rows and
\* head as it finds them (verify_assertion.py, assertion.verify_assertion_signature).
AssertionIsExact ==
  Attested =>
    /\ altered = "assertion" => ~ VerifyAssertion
    /\ Honest /\ VerifyAssertion =>
         assertion.digest = [period |-> packet.signature.att, chain_head |-> packet.signature.head]

\* The receipts of an untouched submission run verify.  None verifies against an
\* altered artifact or rendering; of an edited log the verifier passes only what
\* leaves at least one receipt and every receipt as it was filed
\* (verify_submission.py, submission.verify_receipt).
SubmissionIsExact ==
  DOMAIN submissions # {} =>
    /\ changed # "log" /\ altered # "submission" => VerifySubmission
    /\ altered = "submission" => ~ VerifySubmission
    /\ VerifySubmission => \A i \in At(log, "submission_receipt") :
         \E j \in At(captured, "submission_receipt") :
           /\ SameReceipt(log[i].payload, captured[j].payload)
           /\ log[i].payload.regime = captured[j].payload.regime

\* A what-if receipt that was left alone verifies in the console, and with the
\* script as long as the log and the rows it was computed from are on disk. One
\* that was altered fails in one of the two places, though not always in both; an
\* answer to another log fails with the script (whatif_report.check, verifyWhatIf).
WhatifIsExact ==
  Question # "none" =>
    /\ altered # "whatif" => VerifyWhatIf
    /\ Honest /\ altered # "whatif" /\ whatif.outcome = Outcome => CheckWhatif
    /\ altered = "whatif" => ~ (CheckWhatif /\ VerifyWhatIf)
    /\ changed = "log" => ~ CheckWhatif

\* The answer itself tells of the run that it names (whatif.py); looked at where a
\* receipt of it has been altered, so that it is computed once for each capture
\* and revision.
AnswersTellTheRun ==
  Question # "none" /\ altered = "whatif" /\ changed = "nothing" => AnswerTellsTheRun

\* Whatever an examiner is handed, the verifiers tell the honest from the
\* altered: the log and its seals, the case file, the assertion, the receipts, the
\* answers to what-if questions.
ReceiptsAreExact ==
  /\ VerifiersAreExact /\ CasefileIsExact /\ AssertionIsExact
  /\ SubmissionIsExact /\ WhatifIsExact /\ AnswersTellTheRun
=============================================================================
