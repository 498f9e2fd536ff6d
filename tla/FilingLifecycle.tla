-------------------------- MODULE FilingLifecycle --------------------------
(***************************************************************************)
(* What the Warden promises about one filing, whatever machinery keeps the *)
(* promise: a filing is filed only from a version that passed the          *)
(* contradiction check, under a lock turned by every required human key    *)
(* since the last filing, and a filing that was reopened is filed again    *)
(* only after the drafters agreed on the new facts.                        *)
(***************************************************************************)
CONSTANT Keys       \* the distinct human roles that must all sign

VARIABLES filed,    \* the current version is in the regulator's hands
          checked,  \* the current version passed the contradiction check
          signed,   \* keys turned since the last filing
          agreed,   \* no reopening is waiting for the drafters' concurrence
          closed    \* suppressed or failed: nothing may happen any more

lifecycle == <<filed, checked, signed, agreed, closed>>

LifecycleTypeOK ==
  /\ filed \in BOOLEAN /\ checked \in BOOLEAN
  /\ agreed \in BOOLEAN /\ closed \in BOOLEAN
  /\ signed \subseteq Keys

LifecycleInit ==
  /\ filed = FALSE /\ checked = FALSE /\ signed = {}
  /\ agreed = TRUE /\ closed = FALSE

\* The current version passes the check; a reopened one needs agreement first.
Check ==
  /\ ~closed /\ ~filed /\ agreed
  /\ checked' = TRUE
  /\ UNCHANGED <<filed, signed, agreed, closed>>

\* A contradiction sends the version back: it has to be checked again.
Uncheck ==
  /\ ~closed /\ ~filed
  /\ checked' = FALSE
  /\ UNCHANGED <<filed, signed, agreed, closed>>

Sign(k) ==
  /\ ~closed /\ ~filed /\ checked
  /\ signed' = signed \cup {k}
  /\ UNCHANGED <<filed, checked, agreed, closed>>

\* The keys are used up by the filing they authorise.
File ==
  /\ ~closed /\ ~filed /\ checked /\ agreed /\ signed = Keys
  /\ filed' = TRUE
  /\ signed' = {}
  /\ UNCHANGED <<checked, agreed, closed>>

\* The facts changed: the filed version no longer stands.
Reopen ==
  /\ filed
  /\ filed' = FALSE /\ checked' = FALSE /\ agreed' = FALSE
  /\ UNCHANGED <<signed, closed>>

Agree ==
  /\ ~closed /\ ~agreed
  /\ agreed' = TRUE
  /\ UNCHANGED <<filed, checked, signed, closed>>

\* Suppressed or breached; a filed version can be neither.  A closed filing
\* owes nothing any more: no check, no agreement.
Close ==
  /\ ~filed /\ ~closed
  /\ closed' = TRUE
  /\ checked' = FALSE
  /\ agreed' = TRUE
  /\ UNCHANGED <<filed, signed>>

LifecycleNext ==
  \/ Check \/ Uncheck \/ File \/ Reopen \/ Agree \/ Close
  \/ \E k \in Keys : Sign(k)

LifecycleSpec == LifecycleInit /\ [][LifecycleNext]_lifecycle
=============================================================================
