---------------------------- MODULE IncidentsApart ----------------------------
(***************************************************************************)
(* Concurrent incidents do not disturb each other: cut down to one of its  *)
(* incidents, a run of many is a run of that incident alone.               *)
(***************************************************************************)
EXTENDS ConcurrentIncidents


\* The filings of incident i, and the keys of its work.
Of(i, f) == [c \in {i} \X Branches |-> f[c]]
Ledger(i, f) == [k \in (Branches \cup {"factrecord"}) \X {i} |-> f[k]]

Alone(i) == INSTANCE ConcurrentIncidents WITH
  Incidents <- {i},
  at        <- [j \in {i} |-> at[j]],
  clocked   <- clocked \cap ({i} \X Branches),
  state     <- Of(i, state),
  recorded  <- Ledger(i, recorded),
  keys      <- Of(i, keys),
  report    <- IF ~report.done THEN NoReport
               ELSE [done |-> TRUE, states |-> Of(i, report.states), ledger |-> Ledger(i, report.ledger)]

\* Whatever the scheduler does, every incident goes through the states it would
\* have gone through with the ledger, the clocks and the lock to itself.
IncidentsAreApart ==
  /\ \A i \in Incidents : Alone(i)!IncidentsInit
  /\ [][ \A i \in Incidents : [Alone(i)!IncidentsNext]_(Alone(i)!incidentVars) ]_incidentVars
=============================================================================
