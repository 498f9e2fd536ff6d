----------------------------- MODULE LiveClocksMC -----------------------------
(***************************************************************************)
(* The repository's catalog, with the business-day count in each of the    *)
(* five calendars, from anchors before a weekend, before a holiday, at a   *)
(* turn of the year and at the end of the tables.                          *)
(***************************************************************************)
EXTENDS LiveClocks

Regime(branch, base, mode, length) ==
  [branch |-> branch, base |-> base, mode |-> mode, length |-> length, business_days |-> FALSE,
   holiday_calendar |-> "none", margins |-> FALSE, warn_margin |-> 0, critical_margin |-> 0]
Margins(regime, warn, critical) ==
  [regime EXCEPT !.margins = TRUE, !.warn_margin = warn, !.critical_margin = critical]
Counted(regime, calendar) == [regime EXCEPT !.business_days = TRUE, !.holiday_calendar = calendar]

Catalog(calendar) ==
  <<Margins(Regime("nis2-early", "nis2", "startup", 24), 21600, 3600),
    Margins(Regime("nis2", "nis2", "startup", 72), 43200, 10800),
    Margins(Regime("dora", "dora", "startup", 72), 43200, 10800),
    Counted(Margins(Regime("sec", "sec", "startup", 4), 86400, 14400), calendar),
    Regime("uk", "uk", "recruit", 72),
    Counted(Regime("brazil", "brazil", "recruit", 3), "BR_FEDERAL")>>

MCCatalogs == { Catalog(c) : c \in Calendars }
MCAnchors == { Midnight(d) + 9000 : d \in {Day(2026, 6, 16), Day(2027, 12, 29), Day(2028, 12, 26)} }
MCDrafters == {"nis2", "sec"}
MCTicks == {-1, 0, 1, 2, 7, 20}
=============================================================================
