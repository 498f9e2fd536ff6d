--------------------------- MODULE StatutoryClocks ---------------------------
(***************************************************************************)
(* The statutory clocks of warden/clocks.py and the margin tiers of        *)
(* floor/margin.py: pure arithmetic over instants, which are seconds since *)
(* 2026-01-01T00:00:00 UTC. A date is the number of its day, 1 being that  *)
(* first day of 2026, a Thursday.                                          *)
(***************************************************************************)
EXTENDS Integers, FiniteSets, FiniteSetsExt

DaySeconds == 86400
HourSeconds == 3600
Midnight(d) == (d - 1) * DaySeconds
DateOf(t) == t \div DaySeconds + 1
Weekday(d) == (d + 2) % 7                       \* Monday is 0

\* The calendar of the years the tables cover, of which 2028 is a leap year.
FirstOf(y) == CASE y = 2026 -> 1 [] y = 2027 -> 366 [] y = 2028 -> 731 [] y = 2029 -> 1097
LeapDay(y, m) == IF y = 2028 /\ m > 2 THEN 1 ELSE 0
BeforeMonth == <<0, 31, 59, 90, 120, 151, 181, 212, 243, 273, 304, 334>>
Day(y, m, n) == FirstOf(y) + BeforeMonth[m] + LeapDay(y, m) + n - 1
Days(y, dates) == { Day(y, md[1], md[2]) : md \in dates }

US_FEDERAL ==
       Days(2026, {<<1,1>>, <<1,19>>, <<2,16>>, <<5,25>>, <<6,19>>, <<7,3>>, <<9,7>>, <<10,12>>,
                   <<11,11>>, <<11,26>>, <<12,25>>})
  \cup Days(2027, {<<1,1>>, <<1,18>>, <<2,15>>, <<5,31>>, <<6,18>>, <<7,5>>, <<9,6>>, <<10,11>>,
                   <<11,11>>, <<11,25>>, <<12,24>>})
  \cup Days(2028, {<<1,17>>, <<2,21>>, <<5,29>>, <<6,19>>, <<7,4>>, <<9,4>>, <<10,9>>, <<11,10>>,
                   <<11,23>>, <<12,25>>})
UK_BANK ==
       Days(2026, {<<1,1>>, <<4,3>>, <<4,6>>, <<5,4>>, <<5,25>>, <<8,31>>, <<12,25>>, <<12,28>>})
  \cup Days(2027, {<<1,1>>, <<3,26>>, <<3,29>>, <<5,3>>, <<5,31>>, <<8,30>>, <<12,27>>, <<12,28>>})
  \cup Days(2028, {<<1,3>>, <<4,14>>, <<4,17>>, <<5,1>>, <<5,29>>, <<8,28>>, <<12,25>>, <<12,26>>})
DE_FEDERAL ==
       Days(2026, {<<1,1>>, <<4,3>>, <<4,6>>, <<5,1>>, <<5,14>>, <<5,25>>, <<10,5>>, <<12,25>>})
  \cup Days(2027, {<<1,1>>, <<3,26>>, <<3,29>>, <<5,6>>, <<5,17>>, <<10,4>>})
  \cup Days(2028, {<<4,14>>, <<4,17>>, <<5,1>>, <<5,25>>, <<6,5>>, <<10,3>>, <<12,25>>, <<12,26>>})
EU_TARGET ==
       Days(2026, {<<1,1>>, <<4,3>>, <<4,6>>, <<5,1>>, <<12,25>>})
  \cup Days(2027, {<<1,1>>, <<3,26>>, <<3,29>>})
  \cup Days(2028, {<<4,14>>, <<4,17>>, <<5,1>>, <<12,25>>, <<12,26>>})
BR_FEDERAL ==
       Days(2026, {<<1,1>>, <<4,3>>, <<4,21>>, <<5,1>>, <<6,4>>, <<9,7>>, <<10,12>>, <<11,2>>,
                   <<11,20>>, <<12,25>>})
  \cup Days(2027, {<<1,1>>, <<3,26>>, <<4,21>>, <<5,27>>, <<9,7>>, <<10,12>>, <<11,2>>, <<11,15>>})
  \cup Days(2028, {<<4,14>>, <<4,21>>, <<5,1>>, <<6,15>>, <<9,7>>, <<10,12>>, <<11,2>>, <<11,15>>,
                   <<11,20>>, <<12,25>>})

Calendars == {"US_FEDERAL", "UK_BANK", "DE_FEDERAL", "EU_TARGET", "BR_FEDERAL"}
Holidays(calendar) == CASE calendar = "US_FEDERAL" -> US_FEDERAL [] calendar = "UK_BANK" -> UK_BANK
                        [] calendar = "DE_FEDERAL" -> DE_FEDERAL [] calendar = "EU_TARGET" -> EU_TARGET
                        [] calendar = "BR_FEDERAL" -> BR_FEDERAL

Covered == Day(2026, 1, 1) .. Day(2028, 12, 31)
IsBusinessDay(d, calendar) == Weekday(d) < 5 /\ d \notin Holidays(calendar)

\* HolidayYearNotCovered: raised where a count starts or steps outside the years
\* of the table.
NotCovered == -1

\* Fault: the day of the trigger is itself the first day of the count.
AddBusinessDays_FromToday(start, days, calendar) ==
  LET walk[d \in Nat] == [remaining \in 0..days |->
        IF d \notin Covered THEN NotCovered
        ELSE IF remaining = 0 THEN Midnight(d) + DaySeconds - 1
        ELSE walk[d + 1][IF IsBusinessDay(d, calendar) THEN remaining - 1 ELSE remaining]]
  IN  walk[DateOf(start)][days]

\* The last second of the days-th business day after the day of the start.
AddBusinessDays(start, days, calendar) ==
  LET walk[d \in Nat] == [remaining \in 0..days |->
        IF d \notin Covered THEN NotCovered
        ELSE IF remaining = 0 THEN Midnight(d) + DaySeconds - 1
        ELSE walk[d + 1][IF IsBusinessDay(d + 1, calendar) THEN remaining - 1 ELSE remaining]]
  IN  walk[DateOf(start)][days]

\* The deadline of a regime's clock that starts at an instant.
Deadline(regime, start) ==
  IF regime.business_days
  THEN AddBusinessDays(start, regime.length, regime.holiday_calendar)
  ELSE start + regime.length * HourSeconds

Tiers == <<"GREEN", "WARN", "CRITICAL", "BREACH">>
TierRank(tier) == CHOOSE r \in 0..3 : Tiers[r + 1] = tier

Breached(deadline, now) == now > deadline

Classify(regime, deadline, now) ==
  LET margin == deadline - now
  IN  IF Breached(deadline, now) \/ margin <= 0 THEN "BREACH"
      ELSE IF margin <= regime.critical_margin THEN "CRITICAL"
      ELSE IF margin <= regime.warn_margin THEN "WARN"
      ELSE "GREEN"

-----------------------------------------------------------------------------
(* The law of the five calendars, as the comments over their tables state it. *)

OnWeekday(d) == Weekday(d) < 5
NthWeekday(y, m, weekday, n) == LET first == Day(y, m, 1)
                                IN  first + ((weekday - Weekday(first)) % 7) + 7 * (n - 1)
LastMonday(y, m) == LET last == Day(y, m, 31) IN last - Weekday(last)
Easter(y) == CASE y = 2026 -> Day(y, 4, 5) [] y = 2027 -> Day(y, 3, 28) [] y = 2028 -> Day(y, 4, 16)
Fixed(dates) == UNION { Days(y, dates) : y \in 2026..2028 }
Feasts(offsets) == { Easter(y) + o : y \in 2026..2028, o \in offsets }

\* 5 U.S.C. 6103: from a Saturday to the Friday before, from a Sunday to the Monday.
ObservedUS(d) == CASE Weekday(d) = 5 -> d - 1 [] Weekday(d) = 6 -> d + 1 [] OTHER -> d
USLaw == { ObservedUS(d) : d \in Fixed({<<1,1>>, <<6,19>>, <<7,4>>, <<11,11>>, <<12,25>>}) }
  \cup UNION { {NthWeekday(y, 1, 0, 3), NthWeekday(y, 2, 0, 3), LastMonday(y, 5), NthWeekday(y, 9, 0, 1),
                NthWeekday(y, 10, 0, 2), NthWeekday(y, 11, 3, 4)} : y \in 2026..2028 }
\* The substitute days: two days off at Christmas, a new year's day, moved to weekdays.
UKLaw == { IF OnWeekday(d) THEN d ELSE d + 7 - Weekday(d) : d \in Fixed({<<1,1>>}) }
  \cup { IF OnWeekday(d) THEN d ELSE d + 2 : d \in Fixed({<<12,25>>, <<12,26>>}) }
  \cup Feasts({-2, 1})
  \cup UNION { {NthWeekday(y, 5, 0, 1), LastMonday(y, 5), LastMonday(y, 8)} : y \in 2026..2028 }
\* No substitutes: a holiday on a weekend is lost.
DELaw == { d \in Fixed({<<1,1>>, <<5,1>>, <<10,3>>, <<12,25>>, <<12,26>>}) : OnWeekday(d) }
  \cup Feasts({-2, 1, 39, 50})
EULaw == { d \in Fixed({<<1,1>>, <<5,1>>, <<12,25>>, <<12,26>>}) : OnWeekday(d) } \cup Feasts({-2, 1})
BRLaw == { d \in Fixed({<<1,1>>, <<4,21>>, <<5,1>>, <<9,7>>, <<10,12>>, <<11,2>>, <<11,15>>,
                        <<11,20>>, <<12,25>>}) : OnWeekday(d) } \cup Feasts({-2, 60})
Law(calendar) == CASE calendar = "US_FEDERAL" -> USLaw [] calendar = "UK_BANK" -> UKLaw
                   [] calendar = "DE_FEDERAL" -> DELaw [] calendar = "EU_TARGET" -> EULaw
                   [] calendar = "BR_FEDERAL" -> BRLaw

\* Where the tables leave their law: New Year's Day of 2028 is missing where the
\* US observes it, on the last day of 2027, and the German table moves two lost
\* Unity Days to the Monday after.
Slips(calendar) == CASE calendar = "US_FEDERAL" -> {Day(2027, 12, 31)}
                     [] calendar = "DE_FEDERAL" -> {Day(2026, 10, 5), Day(2027, 10, 4)}
                     [] OTHER -> {}

\* The day on which a count of business days by law ends, 0 if it leaves the years.
LawfulDay(d, days, calendar) ==
  LET within(last) == Cardinality({ x \in d + 1 .. last : OnWeekday(x) /\ x \notin Law(calendar) })
      ends == { x \in d .. d + 14 : within(x) = days /\ x \in Covered }
  IN  IF d \in Covered /\ ends # {} THEN Min(ends) ELSE 0

\* The SEC count and its siblings: whatever day a count starts, it ends on the day
\* the law of its calendar gives, or is refused where the tables end. The three
\* days of Slips aside, no table has a day too many or too few.
CountIsLawful(calendar) ==
  \A d \in 0 .. Day(2028, 12, 31) + 1, days \in 1..4 :
    LET end == AddBusinessDays(Midnight(d), days, calendar)
        last == IF end = NotCovered THEN d + 14 ELSE DateOf(end)
    IN  (d + 1 .. last) \cap Slips(calendar) = {} =>
          \/ end = NotCovered /\ LawfulDay(d, days, calendar) = 0
          \/ end # NotCovered /\ last = LawfulDay(d, days, calendar) /\ end = Midnight(last + 1) - 1
=============================================================================
