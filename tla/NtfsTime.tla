------------------------------- MODULE NtfsTime -------------------------------
(***************************************************************************)
(* The time codec of NtfsDxe (Misc.c): NtfsIsValidTime, EfiTime2NtfsTime  *)
(* and NtfsTime2EfiTime, as pure operators.                                *)
(*                                                                         *)
(* An EFI_TIME is a record of its fields.  An NTFS time (sle64, 100 ns     *)
(* ticks since 1601-01-01) is written as the record [days, secs, ticks]    *)
(* standing for (days * 86400 + secs) * 10^7 + ticks, secs < 86400 and     *)
(* ticks < 10^7: EfiTime2NtfsTime builds exactly this mixed-radix number,  *)
(* and the divisions of NtfsTime2EfiTime by SECONDS_PER_DAY*10^7, by 10^7  *)
(* modulo SECONDS_PER_DAY, and modulo 10^7 take its three digits back.     *)
(* The 64-bit value never overflows for a UINT16 year below 30828, so the  *)
(* record is exact; the u32 masks of the decode are kept.                  *)
(***************************************************************************)
EXTENDS Integers, FiniteSets

BASE_YEAR == 1601
DAYS_PER_YEAR == 365
SECONDS_PER_DAY == 86400
SECONDS_PER_HOUR == 3600
SECONDS_PER_MINUTE == 60
MINUTES_PER_HOUR == 60

\* The DaysOfMonth / mMonthDays tables.
DaysOfMonth == <<31, 28, 31, 30, 31, 30, 31, 31, 30, 31, 30, 31>>

EfiTime == [Year : 0..65535, Month : 0..255, Day : 0..255, Hour : 0..255,
            Minute : 0..255, Second : 0..255, Nanosecond : Nat]

NtfsStamp == [days : Nat, secs : 0..(SECONDS_PER_DAY - 1), ticks : 0..9999999]

\* Mutant: the 400-year exception of IS_LEAP_YEAR left out.
IsLeapYearNo400(a) == a % 4 = 0 /\ a % 100 # 0

\* IS_LEAP_YEAR (Ntfs.h).
IsLeapYear(a) == a % 4 = 0 /\ (a % 100 # 0 \/ a % 400 = 0)

\* Mutant: February never gets its 29th day.
NtfsIsValidTimeNoLeap(t) ==
    /\ t.Year >= 1980 /\ t.Month \in 1..12 /\ t.Day \in 1..31
    /\ t.Hour <= 23 /\ t.Minute <= 59 /\ t.Second <= 59
    /\ t.Nanosecond <= 999999999
    /\ t.Day <= DaysOfMonth[t.Month]

\* NtfsIsValidTime: the range checks, then the day against mMonthDays with
\* one extra day for February of a leap year.
NtfsIsValidTime(t) ==
    /\ t.Year >= 1980 /\ t.Month \in 1..12 /\ t.Day \in 1..31
    /\ t.Hour <= 23 /\ t.Minute <= 59 /\ t.Second <= 59
    /\ t.Nanosecond <= 999999999
    /\ t.Day <= DaysOfMonth[t.Month]
                + (IF t.Month = 2 /\ IsLeapYear(t.Year) THEN 1 ELSE 0)

\* EfiTime2NtfsTime: AddedDays (a UINT16) counts the leap years in
\* [BASE_YEAR, Year); then whole years, whole months of the year from the
\* table, the day, one day when a leap year is past February; then the
\* time of day and the 100 ns ticks.
EfiTime2NtfsTime(t) ==
    LET AddedDays == Cardinality({y \in BASE_YEAR..(t.Year - 1) : IsLeapYear(y)})
                       % 2^16
        monthDays == LET RECURSIVE Sum(_)
                         Sum(m) == IF m = 0 THEN 0 ELSE DaysOfMonth[m] + Sum(m - 1)
                     IN Sum(t.Month - 1)
    IN [days  |-> (t.Year - BASE_YEAR) * DAYS_PER_YEAR + AddedDays + monthDays
                    + t.Day - 1
                    + (IF IsLeapYear(t.Year) /\ t.Month > 2 THEN 1 ELSE 0),
        secs  |-> t.Hour * SECONDS_PER_HOUR + t.Minute * SECONDS_PER_MINUTE
                    + t.Second,
        ticks |-> t.Nanosecond \div 100]

\* The period reductions of NtfsTime2EfiTime: 400, 100, 4 and 1 years,
\* as <<year, day of the year>>.
YearOf400(days) ==
    LET c == days \div 146097 IN <<BASE_YEAR + 400 * c, days - 146097 * c>>

\* Mutant: the century count taken as days / 36524, which overshoots on
\* the last day of a 400-year period.
YearOf100Plain(yd) ==
    LET c == yd[2] \div 36524 IN <<yd[1] + 100 * c, yd[2] - 36524 * c>>

YearOf100(yd) ==
    LET c == (3 * yd[2] + 3) \div 109573 IN <<yd[1] + 100 * c, yd[2] - 36524 * c>>

YearOf4(yd) ==
    LET c == yd[2] \div 1461 IN <<yd[1] + 4 * c, yd[2] - 1461 * c>>

YearOf1(yd) ==
    LET c == (3 * yd[2] + 3) \div 1096
    IN <<yd[1] + c, yd[2] - DAYS_PER_YEAR * c>>

\* Mutant: the day of the month left 0-based in the January/February branch.
MonthDayNoOffset(year, d0) ==
    LET d == IF (IF year % 100 = 0 THEN year % 400 # 0 ELSE year % 4 # 0)
                /\ d0 > 58 THEN d0 + 1 ELSE d0
    IN IF d > 59
       THEN LET mon == (5 * d + 161) \div 153
            IN <<mon, d - (153 * mon - 162) \div 5>>
       ELSE LET mon == d \div 31 + 1 IN <<mon, d - 31 * (mon - 1)>>

\* The month and day: a day past February 28 of a common year is moved up
\* by one so that one closed form serves both kinds of year.
MonthDay(year, d0) ==
    LET d == IF (IF year % 100 = 0 THEN year % 400 # 0 ELSE year % 4 # 0)
                /\ d0 > 58 THEN d0 + 1 ELSE d0
    IN IF d > 59
       THEN LET mon == (5 * d + 161) \div 153
            IN <<mon, d - (153 * mon - 162) \div 5>>
       ELSE LET mon == d \div 31 + 1 IN <<mon, d - (31 * (mon - 1) - 1)>>

\* NtfsTime2EfiTime: days and seconds masked to 19 and 17 bits.
NtfsTime2EfiTime(s) ==
    LET days    == s.days % 2^19
        seconds == s.secs % 2^17
        yd      == YearOf1(YearOf4(YearOf100(YearOf400(days))))
        md      == MonthDay(yd[1], yd[2])
    IN [Year   |-> yd[1], Month |-> md[1], Day |-> md[2],
        Hour   |-> seconds \div SECONDS_PER_HOUR,
        Minute |-> (seconds \div SECONDS_PER_MINUTE) % MINUTES_PER_HOUR,
        Second |-> seconds % SECONDS_PER_MINUTE,
        Nanosecond |-> s.ticks * 100]

====
