------------------------------ MODULE GpsTime ------------------------------
(***************************************************************************)
(* Time and angles in oem6/deco.c: calendar dates, leap seconds, GPS weeks *)
(* and degrees.                                                            *)
(*                                                                         *)
(* A time is a day since 1970 and a second of that day; fractions of a     *)
(* second are left out.  The seconds since 1970 are 32 bits wide on the    *)
(* target, which is why the dates end before 19 January 2038.              *)
(***************************************************************************)
EXTENDS Integers, Sequences, FiniteSets

DAY == 86400

Time(day, sec) == [day |-> day + sec \div DAY, sec |-> sec % DAY]

timeadd(t, sec) == Time(t.day, t.sec + sec)

(* timediff(t, u) >= 0 *)
NotBefore(t, u) == t.day > u.day \/ (t.day = u.day /\ t.sec >= u.sec)

-----------------------------------------------------------------------------
(* A date is << year, month, day >>. *)
doy == << 1, 32, 60, 91, 121, 152, 182, 213, 244, 274, 305, 335 >>

LeapDay_always(year, mon) == IF year % 4 = 0 THEN 1 ELSE 0      \* faulty: in January too

LeapDay(year, mon) == IF year % 4 = 0 /\ mon >= 3 THEN 1 ELSE 0

epoch2time(date) ==
  LET year == date[1]  mon == date[2]
  IN IF year \notin 1970 .. 2099 \/ mon \notin 1 .. 12 THEN Time(0, 0)
     ELSE Time((year - 1970) * 365 + (year - 1969) \div 4 + doy[mon] + date[3] - 2
                 + LeapDay(year, mon), 0)

mday == << 31, 28, 31, 30, 31, 30, 31, 31, 30, 31, 30, 31,
           31, 28, 31, 30, 31, 30, 31, 31, 30, 31, 30, 31,
           31, 29, 31, 30, 31, 30, 31, 31, 30, 31, 30, 31,
           31, 28, 31, 30, 31, 30, 31, 31, 30, 31, 30, 31 >>

(* From month to month of a cycle of four years: months gone, days left.   *)
MonthsGone(days) ==
  LET left[mon \in Nat] ==
        IF mon = 0 THEN << 0, days >>
        ELSE LET l == left[mon - 1]
             IN IF l[1] = mon - 1 /\ l[2] >= mday[mon] THEN << mon, l[2] - mday[mon] >> ELSE l
  IN left

time2epoch(t) ==
  LET left == MonthsGone(t.day % 1461)[48]
      mon  == left[1]
  IN << 1970 + (t.day \div 1461) * 4 + mon \div 12, (mon % 12) + 1, left[2] + 1 >>

-----------------------------------------------------------------------------
(* The last leap second of the table is that of 2012. *)
leaps ==
  << << 2012, 7, 1 >>, << 2009, 1, 1 >>, << 2006, 1, 1 >>, << 1999, 1, 1 >>, << 1997, 7, 1 >>,
     << 1996, 1, 1 >>, << 1994, 7, 1 >>, << 1993, 7, 1 >>, << 1992, 7, 1 >>, << 1991, 1, 1 >>,
     << 1990, 1, 1 >>, << 1988, 1, 1 >>, << 1985, 7, 1 >>, << 1983, 7, 1 >>, << 1982, 7, 1 >>,
     << 1981, 7, 1 >> >>

Leap == [i \in DOMAIN leaps |-> epoch2time(leaps[i])]
Ahead(i) == 17 - i               \* seconds GPS is ahead of UTC from then on

FirstOf(S) == CHOOSE i \in S : \A j \in S : i <= j

(* The first entry that the time, less its seconds, does not come before. *)
gpst2utc_gps(t) ==               \* faulty: compared before the seconds are taken off
  LET past == {i \in DOMAIN leaps : NotBefore(t, Leap[i])}
  IN IF past = {} THEN t ELSE timeadd(t, - Ahead(FirstOf(past)))

gpst2utc(t) ==
  LET past == {i \in DOMAIN leaps : NotBefore(timeadd(t, - Ahead(i)), Leap[i])}
  IN IF past = {} THEN t ELSE timeadd(t, - Ahead(FirstOf(past)))

utc2gpst(t) ==
  LET past == {i \in DOMAIN leaps : NotBefore(t, Leap[i])}
  IN IF past = {} THEN t ELSE timeadd(t, Ahead(FirstOf(past)))

-----------------------------------------------------------------------------
gpst0 == epoch2time(<< 1980, 1, 6 >>)

(* The GPS week of a time; one before 1980 is that of a clock that was     *)
(* never set.                                                              *)
Truncated(a, b) == IF a >= 0 THEN a \div b ELSE - ((- a) \div b)     \* division in C

time2gpst(t) == Truncated(t.day - gpst0.day, 7)

gpst2time(week, sec) == timeadd(Time(gpst0.day + 7 * week, 0), sec)

OLDEST == 1560

adjgpsweek_below(week, now) ==      \* faulty: brings a week near, but never after, now
  LET w == time2gpst(utc2gpst(now))
      v == IF w < OLDEST THEN OLDEST ELSE w
  IN week + Truncated(v - week, 1024) * 1024

adjgpsweek(week, now) ==
  LET w == time2gpst(utc2gpst(now))
      v == IF w < OLDEST THEN OLDEST ELSE w
  IN week + Truncated(v - week + 512, 1024) * 1024

(* An angle is a number of seconds, of which there are 3600 in a degree. *)
Magnitude(n) == IF n < 0 THEN - n ELSE n

deg2dms_rounded_down(angle) ==      \* faulty: the degrees of what is below zero
  << angle \div 3600, (Magnitude(angle) % 3600) \div 60, Magnitude(angle) % 60 >>

deg2dms(angle) ==
  LET a == Magnitude(angle)
  IN << (IF angle < 0 THEN -1 ELSE 1) * (a \div 3600), (a % 3600) \div 60, a % 60 >>

-----------------------------------------------------------------------------
(* The Gregorian calendar. *)
IsLeapYear(y) == y % 4 = 0 /\ (y % 100 # 0 \/ y % 400 = 0)

DaysOf(y, m) ==
  CASE m = 2                -> IF IsLeapYear(y) THEN 29 ELSE 28
    [] m \in {4, 6, 9, 11} -> 30
    [] OTHER                -> 31

NextDate(date) ==
  LET y == date[1]  m == date[2]  d == date[3]
  IN CASE d < DaysOf(y, m) -> << y, m, d + 1 >>
       [] d = DaysOf(y, m) /\ m < 12 -> << y, m + 1, 1 >>
       [] OTHER -> << y + 1, 1, 1 >>

(* The day that comes so many days after 1 January 1970 has that date, in  *)
(* both directions.                                                        *)
DateIsKept(day, date) ==
  /\ time2epoch(Time(day, 0)) = date
  /\ epoch2time(date) = Time(day, 0)

(* GPS is ahead by the leap seconds that have passed, and the two          *)
(* conversions undo each other; only the leap second itself has no UTC of  *)
(* its own and is the first second of the next day.                        *)
SecondsPassed(t) == Cardinality({i \in DOMAIN leaps : NotBefore(t, Leap[i])})

LeapSecondsCount(t) ==
  /\ utc2gpst(t) = timeadd(t, SecondsPassed(t))
  /\ gpst2utc(utc2gpst(t)) = t
  /\ LET u == gpst2utc(t)  back == utc2gpst(u)
     IN \/ back = t
        \/ back = timeadd(t, 1) /\ u \in {Leap[i] : i \in DOMAIN leaps}

(* The seconds since 1970 have 32 bits. *)
Fits(week) == gpst0.day + 7 * (week + 1) <= 2147483647 \div DAY

(* A week that the receiver counts modulo 1024 is brought to the one       *)
(* nearest the clock, or nearest week 1560 if the clock is behind that; a  *)
(* week counted in full stays as it is, even if the clock was never set.   *)
(* The time made of the week and a second of it lies in that week.         *)
WeekIsFound(now, off) ==
  LET clock == time2gpst(utc2gpst(now))
      base  == IF clock < OLDEST THEN OLDEST ELSE clock
      week  == base + off
  IN /\ (off \in -512 + 1 .. 512 - 1) =>
          adjgpsweek(week % 1024, now) = week /\ adjgpsweek(week, now) = week
     /\ (off \in 512 .. 1535) => adjgpsweek(week, now) = week
     /\ Fits(week) => \A sec \in {0, DAY - 1, 7 * DAY - 1} :
                       time2gpst(gpst2time(adjgpsweek(week, now), sec)) = week

(* An angle is shown as degrees with a sign, minutes and seconds, from     *)
(* which it can be told, unless the degrees are zero: then the sign is     *)
(* lost.                                                                   *)
AngleIsShown(angle) ==
  LET dms   == deg2dms(angle)
      shown == Magnitude(dms[1]) * 3600 + dms[2] * 60 + dms[3]
  IN /\ dms[2] \in 0 .. 59 /\ dms[3] \in 0 .. 59
     /\ shown = Magnitude(angle)
     /\ Magnitude(angle) >= 3600 => (angle < 0 <=> dms[1] < 0)
=============================================================================
