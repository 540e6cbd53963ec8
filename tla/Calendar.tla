------------------------------ MODULE Calendar ------------------------------
(***************************************************************************)
(* The days from 1970 on, each with its date, and what deco.c makes of a   *)
(* time, a week or an angle on each of them.                               *)
(***************************************************************************)
EXTENDS GpsTime

CONSTANT LASTDAY             \* bound on the days: 18 January 2038

ASSUME LastDayAssumption == LASTDAY \in 0 .. 24854

VARIABLE today               \* a day since 1970, and its date

DaysInit == today = [day |-> -1, date |-> << 1969, 12, 31 >>]

NextDay ==
  /\ today.day < LASTDAY
  /\ today' = [day |-> today.day + 1, date |-> NextDate(today.date)]

DaysSpec == DaysInit /\ [][NextDay]_today

Begun == today.day >= 0

-----------------------------------------------------------------------------
(* epoch2time and time2epoch follow the calendar. *)
KeepsTheCalendar == Begun => DateIsKept(today.day, today.date)

(* gpst2utc and utc2gpst count leap seconds, on both sides of midnight. *)
CountsLeapSeconds ==
  Begun => \A sec \in {0, 1, 14, 15, 16, 86383, 86384, 86385, 86399} :
             LeapSecondsCount(Time(today.day, sec))

(* adjgpsweek finds the week nearest the clock, on each Sunday. *)
FindsTheWeek ==
  (Begun /\ today.day % 7 = 3) =>
    \A off \in {-511, -1, 0, 1, 511, 512, 1535} : WeekIsFound(Time(today.day, 0), off)

(* deg2dms shows an angle, of so many seconds as there are days, less some *)
(* below zero.                                                             *)
ShowsTheAngle == Begun => AngleIsShown(today.day - LASTDAY \div 2)
=============================================================================
