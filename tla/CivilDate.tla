------------------------------- MODULE CivilDate -------------------------------
(***************************************************************************)
(* The dates in the names of the daily files (agend-daemon:                *)
(* store/snapshot.rs, civil_from_days; housekeeping.rs, day_number),       *)
(* against a calendar that is turned one day at a time from the first of   *)
(* January of a year.                                                      *)
(***************************************************************************)
EXTENDS Integers, FiniteSets

CONSTANTS FirstYears,  \* years the calendar is turned from
          MaxTurns     \* bound: days turned

DayAssumption == FirstYears \subseteq {y \in Nat : y >= 1970} /\ MaxTurns \in Nat

VARIABLES day, year, month, dom

vars == <<day, year, month, dom>>

\* [agend-daemon/src/store/snapshot.rs:54-73] civil_from_days
CivilFromDays(n) ==
    LET z == n + 719468
        era == z \div 146097
        doe == z % 146097
        yoe == (doe - doe \div 1460 + doe \div 36524 - doe \div 146096) \div 365
        doy == doe - (365 * yoe + yoe \div 4 - yoe \div 100)
        mp == (5 * doy + 2) \div 153
        m == IF mp < 10 THEN mp + 3 ELSE mp - 9
    IN  <<yoe + era * 400 + (IF m <= 2 THEN 1 ELSE 0), m, doy - (153 * mp + 2) \div 5 + 1>>

\* [agend-daemon/src/housekeeping.rs:142-166] day_number
DayNumber(y, m, d) ==
    LET year0 == IF m <= 2 THEN y - 1 ELSE y
        era == year0 \div 400
        yoe == year0 - era * 400
        doy == (153 * ((m + 9) % 12) + 2) \div 5 + d - 1
    IN  era * 146097 + yoe * 365 + yoe \div 4 - yoe \div 100 + doy - 719468

--------------------------------------------------------------------------------
(* The calendar on the wall. *)

Leap(y) == y % 4 = 0 /\ (y % 100 # 0 \/ y % 400 = 0)
Length(y, m) ==
    CASE m = 2 -> (IF Leap(y) THEN 29 ELSE 28) [] m \in {4, 6, 9, 11} -> 30 [] OTHER -> 31

\* Days from 1 January 1970 to the first of January of year y, counted.
NewYear(y) == 365 * (y - 1970) + Cardinality({k \in 1970 .. (y - 1) : Leap(k)})

Init == month = 1 /\ dom = 1 /\ \E y \in FirstYears : year = y /\ day = NewYear(y)

Turn ==
    /\ \E y \in FirstYears : day \in NewYear(y) .. (NewYear(y) + MaxTurns - 1)
    /\ day' = day + 1
    /\ IF dom < Length(year, month) THEN dom' = dom + 1 /\ UNCHANGED <<year, month>>
       ELSE /\ dom' = 1
            /\ month' = IF month = 12 THEN 1 ELSE month + 1
            /\ year' = IF month = 12 THEN year + 1 ELSE year

Spec == Init /\ [][Turn]_vars

\* The name a day's file is given has the date of that day.
NameIsTheDay == CivilFromDays(day) = <<year, month, dom>>

\* The day a file's name is read back as is the day it was named for: a file is deleted neither
\* early nor late.
ReadBack == DayNumber(year, month, dom) = day

================================================================================
