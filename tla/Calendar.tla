------------------------------ MODULE Calendar ------------------------------
(***************************************************************************)
(* The calendar of reminders and schedules (service/bill_management.go     *)
(* 184-197).  An instant is a number of hours since the beginning of       *)
(* FirstYear in UTC.  The customer's calendar is that of Lagos, an hour    *)
(* ahead the whole year: the day of an instant is the day in Lagos.        *)
(* Minutes and seconds are kept by NextDue and are left out.               *)
(***************************************************************************)
EXTENDS Integers

CONSTANTS FirstYear,
          Months      \* bound: the months the calendar reaches

ASSUME CalendarAssumption == FirstYear \in Nat /\ Months \in Nat \ {0}

Leap(y) == y % 4 = 0 /\ (y % 100 # 0 \/ y % 400 = 0)

(* Months are counted from January of FirstYear: the 13th begins FirstYear+1. *)
MonthLength(m) ==
  LET inYear == (m % 12) + 1
      year   == FirstYear + (m \div 12)
  IN IF inYear = 2 THEN (IF Leap(year) THEN 29 ELSE 28)
     ELSE IF inYear \in {4, 6, 9, 11} THEN 30 ELSE 31

(* The day, counted from 0, on which each month begins.                    *)
MonthStart ==
  LET start[m \in 0..Months] == IF m = 0 THEN 0 ELSE start[m - 1] + MonthLength(m - 1)
  IN [m \in 0..Months |-> start[m]]

Day(t)       == (t + 1) \div 24
HourOfDay(t) == (t + 1) % 24
Month(t)     == CHOOSE m \in 0..Months - 1 : MonthStart[m] <= Day(t) /\ Day(t) < MonthStart[m + 1]
DayOfMonth(t) == Day(t) - MonthStart[Month(t)] + 1

At(month, day, hour) == (MonthStart[month] + day - 1) * 24 + hour - 1

Week    == 7 * 24
NoTime  == -1          \* the zero time
Cadences == {"once", "weekly", "monthly"}

InMonth(day, month) == IF day > MonthLength(month) THEN MonthLength(month) ELSE day

(* Mutant: the month's own day becomes the anchor, so a day once clamped   *)
(* stays clamped.                                                          *)
NextDue_Drifts(due, cadence, anchor) ==
  IF cadence = "weekly" THEN due + Week
  ELSE IF cadence = "monthly"
       THEN At(Month(due) + 1, InMonth(DayOfMonth(due), Month(due) + 1), HourOfDay(due))
       ELSE NoTime

NextDue(due, cadence, anchor) ==
  IF cadence = "weekly" THEN due + Week
  ELSE IF cadence = "monthly"
       THEN At(Month(due) + 1, InMonth(anchor, Month(due) + 1), HourOfDay(due))
       ELSE NoTime

-----------------------------------------------------------------------------
(* What a schedule means, independently of the steps: the k-th occurrence  *)
(* after one first set for "due".                                          *)
Occurrence(due, cadence, k) ==
  IF cadence = "weekly" THEN due + k * Week
  ELSE IF cadence = "monthly"
       THEN At(Month(due) + k, InMonth(DayOfMonth(due), Month(due) + k), HourOfDay(due))
       ELSE due

Periods(due, cadence) ==
  IF cadence = "once" THEN {0}
  ELSE IF cadence = "weekly" THEN 0..(MonthStart[Months] * 24 - due) \div Week
  ELSE 0..Months - 1 - Month(due)

Schedule(due, cadence) == {Occurrence(due, cadence, k) : k \in Periods(due, cadence)}
=============================================================================
