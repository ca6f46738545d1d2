----------------------------- MODULE Reminders ------------------------------
(***************************************************************************)
(* Saved bills and the reminders of one customer                           *)
(* (service/bill_management.go 28-71, 98-116, 138-271).  Module AccountLife *)
(* composes these operators with the standing of the account; a            *)
(* transaction of the customer runs under the lock of his users row.       *)
(*                                                                         *)
(* The version of a reminder is left out: it refuses a change made looking *)
(* at an older row, and the same change made again goes through.  Titles   *)
(* and amounts are data; the limits of a hundred only refuse.              *)
(***************************************************************************)
EXTENDS Calendar, FiniteSets

CONSTANTS Reminders,
          Offered,    \* bound: [due, cadence, ends] a customer may ask for
          Clock       \* bound: the instants at which anything happens

ASSUME ReminderAssumption ==
  /\ Offered \subseteq [due : Nat, cadence : Cadences, ends : Nat \cup {NoTime}]
  /\ \A o \in Offered : o.ends = NoTime \/ o.due <= o.ends
  /\ Clock \subseteq Nat
  /\ \A t \in {0} \cup Clock \cup {o.due : o \in Offered} : Day(t) < MonthStart[Months - 1]

VARIABLES
  now,        \* the time
  billSaved,  \* bill_favourites.active
  reminder,   \* reminders rows with the due date first asked for, or NoReminder
  occurrence  \* reminder_occurrences: the due dates a notice was queued for

reminderVars == <<now, billSaved, reminder, occurrence>>

NoReminder == [status |-> "none"]
Live    == {"active", "paused"}
Row     == [status : {"active", "paused", "cancelled", "completed"},
            due : Nat, first : Nat, anchor : 1..31, cadence : Cadences,
            ends : Nat \cup {NoTime}, ofBill : BOOLEAN]

ReminderTypeOK ==
  /\ now \in Nat /\ billSaved \in BOOLEAN
  /\ reminder \in [Reminders -> {NoReminder} \cup Row]
  /\ occurrence \in [Reminders -> SUBSET Nat]

ReminderInit ==
  /\ now = 0
  /\ billSaved = TRUE
  /\ reminder = [r \in Reminders |-> NoReminder]
  /\ occurrence = [r \in Reminders |-> {}]

Cancelled(r) == IF reminder[r].status \in Live THEN [reminder[r] EXCEPT !.status = "cancelled"]
                                               ELSE reminder[r]
AllCancelled == [r \in Reminders |-> Cancelled(r)]

DeleteSavedBill ==
  /\ billSaved
  /\ billSaved' = FALSE
  /\ reminder' = [r \in Reminders |-> IF reminder[r].status # "none" /\ reminder[r].ofBill
                                      THEN Cancelled(r) ELSE reminder[r]]
  /\ UNCHANGED <<now, occurrence>>

CreateReminder(r, o, ofBill) ==
  /\ reminder[r] = NoReminder
  /\ o.due > now
  /\ ofBill => billSaved
  /\ reminder' = [reminder EXCEPT ![r] =
       [status |-> "active", due |-> o.due, first |-> o.due, anchor |-> DayOfMonth(o.due),
        cadence |-> o.cadence, ends |-> o.ends, ofBill |-> ofBill]]
  /\ UNCHANGED <<now, billSaved, occurrence>>

ReminderState(r, status) ==
  /\ reminder[r].status \in Live
  /\ status \in {"active", "paused", "cancelled"}
  /\ reminder' = [reminder EXCEPT ![r].status = status]
  /\ UNCHANGED <<now, billSaved, occurrence>>

(* Stepping on with NextDue, which only goes forward, until the due date   *)
(* lies ahead: an outage, or a pause, of several periods is one notice.    *)
DueAfter(row, time) ==
  LET after[due \in Nat] ==
        LET next == NextDue(due, row.cadence, row.anchor) IN
        IF next \in due + 1..time THEN after[next] ELSE next
  IN after[row.due]

Finished(row, next) ==
  IF next = NoTime \/ (row.ends # NoTime /\ next > row.ends) THEN "completed" ELSE "active"

(* Mutant: a reminder that has ended keeps waiting for its last due date.  *)
Advanced_Waits(row) ==
  LET next == DueAfter(row, now) IN
  [row EXCEPT !.due = IF Finished(row, next) = "completed" THEN row.due ELSE next]

Advanced(row) ==
  LET next == DueAfter(row, now) IN
  [row EXCEPT !.due = IF Finished(row, next) = "completed" THEN row.due ELSE next,
              !.status = Finished(row, next)]

(* WorkReminder takes the earliest due row that no other scheduler has     *)
(* locked; as every due row gets its turn, the order is left out.  The     *)
(* occurrence is UNIQUE: a second row for it would abort the transaction.  *)
WorkReminder(r) ==
  /\ reminder[r].status = "active" /\ reminder[r].due <= now
  /\ reminder[r].due \notin occurrence[r]
  /\ occurrence' = [occurrence EXCEPT ![r] = @ \cup {reminder[r].due}]
  /\ reminder' = [reminder EXCEPT ![r] = Advanced(reminder[r])]
  /\ UNCHANGED <<now, billSaved>>

TimePasses ==
  /\ \E t \in Clock : t > now /\ now' = t
  /\ UNCHANGED <<billSaved, reminder, occurrence>>

-----------------------------------------------------------------------------
(* Every notice is for a date of the schedule the customer asked for, at   *)
(* or after that date and never past its end, whatever was skipped or      *)
(* paused meanwhile; a row that waits does so for such a date too.         *)
OnSchedule ==
  \A r \in Reminders : reminder[r].status # "none" =>
    LET row   == reminder[r]
        dates == Schedule(row.first, row.cadence)
    IN \A d \in occurrence[r] \cup {row.due} :
         /\ d \in dates
         /\ row.ends # NoTime => d <= row.ends
         /\ d \in occurrence[r] => d <= now
=============================================================================
