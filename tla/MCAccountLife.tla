---------------------------- MODULE MCAccountLife ---------------------------
(* An instance of AccountLife for TLC.                                     *)
EXTENDS AccountLife

CONSTANTS r1, w1, w2, u1, u2, t1, t2, k1, k2, s1, credit, bill, gift

(* First due dates around the ends of months and of the day in Lagos:      *)
(* 31 January at noon, 31 December at half past midnight in Lagos (the day *)
(* before in UTC), a Sunday in December.                                   *)
Jan31 == At(0, 31, 12)
Dec31 == At(11, 31, 0)
Dec12 == At(11, 12, 9)

OfferedInRun == {[due |-> Jan31, cadence |-> "monthly", ends |-> NoTime],
                 [due |-> Dec31, cadence |-> "monthly", ends |-> At(15, 15, 0)],
                 [due |-> Dec12, cadence |-> "weekly", ends |-> Dec12 + 3 * Week],
                 [due |-> Dec12, cadence |-> "once", ends |-> NoTime]}

(* Times: on a due date, before and after one, and after long outages.     *)
ClockOfRun == {Jan31, At(1, 28, 11), At(1, 28, 12), At(3, 30, 13),
               Dec12, Dec12 + 2 * Week + 1, Dec31, At(13, 29, 0) - 1, At(13, 29, 0), At(14, 31, 1)}

(* The same file under two names.                                          *)
DraftsOfRun == {[name |-> "legal", uploads |-> {u1}], [name |-> "other", uploads |-> {u1}]}

AgendasOfRun == {{"reminders", "standing"}, {"funding", "support", "standing"},
                 {"files", "support", "standing"}, {"identity", "files"},
                 {"statements"}, {"pages", "standing"}, {"imports"}}

WorthOfRun == [p \in {credit, bill, gift} |-> IF p = credit THEN 3 ELSE -1]

(* One file has the bill settled and the gift with another amount, the     *)
(* other the bill as it was before.                                        *)
Reports(status, agrees) == [status |-> status, agrees |-> agrees]
SaysOfRun == [f \in {"day", "early"} |->
                IF f = "day" THEN [p \in {bill, gift} |-> Reports("succeeded", p = bill)]
                ELSE [p \in {bill} |-> Reports("accepted", TRUE)]]
=============================================================================
