------------------------------- MODULE Support ------------------------------
(***************************************************************************)
(* The support cases of one customer (service/support.go 19-71, 136-184,   *)
(* identity_privacy.go 465-489).  Messages, events, subjects and who is    *)
(* assigned are data that no other decision reads.                         *)
(***************************************************************************)
EXTENDS FiniteSets

CONSTANTS Cases

VARIABLE supportCase   \* support_cases.status, "none" before the row exists

SupportStatuses == {"open", "awaiting_customer", "resolved", "escalated"}

SupportTypeOK == supportCase \in [Cases -> {"none"} \cup SupportStatuses]
SupportInit   == supportCase = [c \in Cases |-> "none"]

Unresolved(c) == supportCase[c] \in SupportStatuses \ {"resolved"}

CaseCreate(c) ==
  /\ supportCase[c] = "none"
  /\ supportCase' = [supportCase EXCEPT ![c] = "open"]

(* A reply of staff may set any status, also that of a resolved case; the  *)
(* customer's own reply leaves it, and is no action here.                  *)
CaseReply(c, status) ==
  /\ supportCase[c] # "none"
  /\ status \in SupportStatuses
  /\ supportCase' = [supportCase EXCEPT ![c] = status]

EscalateCase(c) ==
  /\ supportCase[c] \in {"open", "awaiting_customer"}
  /\ supportCase' = [supportCase EXCEPT ![c] = "escalated"]
=============================================================================
