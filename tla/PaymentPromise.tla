--------------------------- MODULE PaymentPromise ---------------------------
(***************************************************************************)
(* What the backend promises about one customer payment, with no jobs,     *)
(* leases, workers or provider answers: money the customer may spend is    *)
(* set aside once when the payment is taken, the payment is handed to the  *)
(* provider at most once, and only a payment that was handed over is ever  *)
(* charged or given back, once and for good.  PaymentWorker implements it. *)
(***************************************************************************)
EXTENDS Integers

CONSTANTS Customers, Payments, Fundings, Kind, Payer, Payee, Amount, Fee,
          FundedTo, FundedAmount

VARIABLES spendable,  \* customer -> money that may be spent
          outcome,    \* payment -> "none", "held", "paid" or "returned"
          handedOver, \* payments the provider was asked to execute
          credited    \* funding evidence already credited

promiseVars == <<spendable, outcome, handedOver, credited>>

Charge(p) == Amount[p] + Fee[p]

Init ==
  /\ spendable = [c \in Customers |-> 0]
  /\ outcome = [p \in Payments |-> "none"]
  /\ handedOver = {} /\ credited = {}

Credit(f) ==
  /\ f \notin credited
  /\ credited' = credited \cup {f}
  /\ spendable' = [spendable EXCEPT ![FundedTo[f]] = @ + FundedAmount[f]]
  /\ UNCHANGED <<outcome, handedOver>>

Affordable(p) == outcome[p] = "none" /\ spendable[Payer[p]] >= Charge(p)

(* An internal transfer is paid as it is taken.                            *)
Transfer(p) ==
  /\ Kind[p] = "internal" /\ Affordable(p)
  /\ outcome' = [outcome EXCEPT ![p] = "paid"]
  /\ spendable' = [spendable EXCEPT ![Payer[p]] = @ - Charge(p), ![Payee[p]] = @ + Amount[p]]
  /\ UNCHANGED <<handedOver, credited>>

Reserve(p) ==
  /\ Kind[p] # "internal" /\ Affordable(p)
  /\ outcome' = [outcome EXCEPT ![p] = "held"]
  /\ spendable' = [spendable EXCEPT ![Payer[p]] = @ - Charge(p)]
  /\ UNCHANGED <<handedOver, credited>>

HandOver(p) ==
  /\ outcome[p] = "held" /\ p \notin handedOver
  /\ handedOver' = handedOver \cup {p}
  /\ UNCHANGED <<spendable, outcome, credited>>

Pay(p) ==
  /\ outcome[p] = "held" /\ p \in handedOver
  /\ outcome' = [outcome EXCEPT ![p] = "paid"]
  /\ UNCHANGED <<spendable, handedOver, credited>>

Return(p) ==
  /\ outcome[p] = "held" /\ p \in handedOver
  /\ outcome' = [outcome EXCEPT ![p] = "returned"]
  /\ spendable' = [spendable EXCEPT ![Payer[p]] = @ + Charge(p)]
  /\ UNCHANGED <<handedOver, credited>>

Next ==
  \/ \E f \in Fundings : Credit(f)
  \/ \E p \in Payments : Transfer(p) \/ Reserve(p) \/ HandOver(p) \/ Pay(p) \/ Return(p)

Spec == Init /\ [][Next]_promiseVars
=============================================================================
