----------------------------- MODULE MCLockOrder ----------------------------
(* An instance of LockOrder for TLC: any two calls, and three of the calls *)
(* that move money or wait for several customers.                          *)
EXTENDS LockOrder, TLC

CONSTANTS t1, t2, t3

AnyTwo == {[t \in Txns |-> IF t = t1 THEN a ELSE IF t = t2 THEN b ELSE NoCall] : a, b \in Calls}

OfThree ==
  UNION {{PayCustomer(p[1], p[2]) : p \in Pairs}, {RequestMoney(4, 1)},
         {Remind(1, 2), Remind(2, 4), Remind(4, 1)},
         {CloseAccount(1), WorkReminder(1), ApplyResult(2), RetryPayment(2), RetryJob(3, 2)}}

WorkloadsOfRun == AnyTwo \cup [Txns -> OfThree]

Interchangeable == Permutations(Txns)
=============================================================================
