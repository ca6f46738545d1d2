----------------------------- MODULE MCMandates -----------------------------
(* Instances of Mandates for TLC.                                          *)
EXTENDS Mandates, TLC

CONSTANTS a, b, m1, m2, s1, s2, d1

Offer(amount, once, first, ends, maxDebit, maxTotal, max) ==
  [owner |-> a, payee |-> b, amount |-> amount, once |-> once, first |-> first, ends |-> ends,
   maxDebit |-> maxDebit, maxTotal |-> maxTotal, max |-> max]

(* A series whose second debit a higher fee puts out of reach of its       *)
(* total, and a single transfer that does not allow for a higher fee.      *)
Series == Offer(1, FALSE, 1, 4, 2, 3, 2)
Single == Offer(1, TRUE, 1, 2, 1, 2, 1)
MCOffers  == {Series, Single}
MCOffered == (m1 :> {Series}) @@ (m2 :> {Single})

(* A fee, at first with a limit that still allows one unit and the fee.    *)
MCPolicy0 == [fee |-> 0, perPayment |-> 2]
MCPolicyChoices == {[fee |-> 1, perPayment |-> 2], [fee |-> 1, perPayment |-> 1]}

MCOpening == (a :> 3) @@ (b :> 0)
=============================================================================
