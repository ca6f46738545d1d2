----------------------------- MODULE MCCheckout -----------------------------
(* Instances of Checkout for TLC.                                          *)
EXTENDS Checkout, TLC

CONSTANTS ada, ben, cem, a1, a2, b1, c1, q1, q2, t1, t2, k1, k2, dinner, benPart, cemPart

MCSessionOwner == (a1 :> ada) @@ (a2 :> ada) @@ (b1 :> ben) @@ (c1 :> cem)
OwnerOfRun     == [s \in Sessions |-> MCSessionOwner[s]]
OpeningOfRun   == [a \in Account |-> IF a \in Customers THEN 6 ELSE IF a = Clearing THEN -18 ELSE 0]

Base  == [perPayment |-> 3, daily |-> 5, fee |-> 0]
Dear  == [perPayment |-> 3, daily |-> 5, fee |-> 1]
Tight == [perPayment |-> 2, daily |-> 2]

(* Ada asks Ben for two and Cem for one.                                   *)
RequesterOfRun == [r \in Requests |-> ada]
RequestOfRun   == [h \in Shares |-> dinner]
PayerOfRun     == [h \in Shares |-> IF h = benPart THEN ben ELSE cem]
AmountOfRun    == [h \in Shares |-> IF h = benPart THEN 2 ELSE 1]

(* The policy changes or stops between pricing and commit, over midnight.  *)
TermsChange ==
  [sessions |-> {a1}, payees |-> {ada, ben}, kinds |-> {"internal", "bill"}, amounts |-> {2},
   terms |-> {Base, Dear}, limits |-> {}, disturbed |-> {ada}, requests |-> {},
   maxVersion |-> 1, lastDay |-> 1]

(* Two sessions of one owner, freezes, restrictions and a tighter limit.   *)
OwnerSecures ==
  [sessions |-> {a1, a2}, payees |-> {ada, ben}, kinds |-> {"internal"}, amounts |-> {2},
   terms |-> {Base}, limits |-> {Tight}, disturbed |-> {ada, ben}, requests |-> {},
   maxVersion |-> 0, lastDay |-> 0]

(* A request of two shares, paid in parts under competing quotes.          *)
FriendsShare ==
  [sessions |-> {a1, b1, c1}, payees |-> {ada, ben}, kinds |-> {}, amounts |-> {1, 2},
   terms |-> {Base}, limits |-> {}, disturbed |-> {}, requests |-> {dinner},
   maxVersion |-> 0, lastDay |-> 0]

OneStop ==
  [sessions |-> {a1}, payees |-> {ada, ben}, kinds |-> {"internal"}, amounts |-> {2},
   terms |-> {Base}, limits |-> {}, disturbed |-> {ada}, requests |-> {},
   maxVersion |-> 1, lastDay |-> 0]

AllSituations == {TermsChange, OwnerSecures, FriendsShare}
StopOnly      == {OneStop}

Interchangeable == Permutations(Quotes) \cup Permutations(Tokens) \cup Permutations(Keys)
=============================================================================
