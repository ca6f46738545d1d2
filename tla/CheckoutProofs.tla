---------------------------- MODULE CheckoutProofs --------------------------
(***************************************************************************)
(* Proofs about Checkout for any number of customers, sessions, quotes,    *)
(* authorisations, keys and money requests, and for any situation: the     *)
(* inductive invariant and what follows from it, then the sums of what was *)
(* paid, by share and by customer and day.                                 *)
(***************************************************************************)
EXTENDS Checkout, Sums, TLAPS

-----------------------------------------------------------------------------
(* The inductive invariant.                                                *)

(* A call that is about to link its quote has stored it.                   *)
LinksKnown == \A s \in Sessions : call[s].stage = "link" => quote[call[s].quote] # None

(* What is priced under a version has the fee of that version's terms.     *)
PricedUnder(c) ==
  /\ c.version <= policy.version
  /\ c.kind = "internal" /\ c.version = policy.version => c.fee = policy.terms.fee
  /\ c.kind = "bill" => c.payee = None

PricesOfTheirVersion ==
  /\ \A s \in Sessions : call[s].stage = "priced" => PricedUnder(call[s].content)
  /\ \A q \in Quotes : quote[q] # None => PricedUnder(quote[q])

(* A quote is used if and only if it has its payment.                      *)
UsedOnce == \A q \in Quotes : Paid(q) <=> quote[q] # None /\ quote[q].used

(* One payment of an owner has a key.                                      *)
KeysBindOne ==
  \A p, q \in Quotes :
    Paid(p) /\ Paid(q) /\ quote[p].owner = quote[q].owner /\ payment[p].key = payment[q].key => p = q

AnswersTrue ==
  \A a \in told : /\ a.asked = a.answer /\ Paid(a.answer)
                  /\ payment[a.answer].key = a.key /\ quote[a.answer].owner = a.owner

(* What the rows of shares and requests say of one another.                *)
SharesBounded ==
  \A h \in Shares :
    /\ share[h].received <= ShareAmount[h]
    /\ share[h].status = "paid" <=> share[h].received = ShareAmount[h]
    /\ request[ShareRequest[h]] = "none" => share[h].status = "open"

CompletedWhenPaid ==
  \A r \in Requests :
    request[r] = "completed" <=> request[r] # "none" /\ \A h \in SharesOf(r) : share[h].status = "paid"

FlowInv == LinksKnown /\ PricesOfTheirVersion /\ UsedOnce /\ KeysBindOne /\ AnswersTrue
           /\ PaidWithOwnAuthorisation
ShareInv == SharesBounded /\ CompletedWhenPaid
IInv == TypeOK /\ FlowInv /\ ShareInv

-----------------------------------------------------------------------------
(* Types of the constants and of what a step writes.                       *)
LEMMA Constants ==
  /\ SessionOwner \in [Sessions -> Customers] /\ ProviderFee \in Nat
  /\ None \notin Customers /\ None \notin QuoteRow /\ None \notin AuthRow /\ None \notin PaymentRow
  /\ Requester \in [Requests -> Customers] /\ ShareRequest \in [Shares -> Requests]
  /\ SharePayer \in [Shares -> Customers] /\ ShareAmount \in [Shares -> Nat \ {0}]
BY CheckoutAssumption, ShareAssumption

LEMMA Bounds ==
  ASSUME situation \in Situations
  PROVE  /\ situation.amounts \subseteq Nat /\ situation.payees \subseteq Customers
         /\ situation.kinds \subseteq {"internal", "bill"}
         /\ situation.terms \subseteq Terms /\ situation.limits \subseteq Limits
         /\ situation.sessions \subseteq Sessions /\ situation.disturbed \subseteq Customers
         /\ situation.requests \subseteq Requests
         /\ situation.maxVersion \in Nat /\ situation.lastDay \in Nat
BY CheckoutAssumption DEF Situation

(* A call in one of its stages has the fields of that stage.               *)
LEMMA CallFields ==
  ASSUME TypeOK, NEW s \in Sessions
  PROVE  /\ call[s].stage = "shared" => call[s] \in [stage : {"shared"}, share : Shares, amount : Nat]
         /\ call[s].stage = "priced" => call[s] \in [stage : {"priced"}, content : Content]
         /\ call[s].stage = "link" => call[s] \in [stage : {"link"}, quote : Quotes, share : Shares]
         /\ call[s] = Idle => call[s].stage = "idle"
BY DEF TypeOK, Idle

LEMMA RowTypes ==
  ASSUME TypeOK
  PROVE  /\ \A q \in Quotes : quote[q] # None => quote[q] \in QuoteRow
         /\ \A t \in Tokens : auth[t] # None => auth[t] \in AuthRow
         /\ \A q \in Quotes : payment[q] # None => payment[q] \in PaymentRow
BY DEF TypeOK

(* Ledger, requests and controls that a step leaves alone keep their types. *)
LEMMA LedgerStays ==
  ASSUME TypeOK, UNCHANGED ledgerVars PROVE LedgerTypeOK' /\ journals' \subseteq Quotes
BY DEF TypeOK, LedgerTypeOK, ledgerVars

LEMMA RequestsStay ==
  ASSUME TypeOK, ShareInv, UNCHANGED requestVars PROVE RequestTypeOK' /\ ShareInv'
BY DEF TypeOK, RequestTypeOK, requestVars, ShareInv, SharesBounded, CompletedWhenPaid

ControlTypes ==
  /\ situation \in Situations
  /\ policy \in [version : Nat, terms : Terms, enabled : BOOLEAN]
  /\ product \in BOOLEAN
  /\ limits \in [Customers -> Limits \cup {None}]
  /\ frozen \subseteq Customers /\ restricted \subseteq Customers /\ revoked \subseteq Sessions
  /\ today \in Nat

FlowTypes ==
  /\ call \in [Sessions ->
       {Idle} \cup [stage : {"shared"}, share : Shares, amount : Nat]
              \cup [stage : {"priced"}, content : Content]
              \cup [stage : {"link"}, quote : Quotes, share : Shares]]
  /\ quote \in [Quotes -> {None} \cup QuoteRow]
  /\ auth \in [Tokens -> {None} \cup AuthRow]
  /\ payment \in [Quotes -> {None} \cup PaymentRow]
  /\ told \subseteq [owner : Customers, key : Keys, asked : Quotes, answer : Quotes]

LEMMA TypeParts ==
  TypeOK <=> LedgerTypeOK /\ journals \subseteq Quotes /\ RequestTypeOK /\ ControlTypes /\ FlowTypes
BY DEF TypeOK, ControlTypes, FlowTypes

LEMMA TypesAfter ==
  LedgerTypeOK' /\ journals' \subseteq Quotes /\ RequestTypeOK' /\ ControlTypes' /\ FlowTypes' => TypeOK'
BY DEF TypeOK, ControlTypes, FlowTypes

LEMMA ControlsStay == ASSUME ControlTypes, UNCHANGED controlVars PROVE ControlTypes'
BY DEF ControlTypes, controlVars

(* A step that writes only to the flow.                                    *)
LEMMA FlowStep ==
  ASSUME IInv, UNCHANGED <<ledgerVars, requestVars, controlVars>>, FlowTypes', FlowInv'
  PROVE  IInv'
BY TypeParts, TypesAfter, LedgerStays, RequestsStay, ControlsStay DEF IInv

(* Quotes may be stored and changed; what payments rest on stays.          *)
QuotesSteady ==
  \A q \in Quotes :
    \/ quote'[q] = quote[q]
    \/ quote[q] = None /\ quote'[q] # None /\ ~quote'[q].used
    \/ /\ quote[q] # None /\ quote'[q] # None
       /\ quote'[q].owner = quote[q].owner /\ quote'[q].used = quote[q].used

LEMMA PaymentsStay ==
  ASSUME IInv, UNCHANGED <<payment, told>>, QuotesSteady
  PROVE  UsedOnce' /\ KeysBindOne' /\ AnswersTrue'
<1>1. \A q \in Quotes : Paid(q)' = Paid(q) /\ payment'[q] = payment[q]
  BY DEF Paid
<1>2. \A q \in Quotes : Paid(q) => quote'[q].owner = quote[q].owner
  BY DEF IInv, FlowInv, UsedOnce, QuotesSteady
<1>3. UsedOnce'
  BY <1>1 DEF QuotesSteady, IInv, FlowInv, UsedOnce
<1>4. KeysBindOne'
  BY <1>1, <1>2 DEF IInv, FlowInv, KeysBindOne
<1>5. AnswersTrue'
  <2>1. ASSUME NEW a \in told
        PROVE  /\ a.asked = a.answer /\ Paid(a.answer)'
               /\ payment'[a.answer].key = a.key /\ quote'[a.answer].owner = a.owner
    <3>1. a.answer \in Quotes
      BY TypeParts DEF IInv, FlowTypes
    <3> QED
      BY <1>1, <1>2, <3>1 DEF IInv, FlowInv, AnswersTrue
  <2> QED
    BY <2>1 DEF AnswersTrue
<1> QED
  BY <1>3, <1>4, <1>5

-----------------------------------------------------------------------------
(* Calls that prepare a quote.                                             *)

(* A step that changes nothing in the flow but one call.                   *)
LEMMA CallStep ==
  ASSUME IInv, NEW s \in Sessions, NEW c,
         UNCHANGED <<ledgerVars, requestVars, controlVars, quote, auth, payment, told>>,
         call' = [call EXCEPT ![s] = c],
         \/ c = Idle
         \/ c \in [stage : {"shared"}, share : Shares, amount : Nat]
         \/ c \in [stage : {"priced"}, content : Content] /\ PricedUnder(c.content)
  PROVE  IInv'
<1>1. c.stage # "link" /\ (c.stage = "priced" => PricedUnder(c.content))
  BY DEF Idle
<1>2. FlowTypes'
  BY TypeParts DEF IInv, FlowTypes
<1>3. call'[s] = c /\ \A x \in Sessions : x # s => call'[x] = call[x]
  BY TypeParts DEF IInv, FlowTypes
<1>4. LinksKnown'
  BY <1>1, <1>3 DEF IInv, FlowInv, LinksKnown
<1>5. PricesOfTheirVersion'
  BY <1>1, <1>3 DEF IInv, FlowInv, PricesOfTheirVersion, PricedUnder, controlVars
<1>6. UsedOnce' /\ KeysBindOne' /\ AnswersTrue' /\ PaidWithOwnAuthorisation'
  BY DEF IInv, FlowInv, UsedOnce, KeysBindOne, AnswersTrue, PaidWithOwnAuthorisation, Paid
<1> QED
  BY <1>2, <1>4, <1>5, <1>6, FlowStep DEF FlowInv

LEMMA ReadShareKeeps ==
  ASSUME IInv, NEW s \in Sessions, NEW h \in Shares, NEW amount \in situation.amounts, ReadShare(s, h, amount)
  PROVE  IInv'
<1>1. amount \in Nat
  BY Bounds DEF IInv, TypeOK
<1> QED
  BY <1>1, CallStep DEF ReadShare

LEMMA PriceGives ==
  ASSUME IInv, NEW s \in Sessions, NEW kind \in {"internal", "bill"}, NEW payee \in Customers \cup {None},
         NEW amount \in Nat, NEW h \in Shares \cup {None}, Price(s, kind, payee, amount, h)
  PROVE  \E c \in [stage : {"priced"}, content : Content] :
           PricedUnder(c.content) /\ call' = [call EXCEPT ![s] = c]
<1> DEFINE c == [kind |-> kind, payee |-> payee, amount |-> amount, share |-> h,
                 fee |-> IF kind = "internal" THEN policy.terms.fee ELSE ProviderFee,
                 version |-> policy.version]
<1>1. policy.version \in Nat /\ policy.terms.fee \in Nat /\ ProviderFee \in Nat
  BY Constants DEF IInv, TypeOK, Terms
<1>2. c \in Content
  BY <1>1 DEF Content
<1>3. PricedUnder(c)
  BY <1>1 DEF PricedUnder, Price
<1>4. call' = [call EXCEPT ![s] = [stage |-> "priced", content |-> c]]
  BY DEF Price
<1>5. [stage |-> "priced", content |-> c] \in [stage : {"priced"}, content : Content]
  BY <1>2
<1> HIDE DEF c
<1> QED
  BY <1>3, <1>4, <1>5

LEMMA PriceQuoteKeeps ==
  ASSUME IInv, NEW s \in Sessions, PriceQuote(s) PROVE IInv'
<1>1. \E kind \in {"internal", "bill"}, payee \in Customers \cup {None}, amount \in Nat, h \in Shares \cup {None} :
        Price(s, kind, payee, amount, h)
  <2>1. CASE \E kind \in situation.kinds, payee \in situation.payees \cup {None}, amount \in situation.amounts :
               Price(s, kind, payee, amount, None)
    BY <2>1, Bounds DEF IInv, TypeOK
  <2>2. CASE /\ call[s].stage = "shared"
             /\ Price(s, "internal", Requester[ShareRequest[call[s].share]], call[s].amount, call[s].share)
    <3>1. call[s].share \in Shares /\ call[s].amount \in Nat
      BY <2>2, CallFields DEF IInv
    <3>2. Requester[ShareRequest[call[s].share]] \in Customers
      BY <3>1, Constants
    <3> QED
      BY <2>2, <3>1, <3>2
  <2> QED
    BY <2>1, <2>2 DEF PriceQuote
<1>2. \E c \in [stage : {"priced"}, content : Content] :
        PricedUnder(c.content) /\ call' = [call EXCEPT ![s] = c]
  BY <1>1, PriceGives
<1> QED
  BY <1>2, CallStep DEF PriceQuote

LEMMA CallEndsKeeps == ASSUME IInv, NEW s \in Sessions, CallEnds(s) PROVE IInv'
BY CallStep DEF CallEnds

(* The new quote is nobody's, used by nothing, linked to no share.         *)
LEMMA StoreQuoteKeeps == ASSUME IInv, NEW s \in Sessions, NEW q \in Quotes, StoreQuote(s, q) PROVE IInv'
<1> DEFINE c == call[s].content
           row == [owner |-> Owner(s), kind |-> c.kind, payee |-> c.payee, amount |-> c.amount,
                   fee |-> c.fee, version |-> c.version, share |-> None,
                   used |-> FALSE, expired |-> FALSE, shown |-> c.share = None]
           next == IF c.share = None THEN Idle ELSE [stage |-> "link", quote |-> q, share |-> c.share]
<1>1. c \in Content /\ PricedUnder(c) /\ call[s].stage = "priced"
  <2>1. call[s].stage = "priced"
    BY DEF StoreQuote
  <2> QED
    BY <2>1, CallFields DEF IInv, FlowInv, PricesOfTheirVersion
<1>2. row \in QuoteRow
  BY <1>1, Constants DEF Content, QuoteRow, Owner
<1>3. /\ quote[q] = None /\ quote' = [quote EXCEPT ![q] = row] /\ call' = [call EXCEPT ![s] = next]
      /\ UNCHANGED <<ledgerVars, requestVars, controlVars, auth, payment, told>>
  BY DEF StoreQuote
<1>4. /\ next = Idle \/ next \in [stage : {"link"}, quote : Quotes, share : Shares]
      /\ next.stage # "priced" /\ (next.stage = "link" => next.quote = q)
  BY <1>1 DEF Content, Idle
<1>5. PricedUnder(row)
  BY <1>1 DEF PricedUnder
<1>6. row # None /\ ~row.used
  BY <1>2, Constants
<1> HIDE DEF row, next, c
<1>7. FlowTypes'
  BY <1>2, <1>3, <1>4, TypeParts DEF IInv, FlowTypes
<1>8. /\ call'[s] = next /\ \A x \in Sessions : x # s => call'[x] = call[x]
      /\ quote'[q] = row /\ \A x \in Quotes : x # q => quote'[x] = quote[x]
  BY <1>3, TypeParts DEF IInv, FlowTypes
<1>9. UsedOnce' /\ KeysBindOne' /\ AnswersTrue'
  <2>1. QuotesSteady
    BY <1>3, <1>6, <1>8 DEF QuotesSteady
  <2> QED
    BY <1>3, <2>1, PaymentsStay
<1>10. LinksKnown'
  <2>1. ASSUME NEW x \in Sessions, call'[x].stage = "link" PROVE quote'[call'[x].quote] # None
    <3>1. CASE x = s
      BY <1>4, <1>6, <1>8, <2>1, <3>1
    <3>2. CASE x # s
      <4>1. call[x].stage = "link" /\ call[x].quote \in Quotes /\ call'[x] = call[x]
        BY <1>8, <2>1, <3>2, CallFields DEF IInv
      <4>2. quote[call[x].quote] # None
        BY <4>1 DEF IInv, FlowInv, LinksKnown
      <4> QED
        BY <1>6, <1>8, <4>1, <4>2
    <3> QED
      BY <3>1, <3>2
  <2> QED
    BY <2>1 DEF LinksKnown
<1>11. PricesOfTheirVersion'
  BY <1>3, <1>4, <1>5, <1>8 DEF IInv, FlowInv, PricesOfTheirVersion, PricedUnder, controlVars
<1>12. PaidWithOwnAuthorisation'
  BY <1>3 DEF IInv, FlowInv, PaidWithOwnAuthorisation, Paid
<1> QED
  BY <1>3, <1>7, <1>9, <1>10, <1>11, <1>12, FlowStep DEF FlowInv

(* A step on one stored quote that keeps what the invariant says of it.    *)
SameButFlags(row, old) ==
  /\ row.owner = old.owner /\ row.kind = old.kind /\ row.payee = old.payee /\ row.amount = old.amount
  /\ row.fee = old.fee /\ row.version = old.version /\ row.used = old.used

LEMMA LinkQuoteKeeps == ASSUME IInv, NEW s \in Sessions, LinkQuote(s) PROVE IInv'
<1> DEFINE q == call[s].quote
           row == [quote[q] EXCEPT !.share = call[s].share, !.shown = TRUE]
<1>1. call[s].stage = "link" /\ q \in Quotes /\ call[s].share \in Shares /\ quote[q] # None
  <2>1. call[s].stage = "link"
    BY DEF LinkQuote
  <2> QED
    BY <2>1, CallFields DEF IInv, FlowInv, LinksKnown
<1>2. quote[q] \in QuoteRow
  BY <1>1, RowTypes DEF IInv
<1>3. row \in QuoteRow /\ SameButFlags(row, quote[q])
  BY <1>1, <1>2 DEF QuoteRow, SameButFlags
<1>4. row # None
  BY <1>3, Constants
<1>5. /\ quote' = [quote EXCEPT ![q] = row] /\ call' = [call EXCEPT ![s] = Idle]
      /\ UNCHANGED <<ledgerVars, requestVars, controlVars, auth, payment, told>>
  BY <1>1 DEF LinkQuote
<1> HIDE DEF row, q
<1>6. FlowTypes'
  BY <1>1, <1>3, <1>5, TypeParts DEF IInv, FlowTypes
<1>7. /\ call'[s] = Idle /\ \A x \in Sessions : x # s => call'[x] = call[x]
      /\ quote'[q] = row /\ \A x \in Quotes : x # q => quote'[x] = quote[x]
  BY <1>1, <1>5, TypeParts DEF IInv, FlowTypes
<1>8. UsedOnce' /\ KeysBindOne' /\ AnswersTrue'
  <2>1. QuotesSteady
    BY <1>1, <1>3, <1>4, <1>7 DEF QuotesSteady, SameButFlags
  <2> QED
    BY <1>5, <2>1, PaymentsStay
<1>9. LinksKnown'
  <2>1. ASSUME NEW x \in Sessions, call'[x].stage = "link" PROVE quote'[call'[x].quote] # None
    <3>1. x # s /\ call[x].stage = "link" /\ call[x].quote \in Quotes /\ call'[x] = call[x]
      BY <1>7, <2>1, CallFields DEF IInv, Idle
    <3>2. quote[call[x].quote] # None
      BY <3>1 DEF IInv, FlowInv, LinksKnown
    <3> QED
      BY <1>4, <1>7, <3>1, <3>2
  <2> QED
    BY <2>1 DEF LinksKnown
<1>10. PricesOfTheirVersion'
  <2>1. PricedUnder(quote[q])
    BY <1>1 DEF IInv, FlowInv, PricesOfTheirVersion
  <2>2. PricedUnder(row)
    BY <1>3, <2>1 DEF PricedUnder, SameButFlags
  <2> QED
    BY <1>5, <1>7, <2>2 DEF IInv, FlowInv, PricesOfTheirVersion, PricedUnder, controlVars, Idle
<1>11. PaidWithOwnAuthorisation'
  BY <1>5 DEF IInv, FlowInv, PaidWithOwnAuthorisation, Paid
<1> QED
  BY <1>5, <1>6, <1>8, <1>9, <1>10, <1>11, FlowStep DEF FlowInv

-----------------------------------------------------------------------------
(* Authorisations, and what time does to them and to quotes.               *)

LEMMA AuthoriseKeeps ==
  ASSUME IInv, NEW s \in Sessions, NEW q \in Quotes, NEW t \in Tokens, Authorise(s, q, t) PROVE IInv'
<1> DEFINE row == [quote |-> q, session |-> s, state |-> "fresh"]
<1>1. /\ auth[t] = None /\ auth' = [auth EXCEPT ![t] = row] /\ row \in AuthRow
      /\ UNCHANGED <<ledgerVars, requestVars, controlVars, call, quote, payment, told>>
  BY DEF Authorise, AuthRow
<1>2. row.state # "consumed"
  OBVIOUS
<1> HIDE DEF row
<1>3. FlowTypes'
  BY <1>1, TypeParts DEF IInv, FlowTypes
<1>4. auth'[t] = row /\ \A x \in Tokens : x # t => auth'[x] = auth[x]
  BY <1>1, TypeParts DEF IInv, FlowTypes
<1>5. PaidWithOwnAuthorisation'
  <2>1. ASSUME NEW p \in Quotes, Paid(p)
        PROVE  \E x \in Tokens : auth'[x] = [quote |-> p, session |-> payment[p].session, state |-> "consumed"]
    <3>1. PICK x \in Tokens : auth[x] = [quote |-> p, session |-> payment[p].session, state |-> "consumed"]
      BY <2>1 DEF IInv, FlowInv, PaidWithOwnAuthorisation
    <3>2. auth[x] # None
      <4>1. payment[p].session \in Sessions
        BY <2>1, RowTypes DEF IInv, Paid, PaymentRow
      <4> QED
        BY <3>1, <4>1, Constants DEF AuthRow
    <3> QED
      BY <1>1, <1>4, <3>1, <3>2
  <2>2. ASSUME NEW x \in Tokens, auth'[x] # None, auth'[x].state = "consumed" PROVE Paid(auth'[x].quote)
    BY <1>2, <1>4, <2>2 DEF IInv, FlowInv, PaidWithOwnAuthorisation
  <2> QED
    BY <1>1, <2>1, <2>2 DEF PaidWithOwnAuthorisation, Paid
<1>6. LinksKnown' /\ PricesOfTheirVersion' /\ UsedOnce' /\ KeysBindOne' /\ AnswersTrue'
  BY <1>1 DEF IInv, FlowInv, LinksKnown, PricesOfTheirVersion, PricedUnder, UsedOnce, KeysBindOne,
              AnswersTrue, Paid, controlVars
<1> QED
  BY <1>1, <1>3, <1>5, <1>6, FlowStep DEF FlowInv

(* Fresh authorisations may lapse; the others stay.                        *)
OnlyLapses ==
  \A t \in Tokens :
    \/ auth'[t] = auth[t]
    \/ auth[t] # None /\ auth[t].state = "fresh" /\ auth'[t].state = "expired"

LEMMA LapsesKeep ==
  ASSUME IInv, UNCHANGED payment, OnlyLapses
  PROVE  PaidWithOwnAuthorisation'
<1>1. ASSUME NEW p \in Quotes, Paid(p)
      PROVE  \E x \in Tokens : auth'[x] = [quote |-> p, session |-> payment[p].session, state |-> "consumed"]
  <2>1. PICK x \in Tokens : auth[x] = [quote |-> p, session |-> payment[p].session, state |-> "consumed"]
    BY <1>1 DEF IInv, FlowInv, PaidWithOwnAuthorisation
  <2> QED
    BY <2>1 DEF OnlyLapses
<1>2. ASSUME NEW x \in Tokens, auth'[x] # None, auth'[x].state = "consumed" PROVE Paid(auth'[x].quote)
  BY <1>2 DEF OnlyLapses, IInv, FlowInv, PaidWithOwnAuthorisation
<1> QED
  BY <1>1, <1>2 DEF PaidWithOwnAuthorisation, Paid

LEMMA AuthorisationExpiresKeeps == ASSUME IInv, NEW t \in Tokens, AuthorisationExpires(t) PROVE IInv'
<1>1. auth[t] \in AuthRow /\ auth[t] # None /\ auth[t].state = "fresh"
  BY RowTypes DEF IInv, AuthorisationExpires
<1> DEFINE row == [auth[t] EXCEPT !.state = "expired"]
<1>2. row \in AuthRow /\ row.state = "expired"
  BY <1>1 DEF AuthRow
<1>3. /\ auth' = [auth EXCEPT ![t] = row]
      /\ UNCHANGED <<ledgerVars, requestVars, controlVars, call, quote, payment, told>>
  BY DEF AuthorisationExpires
<1> HIDE DEF row
<1>4. FlowTypes'
  BY <1>2, <1>3, TypeParts DEF IInv, FlowTypes
<1>5. PaidWithOwnAuthorisation'
  <2>1. auth'[t] = row /\ \A x \in Tokens : x # t => auth'[x] = auth[x]
    BY <1>3, TypeParts DEF IInv, FlowTypes
  <2>2. OnlyLapses
    BY <1>1, <1>2, <2>1 DEF OnlyLapses
  <2> QED
    BY <1>3, <2>2, LapsesKeep
<1>6. LinksKnown' /\ PricesOfTheirVersion' /\ UsedOnce' /\ KeysBindOne' /\ AnswersTrue'
  BY <1>3 DEF IInv, FlowInv, LinksKnown, PricesOfTheirVersion, PricedUnder, UsedOnce, KeysBindOne,
              AnswersTrue, Paid, controlVars
<1> QED
  BY <1>3, <1>4, <1>5, <1>6, FlowStep DEF FlowInv

LEMMA QuoteExpiresKeeps == ASSUME IInv, NEW q \in Quotes, QuoteExpires(q) PROVE IInv'
<1> DEFINE row == [quote[q] EXCEPT !.expired = TRUE]
<1>1. quote[q] # None /\ quote[q] \in QuoteRow
  BY RowTypes DEF IInv, QuoteExpires
<1>2. row \in QuoteRow /\ SameButFlags(row, quote[q])
  BY <1>1 DEF QuoteRow, SameButFlags
<1>3. row # None
  BY <1>2, Constants
<1>4. /\ quote' = [quote EXCEPT ![q] = row]
      /\ UNCHANGED <<ledgerVars, requestVars, controlVars, call, payment, told>>
  BY DEF QuoteExpires
<1> HIDE DEF row
<1>5. quote'[q] = row /\ \A x \in Quotes : x # q => quote'[x] = quote[x]
  BY <1>4, TypeParts DEF IInv, FlowTypes
<1>6. ASSUME NEW t \in Tokens
      PROVE  /\ auth'[t] \in {None} \cup AuthRow
             /\ \/ auth'[t] = auth[t]
                \/ auth[t] # None /\ auth[t].state = "fresh" /\ auth'[t].state = "expired"
  <2>1. CASE auth[t] # None /\ auth[t].quote = q /\ auth[t].state = "fresh"
    <3>1. auth'[t] = [auth[t] EXCEPT !.state = "expired"] /\ auth[t] \in AuthRow
      BY <2>1, RowTypes DEF IInv, QuoteExpires
    <3> QED
      BY <2>1, <3>1 DEF AuthRow
  <2>2. CASE ~(auth[t] # None /\ auth[t].quote = q /\ auth[t].state = "fresh")
    <3>1. auth'[t] = auth[t]
      BY <2>2 DEF QuoteExpires
    <3> QED
      BY <3>1, TypeParts DEF IInv, FlowTypes
  <2> QED
    BY <2>1, <2>2
<1>7. auth' \in [Tokens -> {None} \cup AuthRow]
  <2>1. auth' = [t \in Tokens |-> auth'[t]]
    BY DEF QuoteExpires
  <2> QED
    BY <1>6, <2>1
<1>8. FlowTypes'
  BY <1>2, <1>4, <1>7, TypeParts DEF IInv, FlowTypes
<1>9. PaidWithOwnAuthorisation'
  <2>1. OnlyLapses
    BY <1>6 DEF OnlyLapses
  <2> QED
    BY <1>4, <2>1, LapsesKeep
<1>10. UsedOnce' /\ KeysBindOne' /\ AnswersTrue'
  <2>1. QuotesSteady
    BY <1>1, <1>2, <1>3, <1>5 DEF QuotesSteady, SameButFlags
  <2> QED
    BY <1>4, <2>1, PaymentsStay
<1>11. LinksKnown'
  BY <1>3, <1>4, <1>5, CallFields DEF IInv, FlowInv, LinksKnown
<1>12. PricesOfTheirVersion'
  <2>1. PricedUnder(quote[q])
    BY <1>1 DEF IInv, FlowInv, PricesOfTheirVersion
  <2>2. PricedUnder(row)
    BY <1>2, <2>1 DEF PricedUnder, SameButFlags
  <2> QED
    BY <1>4, <1>5, <2>2 DEF IInv, FlowInv, PricesOfTheirVersion, PricedUnder, controlVars
<1> QED
  BY <1>4, <1>8, <1>9, <1>10, <1>11, <1>12, FlowStep DEF FlowInv

-----------------------------------------------------------------------------
(* What staff and owners change meanwhile.                                 *)

(* A step that changes controls only, none of them the policy.             *)
LEMMA ControlStep ==
  ASSUME IInv, UNCHANGED <<ledgerVars, requestVars, flowVars, policy>>, ControlTypes'
  PROVE  IInv'
<1>1. FlowTypes'
  BY TypeParts DEF IInv, FlowTypes, flowVars
<1>2. FlowInv'
  BY DEF IInv, FlowInv, LinksKnown, PricesOfTheirVersion, PricedUnder, UsedOnce, KeysBindOne, AnswersTrue,
         PaidWithOwnAuthorisation, Paid, flowVars
<1> QED
  BY <1>1, <1>2, TypesAfter, LedgerStays, RequestsStay DEF IInv

LEMMA ProductChangesKeeps == ASSUME IInv, ProductChanges PROVE IInv'
<1>1. ControlTypes'
  BY TypeParts DEF IInv, ControlTypes, ProductChanges
<1> QED
  BY <1>1, ControlStep DEF ProductChanges

LEMMA MidnightKeeps == ASSUME IInv, Midnight PROVE IInv'
<1>1. ControlTypes'
  BY TypeParts DEF IInv, ControlTypes, Midnight
<1> QED
  BY <1>1, ControlStep DEF Midnight

LEMMA StandingChangesKeeps == ASSUME IInv, NEW c \in Customers, StandingChanges(c) PROVE IInv'
<1>1. ControlTypes'
  BY TypeParts DEF IInv, ControlTypes, StandingChanges
<1> QED
  BY <1>1, ControlStep DEF StandingChanges

LEMMA ChangeControlsKeeps ==
  ASSUME IInv, NEW s \in Sessions, NEW l \in situation.limits, ChangeControls(s, l) PROVE IInv'
<1>1. l \in Limits
  BY Bounds DEF IInv, TypeOK
<1>2. ControlTypes'
  BY <1>1, TypeParts DEF IInv, ControlTypes, ChangeControls
<1> QED
  BY <1>2, ControlStep DEF ChangeControls

LEMMA SecureAccountKeeps == ASSUME IInv, NEW s \in Sessions, SecureAccount(s) PROVE IInv'
<1>1. Owner(s) \in Customers
  BY Constants DEF Owner
<1>2. ControlTypes'
  BY <1>1, TypeParts DEF IInv, ControlTypes, SecureAccount
<1> QED
  BY <1>2, ControlStep DEF SecureAccount

(* A new version: what was priced before is under an older one.            *)
LEMMA PolicyChangesKeeps == ASSUME IInv, PolicyChanges PROVE IInv'
<1>1. PICK terms \in situation.terms, on \in BOOLEAN :
        policy' = [version |-> policy.version + 1, terms |-> terms, enabled |-> on]
  BY DEF PolicyChanges
<1>2. terms \in Terms /\ policy.version \in Nat
  BY Bounds DEF IInv, TypeOK
<1>3. ControlTypes'
  BY <1>1, <1>2, TypeParts DEF IInv, ControlTypes, PolicyChanges
<1>4. FlowTypes'
  BY TypeParts DEF IInv, FlowTypes, PolicyChanges, flowVars
<1>5. PricesOfTheirVersion'
  <2>1. ASSUME NEW c, PricedUnder(c), c.version \in Nat PROVE PricedUnder(c)'
    BY <1>1, <1>2, <2>1 DEF PricedUnder
  <2>2. ASSUME NEW s \in Sessions, call[s].stage = "priced" PROVE call[s].content.version \in Nat
    BY <2>2, CallFields DEF IInv, Content
  <2>3. ASSUME NEW q \in Quotes, quote[q] # None PROVE quote[q].version \in Nat
    BY <2>3, RowTypes DEF IInv, QuoteRow
  <2>4. call' = call /\ quote' = quote
    BY DEF PolicyChanges, flowVars
  <2>5. ASSUME NEW s \in Sessions, call[s].stage = "priced" PROVE PricedUnder(call[s].content)'
    BY <2>1, <2>2, <2>5, <2>4 DEF IInv, FlowInv, PricesOfTheirVersion
  <2>6. ASSUME NEW q \in Quotes, quote[q] # None PROVE PricedUnder(quote[q])'
    BY <2>1, <2>3, <2>6, <2>4 DEF IInv, FlowInv, PricesOfTheirVersion
  <2> QED
    BY <2>4, <2>5, <2>6 DEF PricesOfTheirVersion
<1>6. LinksKnown' /\ UsedOnce' /\ KeysBindOne' /\ AnswersTrue' /\ PaidWithOwnAuthorisation'
  BY DEF IInv, FlowInv, LinksKnown, UsedOnce, KeysBindOne, AnswersTrue, PaidWithOwnAuthorisation, Paid,
         PolicyChanges, flowVars
<1>7. LedgerTypeOK' /\ journals' \subseteq Quotes /\ RequestTypeOK' /\ ShareInv'
  BY LedgerStays, RequestsStay DEF PolicyChanges, IInv
<1> QED
  BY <1>3, <1>4, <1>5, <1>6, <1>7, TypesAfter DEF IInv, FlowInv

-----------------------------------------------------------------------------
(* Money requests.                                                         *)

LEMMA RequestStepKeeps == ASSUME IInv, NEW s \in Sessions, RequestStep(s) PROVE IInv'
<1>1. UNCHANGED <<ledgerVars, controlVars, flowVars>>
  BY DEF RequestStep
<1>2. RequestTypeOK /\ SharesBounded /\ CompletedWhenPaid
  BY TypeParts DEF IInv, ShareInv
<1>3. RequestTypeOK' /\ ShareInv'
  <2>1. ASSUME NEW r \in Requests, RequestMoney(r) PROVE RequestTypeOK' /\ ShareInv'
    <3>1. /\ request[r] = "none" /\ request' = [request EXCEPT ![r] = "open"]
          /\ overdue' = overdue /\ share' = share
      BY <2>1 DEF RequestMoney
    <3>2. \E h \in SharesOf(r) : share[h].status # "paid"
      <4>1. PICK h \in SharesOf(r) : h \in Shares /\ ShareRequest[h] = r
        BY ShareAssumption DEF SharesOf
      <4> QED
        BY <1>2, <3>1, <4>1 DEF SharesBounded
    <3> QED
      BY <1>2, <3>1, <3>2, Constants DEF RequestTypeOK, ShareInv, SharesBounded, CompletedWhenPaid, SharesOf
  <2>2. ASSUME NEW r \in Requests, CancelRequest(r) PROVE RequestTypeOK' /\ ShareInv'
    BY <1>2, <2>2, Constants
       DEF CancelRequest, Payable, RequestTypeOK, ShareInv, SharesBounded, CompletedWhenPaid, SharesOf
  <2>3. ASSUME NEW r \in Requests, RequestExpires(r) PROVE RequestTypeOK' /\ ShareInv'
    BY <1>2, <2>3 DEF RequestExpires, RequestTypeOK, ShareInv, SharesBounded, CompletedWhenPaid
  <2>4. ASSUME NEW h \in Shares, DeclineShare(h) PROVE RequestTypeOK' /\ ShareInv'
    <3>1. /\ share[h] \in ShareRow /\ share[h].status = "open" /\ request[ShareRequest[h]] = "open"
          /\ share' = [share EXCEPT ![h].status = "declined"] /\ request' = request /\ overdue' = overdue
      BY <1>2, <2>4 DEF DeclineShare, Payable, RequestTypeOK
    <3>2. /\ share' \in [Shares -> ShareRow]
          /\ share'[h].received = share[h].received /\ share'[h].status = "declined"
          /\ \A i \in Shares : i # h => share'[i] = share[i]
      BY <1>2, <3>1 DEF RequestTypeOK, ShareRow
    <3>3. SharesBounded'
      BY <1>2, <3>1, <3>2 DEF SharesBounded
    <3>4. \A i \in Shares : share'[i].status = "paid" <=> share[i].status = "paid"
      BY <3>1, <3>2
    <3>5. CompletedWhenPaid'
      BY <1>2, <3>1, <3>4 DEF CompletedWhenPaid, SharesOf
    <3> QED
      BY <1>2, <3>1, <3>2, <3>3, <3>5 DEF RequestTypeOK, ShareInv
  <2> QED
    BY <2>1, <2>2, <2>3, <2>4, Bounds DEF RequestStep, IInv, TypeOK
<1>4. ControlTypes' /\ FlowTypes' /\ LedgerTypeOK' /\ journals' \subseteq Quotes
  BY <1>1, TypeParts, LedgerStays, ControlsStay DEF IInv, FlowTypes, flowVars
<1>5. FlowInv'
  BY <1>1 DEF IInv, FlowInv, LinksKnown, PricesOfTheirVersion, PricedUnder, UsedOnce, KeysBindOne, AnswersTrue,
              PaidWithOwnAuthorisation, Paid, flowVars, controlVars
<1> QED
  BY <1>3, <1>4, <1>5, TypesAfter DEF IInv

(* A share never receives more than was asked, whatever quotes compete.    *)
LEMMA ApplyShareKeeps ==
  ASSUME RequestTypeOK, ShareInv, NEW h \in Shares, NEW amount \in Nat, NEW payer, NEW payee,
         ApplyShare(h, amount, payer, payee)
  PROVE  RequestTypeOK' /\ ShareInv'
<1> DEFINE r == ShareRequest[h]
<1>1. /\ share[h] \in ShareRow /\ ShareAmount[h] \in Nat \ {0} /\ r \in Requests
      /\ share[h].received \in Nat /\ share[h].status = "open"
  BY Constants DEF ApplyShare, RequestTypeOK, ShareRow
<1>2. /\ request[r] = "open" /\ amount <= ShareAmount[h] - share[h].received
      /\ share' = Received(h, amount) /\ overdue' = overdue
      /\ request' = IF FullyPaid(share', r) THEN [request EXCEPT ![r] = "completed"] ELSE request
  BY DEF ApplyShare, Payable, Remaining
<1>3. /\ share' \in [Shares -> ShareRow]
      /\ share'[h].received = share[h].received + amount
      /\ share'[h].status = IF amount = ShareAmount[h] - share[h].received THEN "paid" ELSE "open"
      /\ \A i \in Shares : i # h => share'[i] = share[i]
  BY <1>1, <1>2 DEF Received, Remaining, RequestTypeOK, ShareRow
<1>4. /\ request' \in [Requests -> {"none", "open", "cancelled", "completed"}]
      /\ request'[r] = IF FullyPaid(share', r) THEN "completed" ELSE "open"
      /\ \A x \in Requests : x # r => request'[x] = request[x]
  BY <1>1, <1>2 DEF RequestTypeOK
<1>5. SharesBounded'
  <2>1. ASSUME NEW i \in Shares
        PROVE  /\ share'[i].received <= ShareAmount[i]
               /\ share'[i].status = "paid" <=> share'[i].received = ShareAmount[i]
               /\ request'[ShareRequest[i]] = "none" => share'[i].status = "open"
    <3>1. CASE i = h
      BY <1>1, <1>2, <1>3, <1>4, <3>1
    <3>2. CASE i # h
      <4>1. ShareRequest[i] \in Requests
        BY Constants
      <4> QED
        BY <1>2, <1>3, <1>4, <3>2, <4>1 DEF ShareInv, SharesBounded
    <3> QED
      BY <3>1, <3>2
  <2> QED
    BY <2>1 DEF SharesBounded
<1>6. CompletedWhenPaid'
  <2>1. ASSUME NEW x \in Requests, x # r
        PROVE  request'[x] = "completed" <=> request'[x] # "none" /\ \A i \in SharesOf(x) : share'[i].status = "paid"
    <3>1. \A i \in SharesOf(x) : i \in Shares /\ i # h
      BY <2>1 DEF SharesOf
    <3> QED
      BY <1>3, <1>4, <2>1, <3>1 DEF ShareInv, CompletedWhenPaid
  <2>2. FullyPaid(share', r) <=> \A i \in SharesOf(r) : share'[i].status = "paid"
    <3>1. ASSUME NEW i \in SharesOf(r)
          PROVE  share'[i].received >= ShareAmount[i] <=> share'[i].status = "paid"
      <4>1. i \in Shares
        BY DEF SharesOf
      <4>2. share'[i].received \in Nat /\ ShareAmount[i] \in Nat
        BY <1>3, <4>1, Constants DEF ShareRow
      <4> QED
        BY <1>5, <4>1, <4>2 DEF SharesBounded
    <3> QED
      BY <3>1 DEF FullyPaid
  <2> QED
    BY <1>4, <2>1, <2>2 DEF CompletedWhenPaid
<1> QED
  BY <1>2, <1>3, <1>4, <1>5, <1>6 DEF RequestTypeOK, ShareInv

-----------------------------------------------------------------------------
(* Payments.                                                               *)

LEMMA PostedType ==
  ASSUME LedgerTypeOK, NEW entries, \A a \in DOMAIN entries : entries[a] \in Int
  PROVE  Posted(entries) \in [Account -> Int]
BY DEF LedgerTypeOK, Posted

LEMMA HoldType ==
  ASSUME LedgerTypeOK, NEW c \in Customers, NEW amount \in Int, PlaceHold(c, amount) \/ EndHold(c, amount)
  PROVE  reserved' \in [Customers -> Int]
BY DEF LedgerTypeOK, PlaceHold, EndHold

LEMMA TotalType == ASSUME TypeOK, NEW q \in Quotes, quote[q] # None PROVE Total(q) \in Nat
BY RowTypes DEF Total, QuoteRow

LEMMA MoveMoneyType ==
  ASSUME TypeOK, NEW q \in Quotes, quote[q] # None, MoveMoney(q)
  PROVE  LedgerTypeOK' /\ journals' \subseteq Quotes
<1> DEFINE c == quote[q].owner
           entries == [a \in {c, quote[q].payee, Fees} |->
                         IF a = c THEN -Total(q) ELSE IF a = Fees THEN quote[q].fee ELSE quote[q].amount]
<1>1. c \in Customers /\ quote[q].fee \in Nat /\ quote[q].amount \in Nat /\ Total(q) \in Nat
  BY RowTypes, TotalType DEF QuoteRow
<1>2. LedgerTypeOK /\ journals \subseteq Quotes
  BY TypeParts
<1>3. CASE reserved' = reserved /\ PostJournal(q, entries)
  <2>1. \A a \in DOMAIN entries : entries[a] \in Int
    BY <1>1
  <2>2. Posted(entries) \in [Account -> Int]
    BY <1>2, <2>1, PostedType
  <2> QED
    BY <1>2, <1>3, <2>2 DEF PostJournal, LedgerTypeOK
<1>4. CASE PlaceHold(c, Total(q)) /\ UNCHANGED <<balance, journals>>
  BY <1>1, <1>2, <1>4, HoldType DEF LedgerTypeOK
<1> QED
  BY <1>3, <1>4 DEF MoveMoney

(* A first payment: its quote was unused, its key unknown, its token fresh. *)
LEMMA CreatePaymentKeeps ==
  ASSUME IInv, NEW s \in Sessions, NEW q \in Quotes, NEW t \in Tokens, NEW k \in Keys,
         NEW d1 \in Nat, NEW d2 \in Nat, NEW day \in Nat, CreatePayment(s, q, t, k, d1, d2, day)
  PROVE  IInv'
<1> DEFINE c == Owner(s)
           pay == [key |-> k, session |-> s, day |-> day, status |-> AcceptedStatus(q)]
           row == [quote[q] EXCEPT !.used = TRUE]
           spent == [auth[t] EXCEPT !.state = "consumed"]
           answer == [owner |-> c, key |-> k, asked |-> q, answer |-> q]
<1>1. /\ quote[q] # None /\ quote[q].owner = c /\ ~Paid(q) /\ KeyHolder(c, k) = {}
      /\ auth[t] # None /\ auth[t].quote = q /\ auth[t].session = s /\ auth[t].state = "fresh"
  BY DEF CreatePayment, Usable, Authorised
<1>2. /\ payment' = [payment EXCEPT ![q] = pay] /\ quote' = [quote EXCEPT ![q] = row]
      /\ auth' = [auth EXCEPT ![t] = spent] /\ told' = told \cup {answer} /\ today' = day
      /\ UNCHANGED <<situation, policy, product, limits, frozen, restricted, revoked, call>>
  BY DEF CreatePayment
<1>3. quote[q] \in QuoteRow /\ auth[t] \in AuthRow /\ c \in Customers
  BY <1>1, RowTypes, Constants DEF IInv, Owner
<1>4. /\ row \in QuoteRow /\ row.used /\ row.owner = c
      /\ row.kind = quote[q].kind /\ row.payee = quote[q].payee /\ row.fee = quote[q].fee
      /\ row.version = quote[q].version
  BY <1>1, <1>3 DEF QuoteRow
<1>5. spent = [quote |-> q, session |-> s, state |-> "consumed"] /\ spent \in AuthRow
  BY <1>1, <1>3 DEF AuthRow
<1>6. pay \in PaymentRow /\ pay.key = k /\ pay.session = s
  BY DEF PaymentRow, AcceptedStatus
<1>7. /\ answer \in [owner : Customers, key : Keys, asked : Quotes, answer : Quotes]
      /\ answer.owner = c /\ answer.key = k /\ answer.asked = q /\ answer.answer = q
  BY <1>3
<1>8. row # None /\ pay # None
  BY <1>4, <1>6, Constants
<1>9. LedgerTypeOK' /\ journals' \subseteq Quotes
  BY <1>1, MoveMoneyType DEF IInv, CreatePayment
<1>10. RequestTypeOK' /\ ShareInv'
  <2>1. CASE UNCHANGED requestVars
    BY <2>1, RequestsStay DEF IInv
  <2>2. CASE quote[q].share # None /\ ApplyShare(quote[q].share, quote[q].amount, c, quote[q].payee)
    BY <1>3, <2>2, ApplyShareKeeps, TypeParts DEF IInv, QuoteRow
  <2> QED
    BY <2>1, <2>2 DEF CreatePayment
<1> HIDE DEF c, pay, row, spent, answer
<1>11. ControlTypes' /\ FlowTypes'
  BY <1>2, <1>4, <1>5, <1>6, <1>7, TypeParts DEF IInv, ControlTypes, FlowTypes
<1>12. /\ payment'[q] = pay /\ \A x \in Quotes : x # q => payment'[x] = payment[x]
       /\ quote'[q] = row /\ \A x \in Quotes : x # q => quote'[x] = quote[x]
       /\ auth'[t] = spent /\ \A x \in Tokens : x # t => auth'[x] = auth[x]
  BY <1>2, TypeParts DEF IInv, FlowTypes
<1>13. Paid(q)' /\ \A x \in Quotes : x # q => Paid(x)' = Paid(x)
  BY <1>8, <1>12 DEF Paid
<1>14. LinksKnown'
  BY <1>2, <1>8, <1>12, CallFields DEF IInv, FlowInv, LinksKnown
<1>15. PricesOfTheirVersion'
  <2>1. PricedUnder(quote[q])
    BY <1>1 DEF IInv, FlowInv, PricesOfTheirVersion
  <2>2. PricedUnder(row)
    BY <1>4, <2>1 DEF PricedUnder
  <2> QED
    BY <1>2, <1>12, <2>2 DEF IInv, FlowInv, PricesOfTheirVersion, PricedUnder
<1>16. UsedOnce'
  BY <1>4, <1>8, <1>12, <1>13 DEF IInv, FlowInv, UsedOnce
<1>17. \A x \in Quotes : Paid(x) => x # q /\ ~(quote[x].owner = c /\ payment[x].key = k)
  BY <1>1 DEF KeyHolder
<1>18. KeysBindOne'
  <2> SUFFICES ASSUME NEW x \in Quotes, NEW y \in Quotes, Paid(x)', Paid(y)',
                      quote'[x].owner = quote'[y].owner, payment'[x].key = payment'[y].key
               PROVE  x = y
    BY DEF KeysBindOne
  <2>1. CASE x # q /\ y # q
    BY <1>12, <1>13, <2>1 DEF IInv, FlowInv, KeysBindOne
  <2>2. CASE x # q /\ y = q
    BY <1>4, <1>6, <1>12, <1>13, <1>17, <2>2
  <2>3. CASE x = q /\ y # q
    BY <1>4, <1>6, <1>12, <1>13, <1>17, <2>3
  <2> QED
    BY <2>1, <2>2, <2>3
<1>19. AnswersTrue'
  <2>1. ASSUME NEW a \in told
        PROVE  /\ a.asked = a.answer /\ Paid(a.answer)'
               /\ payment'[a.answer].key = a.key /\ quote'[a.answer].owner = a.owner
    <3>1. a.answer \in Quotes
      BY TypeParts DEF IInv, FlowTypes
    <3>2. Paid(a.answer) /\ a.asked = a.answer /\ payment[a.answer].key = a.key /\ quote[a.answer].owner = a.owner
      BY DEF IInv, FlowInv, AnswersTrue
    <3> QED
      BY <1>1, <1>12, <1>13, <3>1, <3>2
  <2> QED
    BY <1>2, <1>4, <1>6, <1>7, <1>12, <1>13, <2>1 DEF AnswersTrue
<1>20. PaidWithOwnAuthorisation'
  <2>1. ASSUME NEW x \in Quotes, Paid(x)'
        PROVE  \E y \in Tokens : auth'[y] = [quote |-> x, session |-> payment'[x].session, state |-> "consumed"]
    <3>1. CASE x = q
      BY <1>5, <1>6, <1>12, <3>1
    <3>2. CASE x # q
      <4>1. PICK y \in Tokens : auth[y] = [quote |-> x, session |-> payment[x].session, state |-> "consumed"]
        BY <1>13, <2>1, <3>2 DEF IInv, FlowInv, PaidWithOwnAuthorisation
      <4>2. y # t
        BY <1>1, <4>1
      <4> QED
        BY <1>12, <3>2, <4>1, <4>2
    <3> QED
      BY <3>1, <3>2
  <2>2. ASSUME NEW y \in Tokens, auth'[y] # None, auth'[y].state = "consumed" PROVE Paid(auth[y].quote)'
    <3>1. CASE y = t
      BY <1>5, <1>12, <1>13, <3>1
    <3>2. CASE y # t
      <4>1. auth[y].quote \in Quotes /\ Paid(auth[y].quote) /\ auth'[y] = auth[y]
        BY <1>12, <2>2, <3>2, RowTypes DEF IInv, FlowInv, PaidWithOwnAuthorisation, AuthRow
      <4> QED
        BY <1>13, <4>1
    <3> QED
      BY <3>1, <3>2
  <2> QED
    BY <2>1, <2>2 DEF PaidWithOwnAuthorisation
<1> QED
  BY <1>9, <1>10, <1>11, <1>14, <1>15, <1>16, <1>18, <1>19, <1>20, TypesAfter DEF IInv, FlowInv

LEMMA ReplayKeeps ==
  ASSUME IInv, NEW s \in Sessions, NEW q \in Quotes, NEW k \in Keys, Replay(s, q, k) PROVE IInv'
<1>1. PICK p \in KeyHolder(Owner(s), k) :
        q = p /\ told' = told \cup {[owner |-> Owner(s), key |-> k, asked |-> q, answer |-> p]}
  BY DEF Replay, SameRequest
<1>2. /\ p \in Quotes /\ Paid(p) /\ quote[p].owner = Owner(s) /\ payment[p].key = k
      /\ Owner(s) \in Customers
  BY Constants DEF KeyHolder, Owner
<1>3. UNCHANGED <<ledgerVars, requestVars, controlVars, call, quote, auth, payment>>
  BY DEF Replay
<1>4. FlowTypes'
  BY <1>1, <1>2, <1>3, TypeParts DEF IInv, FlowTypes
<1>5. AnswersTrue'
  BY <1>1, <1>2, <1>3 DEF IInv, FlowInv, AnswersTrue, Paid
<1>6. LinksKnown' /\ PricesOfTheirVersion' /\ UsedOnce' /\ KeysBindOne' /\ PaidWithOwnAuthorisation'
  BY <1>3 DEF IInv, FlowInv, LinksKnown, PricesOfTheirVersion, PricedUnder, UsedOnce, KeysBindOne,
              PaidWithOwnAuthorisation, Paid, controlVars
<1>7. ControlTypes' /\ LedgerTypeOK' /\ journals' \subseteq Quotes /\ RequestTypeOK' /\ ShareInv'
  BY <1>3, TypeParts, LedgerStays, RequestsStay, ControlsStay DEF IInv
<1> QED
  BY <1>4, <1>5, <1>6, <1>7, TypesAfter DEF IInv, FlowInv

(* The worker's outcome changes the status of a payment and nothing that   *)
(* quotes, keys or authorisations rest on.                                 *)
LEMMA ResolveKeeps == ASSUME IInv, NEW q \in Quotes, Resolve(q) PROVE IInv'
<1>1. Paid(q) /\ payment[q] \in PaymentRow /\ quote[q] # None /\ quote[q] \in QuoteRow
  <2>1. Paid(q)
    BY DEF Resolve
  <2> QED
    BY <2>1, RowTypes DEF IInv, FlowInv, UsedOnce, Paid
<1>2. PICK status \in {"succeeded", "failed"} : payment' = [payment EXCEPT ![q].status = status]
  BY DEF Resolve
<1> DEFINE row == [payment[q] EXCEPT !.status = status]
<1>3. /\ row \in PaymentRow /\ row.key = payment[q].key /\ row.session = payment[q].session
      /\ payment' = [payment EXCEPT ![q] = row]
  BY <1>1, <1>2 DEF PaymentRow
<1>4. row # None
  BY <1>3, Constants
<1>5. UNCHANGED <<requestVars, controlVars, call, quote, auth, told>>
  BY DEF Resolve
<1> HIDE DEF row
<1>6. LedgerTypeOK' /\ journals' \subseteq Quotes
  <2> DEFINE entries == [a \in {quote[q].owner, Clearing} |-> IF a = Clearing THEN Total(q) ELSE -Total(q)]
  <2>1. Total(q) \in Nat /\ quote[q].owner \in Customers
    BY <1>1, TotalType DEF IInv, QuoteRow
  <2>2. reserved' \in [Customers -> Int]
    BY <2>1, HoldType, TypeParts DEF Resolve, IInv
  <2>3. (balance' = Posted(entries) /\ journals' = journals \cup {q}) \/ UNCHANGED <<balance, journals>>
    BY DEF Resolve, PostJournal
  <2>4. Posted(entries) \in [Account -> Int]
    <3>1. \A a \in DOMAIN entries : entries[a] \in Int
      BY <2>1
    <3> QED
      BY <3>1, PostedType, TypeParts DEF IInv
  <2> HIDE DEF entries
  <2> QED
    BY <2>2, <2>3, <2>4, TypeParts DEF IInv, LedgerTypeOK
<1>7. FlowTypes'
  BY <1>3, <1>5, TypeParts DEF IInv, FlowTypes
<1>8. payment'[q] = row /\ \A x \in Quotes : x # q => payment'[x] = payment[x]
  BY <1>3, TypeParts DEF IInv, FlowTypes
<1>9. \A x \in Quotes : /\ Paid(x)' = Paid(x) /\ payment'[x].key = payment[x].key
                        /\ Paid(x) => payment'[x].session = payment[x].session
  BY <1>1, <1>3, <1>4, <1>8 DEF Paid
<1>10. UsedOnce' /\ KeysBindOne'
  BY <1>5, <1>9 DEF IInv, FlowInv, UsedOnce, KeysBindOne
<1>11. AnswersTrue'
  <2>1. ASSUME NEW a \in told
        PROVE  /\ a.asked = a.answer /\ Paid(a.answer)'
               /\ payment'[a.answer].key = a.key /\ quote[a.answer].owner = a.owner
    <3>1. a.answer \in Quotes
      BY TypeParts DEF IInv, FlowTypes
    <3> QED
      BY <1>9, <3>1 DEF IInv, FlowInv, AnswersTrue
  <2> QED
    BY <1>5, <2>1 DEF AnswersTrue
<1>12. PaidWithOwnAuthorisation'
  <2>1. \A y \in Tokens : auth[y] # None => auth[y].quote \in Quotes
    BY RowTypes DEF IInv, AuthRow
  <2> QED
    BY <1>5, <1>9, <2>1 DEF IInv, FlowInv, PaidWithOwnAuthorisation
<1>13. LinksKnown' /\ PricesOfTheirVersion'
  BY <1>5 DEF IInv, FlowInv, LinksKnown, PricesOfTheirVersion, PricedUnder, controlVars
<1>14. ControlTypes' /\ RequestTypeOK' /\ ShareInv'
  BY <1>5, TypeParts, RequestsStay, ControlsStay DEF IInv
<1> QED
  BY <1>6, <1>7, <1>10, <1>11, <1>12, <1>13, <1>14, TypesAfter DEF IInv, FlowInv

-----------------------------------------------------------------------------
(* The theorems.                                                           *)

LEMMA InitEstablishes == Init => IInv
<1> SUFFICES ASSUME Init PROVE IInv
  OBVIOUS
<1>1. LedgerTypeOK /\ journals \subseteq Quotes
  BY CheckoutAssumption DEF Init, LedgerTypeOK
<1>2. RequestTypeOK /\ SharesBounded
  BY Constants DEF Init, RequestInit, RequestTypeOK, ShareRow, SharesBounded
<1>3. CompletedWhenPaid
  BY DEF Init, RequestInit, CompletedWhenPaid
<1>4. situation \in Situations
  BY DEF Init
<1>5. ControlTypes
  BY <1>4, Bounds DEF Init, ControlTypes
<1>6. FlowTypes
  BY DEF Init, FlowTypes
<1>7. FlowInv
  BY DEF Init, Idle, FlowInv, LinksKnown, PricesOfTheirVersion, UsedOnce, KeysBindOne, AnswersTrue,
         PaidWithOwnAuthorisation, Paid
<1> QED
  BY <1>1, <1>2, <1>3, <1>5, <1>6, <1>7, TypeParts DEF IInv, ShareInv

LEMMA SessionStepKeeps == ASSUME IInv, NEW s \in Sessions, SessionStep(s) PROVE IInv'
<1>1. today \in Nat
  BY DEF IInv, TypeOK
<1>2. ASSUME NEW q \in Quotes, NEW t \in Tokens, NEW k \in Keys,
             \E day \in today..(IF today < situation.lastDay THEN today + 1 ELSE today) :
               \E d2 \in today..day : \E d1 \in today..d2 : CreatePayment(s, q, t, k, d1, d2, day)
      PROVE  IInv'
  <2>1. PICK day \in Nat, d2 \in Nat, d1 \in Nat : CreatePayment(s, q, t, k, d1, d2, day)
    BY <1>1, <1>2
  <2> QED
    BY <2>1, CreatePaymentKeeps
<1> QED
  BY <1>2, ReadShareKeeps, PriceQuoteKeeps, StoreQuoteKeeps, LinkQuoteKeeps, CallEndsKeeps, AuthoriseKeeps,
     ReplayKeeps, ChangeControlsKeeps, SecureAccountKeeps, RequestStepKeeps DEF SessionStep

LEMMA StepKeeps == IInv /\ [Next]_vars => IInv'
<1> SUFFICES ASSUME IInv, [Next]_vars PROVE IInv'
  OBVIOUS
<1>1. situation.sessions \subseteq Sessions /\ situation.disturbed \subseteq Customers
  BY Bounds DEF IInv, TypeOK
<1>2. CASE UNCHANGED vars
  <2>1. UNCHANGED <<ledgerVars, requestVars, flowVars, policy>> /\ UNCHANGED controlVars
    BY <1>2 DEF vars, controlVars
  <2> QED
    BY <2>1, ControlStep, ControlsStay, TypeParts DEF IInv
<1>3. CASE Next
  BY <1>1, <1>3, SessionStepKeeps, ResolveKeeps, QuoteExpiresKeeps, AuthorisationExpiresKeeps, PolicyChangesKeeps,
     ProductChangesKeeps, MidnightKeeps, StandingChangesKeeps DEF Next
<1> QED
  BY <1>2, <1>3

(* The inductive invariant of checkout, for any number of sessions,        *)
(* quotes, authorisations, keys and requests.                              *)
THEOREM CheckoutInvariant == Spec => []IInv
BY InitEstablishes, StepKeeps, PTL DEF Spec

(* Every variable keeps its type.                                          *)
THEOREM TypeCorrect == Spec => []TypeOK
<1>1. IInv => TypeOK
  BY DEF IInv
<1> QED
  BY <1>1, CheckoutInvariant, PTL

(* A payment and a spent authorisation of its session always go together.  *)
THEOREM OwnAuthorisation == Spec => []PaidWithOwnAuthorisation
<1>1. IInv => PaidWithOwnAuthorisation
  BY DEF IInv, FlowInv
<1> QED
  BY <1>1, CheckoutInvariant, PTL

(* Repeated calls are answered with the payment they made.                 *)
THEOREM TrueAnswers == Spec => []AnswersMatchRequests
<1>1. IInv => AnswersMatchRequests
  <2> SUFFICES ASSUME IInv, NEW a \in told, NEW b \in told
               PROVE  /\ a.asked = a.answer
                      /\ a.owner = b.owner /\ a.key = b.key => a.answer = b.answer
    BY DEF AnswersMatchRequests
  <2>1. a.answer \in Quotes /\ b.answer \in Quotes
    BY TypeParts DEF IInv, FlowTypes
  <2> QED
    BY <2>1 DEF IInv, FlowInv, AnswersTrue, KeysBindOne
<1> QED
  BY <1>1, CheckoutInvariant, PTL

(* A payment is accepted on the terms in force, with their fee, and never  *)
(* from an account that is secured, whatever was read before.              *)
THEOREM CurrentTermsOnly == Spec => AcceptedOnCurrentTerms
<1> DEFINE P(q) == /\ policy.enabled
                   /\ Total(q) <= policy.terms.perPayment
                   /\ quote[q].kind = "internal" => quote[q].fee = policy.terms.fee
                   /\ quote[q].owner \notin frozen \cup restricted
                   /\ quote[q].payee \notin restricted
                   /\ payment'[q].session \notin revoked
<1>1. ASSUME IInv, [Next]_vars, NEW q \in Quotes, Accepted(q) PROVE P(q)
  <2>1. payment' # payment
    BY <1>1 DEF Accepted
  <2>2. CASE \E r \in Quotes : Resolve(r)
    <3>1. PICK r \in Quotes : Resolve(r)
      BY <2>2
    <3>2. r # q /\ \A x \in Quotes : x # r => payment'[x] = payment[x]
      <4>1. \E st \in {"succeeded", "failed"} : payment' = [payment EXCEPT ![r].status = st]
        BY <3>1 DEF Resolve
      <4>2. \A x \in Quotes : x # r => payment'[x] = payment[x]
        BY <1>1, <4>1, TypeParts DEF IInv, FlowTypes
      <4> QED
        BY <1>1, <3>1, <4>2 DEF Resolve, Paid, Accepted
    <3> QED
      BY <1>1, <3>2 DEF Accepted
  <2>3. CASE \E s \in situation.sessions : SessionStep(s)
    <3>1. PICK s \in Sessions : SessionStep(s)
      BY <1>1, <2>3, Bounds DEF IInv, TypeOK
    <3>2. PICK r \in Quotes, t \in Tokens, k \in Keys, d1 \in Int, d2 \in Int, day \in Int :
      CreatePayment(s, r, t, k, d1, d2, day)
      BY <2>1, <3>1 DEF SessionStep, ReadShare, PriceQuote, StoreQuote, LinkQuote, CallEnds, Authorise, Replay,
                        ChangeControls, SecureAccount, RequestStep, flowVars
    <3>3. payment' = [payment EXCEPT ![r] = [key |-> k, session |-> s, day |-> day, status |-> AcceptedStatus(r)]]
      BY <3>2 DEF CreatePayment
    <3>4. r = q
      BY <1>1, <3>3, TypeParts DEF Accepted, IInv, FlowTypes
    <3>5. payment'[q].session = s
      BY <1>1, <3>3, <3>4, TypeParts DEF IInv, FlowTypes
    <3>6. /\ s \notin revoked /\ quote[q] # None /\ quote[q].owner = Owner(s)
          /\ policy.enabled /\ quote[q].version = policy.version
          /\ Owner(s) \notin restricted /\ Owner(s) \notin frozen
          /\ Total(q) <= policy.terms.perPayment
          /\ quote[q].kind = "internal" => quote[q].payee \notin restricted
      BY <3>2, <3>4 DEF CreatePayment, Live, Eligible, Usable, CurrentTerms, WithinLimits
    <3>7. PricedUnder(quote[q]) /\ quote[q].kind \in {"internal", "bill"} /\ None \notin restricted
      BY <1>1, <3>6, RowTypes, Constants DEF IInv, FlowInv, PricesOfTheirVersion, QuoteRow, TypeOK
    <3> QED
      BY <3>5, <3>6, <3>7 DEF PricedUnder
  <2>4. \E r \in Quotes : Resolve(r) \/ \E s \in situation.sessions : SessionStep(s)
    BY <1>1, <2>1 DEF Next, vars, flowVars, QuoteExpires, AuthorisationExpires, PolicyChanges, ProductChanges,
                      Midnight, StandingChanges
  <2> QED
    BY <2>2, <2>3, <2>4
<1>2. IInv /\ [Next]_vars => [\A q \in Quotes : Accepted(q) => P(q)]_vars
  BY <1>1
<1> QED
  BY <1>2, CheckoutInvariant, PTL DEF Spec, AcceptedOnCurrentTerms

(* What may touch the rows of requests and shares.                         *)
RequestsMove ==
  \/ UNCHANGED requestVars
  \/ \E r \in Requests : RequestMoney(r) \/ CancelRequest(r) \/ RequestExpires(r)
  \/ \E i \in Shares : DeclineShare(i)
  \/ \E s \in Sessions, q \in Quotes, t \in Tokens, k \in Keys, d1 \in Int, d2 \in Int, day \in Int :
       CreatePayment(s, q, t, k, d1, d2, day)

(* A closed request, and a declined or paid share, receive nothing more,   *)
(* however many quotes were linked before.                                 *)
THEOREM ClosedStayClosed == Spec => ClosedRequestsStayClosed
<1> DEFINE P(h) == LET r == ShareRequest[h] IN
              request[r] # "none" /\ (~Payable(r) \/ share[h].status # "open") =>
                share'[h] = share[h] /\ (~Payable(r) => request'[r] = request[r])
<1>1. ASSUME IInv, [Next]_vars, NEW h \in Shares PROVE P(h)
  <2>1. /\ share \in [Shares -> ShareRow] /\ ShareRequest \in [Shares -> Requests]
        /\ request \in [Requests -> {"none", "open", "cancelled", "completed"}]
    BY <1>1, Constants DEF IInv, TypeOK, RequestTypeOK
  <2>2. CASE UNCHANGED requestVars
    BY <2>2 DEF requestVars
  <2>3. ASSUME NEW r \in Requests, RequestMoney(r) \/ CancelRequest(r) \/ RequestExpires(r) PROVE P(h)
    BY <2>1, <2>3 DEF RequestMoney, CancelRequest, RequestExpires, Payable
  <2>4. ASSUME NEW i \in Shares, DeclineShare(i) PROVE P(h)
    BY <2>1, <2>4 DEF DeclineShare
  <2>5. ASSUME NEW i \in Shares, NEW amount, NEW payer, NEW payee, ApplyShare(i, amount, payer, payee) PROVE P(h)
    <3>1. /\ Payable(ShareRequest[i]) /\ share[i].status = "open"
          /\ share' = Received(i, amount)
          /\ request' = IF FullyPaid(share', ShareRequest[i])
                        THEN [request EXCEPT ![ShareRequest[i]] = "completed"] ELSE request
      BY <2>5 DEF ApplyShare
    <3>2. \A x \in Shares : x # i => share'[x] = share[x]
      BY <2>1, <3>1 DEF Received
    <3>3. \A x \in Requests : x # ShareRequest[i] => request'[x] = request[x]
      BY <2>1, <3>1
    <3> QED
      BY <2>1, <3>1, <3>2, <3>3
  <2>6. ASSUME NEW s \in Sessions, NEW q \in Quotes, NEW t, NEW k, NEW d1, NEW d2, NEW day,
               CreatePayment(s, q, t, k, d1, d2, day)
        PROVE  P(h)
    <3>1. quote[q] \in QuoteRow
      BY <1>1, <2>6, RowTypes DEF IInv, CreatePayment, Usable
    <3>2. \/ UNCHANGED requestVars
          \/ quote[q].share \in Shares /\ ApplyShare(quote[q].share, quote[q].amount, Owner(s), quote[q].payee)
      BY <2>6, <3>1 DEF CreatePayment, QuoteRow
    <3> QED
      BY <2>2, <2>5, <3>2
  <2>7. RequestsMove
    <3>1. CASE UNCHANGED vars
      BY <3>1 DEF vars, RequestsMove
    <3>2. ASSUME NEW s \in Sessions, SessionStep(s) PROVE RequestsMove
      BY <1>1, <3>2, Bounds DEF SessionStep, ReadShare, PriceQuote, StoreQuote, LinkQuote, CallEnds, Authorise,
                                Replay, ChangeControls, SecureAccount, RequestStep, IInv, TypeOK,
                                RequestsMove
    <3>3. CASE \E s \in situation.sessions : SessionStep(s)
      BY <1>1, <3>2, <3>3, Bounds DEF IInv, TypeOK
    <3>4. CASE Next /\ ~\E s \in situation.sessions : SessionStep(s)
      BY <3>4 DEF Next, Resolve, QuoteExpires, AuthorisationExpires, PolicyChanges, ProductChanges, Midnight,
                  StandingChanges, RequestsMove
    <3> QED
      BY <1>1, <3>1, <3>3, <3>4
  <2> HIDE DEF P
  <2> QED
    BY <2>2, <2>3, <2>4, <2>6, <2>7 DEF RequestsMove
<1>2. IInv /\ [Next]_vars => [\A h \in Shares : P(h)]_vars
  BY <1>1
<1> QED
  BY <1>2, CheckoutInvariant, PTL DEF Spec, ClosedRequestsStayClosed

(* A share never receives more than was asked and is paid when it has; a   *)
(* request is completed exactly when all its shares are paid.              *)
THEOREM SharesNeverOverpaid == Spec => [](SharesBounded /\ CompletedWhenPaid)
<1>1. IInv => SharesBounded /\ CompletedWhenPaid
  BY DEF IInv, ShareInv
<1> QED
  BY <1>1, CheckoutInvariant, PTL

(* A quote is used exactly when it has its payment.                        *)
THEOREM QuotesPayOnce == Spec => []UsedOnce
<1>1. IInv => UsedOnce
  BY DEF IInv, FlowInv
<1> QED
  BY <1>1, CheckoutInvariant, PTL

-----------------------------------------------------------------------------
(* What was paid, added up.                                                *)

(* A quote is linked to its share before its owner learns of it, by the    *)
(* one call that stored it, and is paid only after that.                   *)
HiddenUntilLinked ==
  \A s, x \in Sessions : call[s].stage = "link" =>
    /\ ~quote[call[s].quote].shown
    /\ call[x].stage = "link" /\ call[x].quote = call[s].quote => x = s

PaidQuotes == {q \in Quotes : Paid(q)}

(* The quotes paid so far are finitely many; each was shown to its owner,  *)
(* and is dated today or before.                                           *)
PaidSoFar ==
  /\ IsFiniteSet(PaidQuotes)
  /\ \A q \in PaidQuotes : quote[q].shown /\ payment[q].day <= today

AmountFor(h) == SumFunction([q \in PaidFor(h) |-> quote[q].amount])

SharesAddUp == \A h \in Shares : share[h].received = AmountFor(h)

SumInv == HiddenUntilLinked /\ PaidSoFar /\ SharesAddUp

(* Quotes that are paid stay as they are, but for their flags.             *)
PaidRowsStay ==
  \A q \in PaidQuotes : /\ quote'[q].shown /\ quote'[q].share = quote[q].share
                        /\ quote'[q].amount = quote[q].amount /\ quote'[q].fee = quote[q].fee
                        /\ quote'[q].owner = quote[q].owner

(* Nothing is paid for, nothing received.                                  *)
LEMMA NothingPaid ==
  ASSUME IInv, SumInv, PaidRowsStay, PaidQuotes' = PaidQuotes, today' >= today, today' \in Nat,
         \A q \in PaidQuotes : payment'[q].day = payment[q].day,
         \A h \in Shares : share'[h].received = share[h].received
  PROVE  PaidSoFar' /\ SharesAddUp'
<1>1. PaidSoFar'
  <2>1. \A q \in PaidQuotes : payment[q].day \in Nat /\ today \in Nat
    BY RowTypes DEF IInv, TypeOK, PaidQuotes, Paid, PaymentRow
  <2> QED
    BY <2>1 DEF SumInv, PaidSoFar, PaidRowsStay
<1>2. ASSUME NEW h \in Shares PROVE AmountFor(h)' = AmountFor(h)
  <2>1. PaidFor(h) = {q \in PaidQuotes : quote[q].share = h} /\ PaidFor(h)' = {q \in PaidQuotes' : quote'[q].share = h}
    BY DEF PaidFor, PaidQuotes
  <2>2. PaidFor(h)' = PaidFor(h)
    BY <2>1 DEF PaidRowsStay
  <2>3. \A q \in PaidFor(h) : quote'[q].amount = quote[q].amount
    BY <2>1 DEF PaidRowsStay
  <2>4. [q \in PaidFor(h) |-> quote[q].amount] = [q \in PaidFor(h)' |-> quote'[q].amount]
    BY <2>2, <2>3
  <2> QED BY <2>4 DEF AmountFor
<1>3. SharesAddUp'
  BY <1>2 DEF SumInv, SharesAddUp
<1> QED BY <1>1, <1>3

(* Most steps touch neither payments nor what a paid quote says.           *)
LEMMA OnlyCalls ==
  ASSUME IInv, SumInv, UNCHANGED quote, HiddenUntilLinked',
         UNCHANGED payment, today' >= today, today' \in Nat,
         \A h \in Shares : share'[h].received = share[h].received
  PROVE  SumInv' /\ PaidRowsStay
<1>1. PaidQuotes' = PaidQuotes /\ PaidRowsStay /\ \A q \in PaidQuotes : payment'[q].day = payment[q].day
  BY DEF PaidQuotes, Paid, PaidRowsStay, SumInv, PaidSoFar
<1> QED BY <1>1, NothingPaid DEF SumInv

LEMMA SameRequests ==
  ASSUME UNCHANGED requestVars PROVE \A h \in Shares : share'[h].received = share[h].received
BY DEF requestVars

LEMMA SameDay ==
  ASSUME IInv, UNCHANGED controlVars PROVE today' >= today /\ today' \in Nat
BY DEF controlVars, IInv, TypeOK

(* Steps of a call that store and link nothing.                            *)
LEMMA NoLink ==
  ASSUME IInv, SumInv, NEW s \in Sessions, NEW c, c.stage # "link",
         call' = [call EXCEPT ![s] = c], UNCHANGED <<requestVars, controlVars, quote, payment>>
  PROVE  SumInv' /\ PaidRowsStay
<1>1. call'[s] = c /\ \A x \in Sessions : x # s => call'[x] = call[x]
  BY TypeParts DEF IInv, FlowTypes
<1>2. HiddenUntilLinked'
  BY <1>1 DEF SumInv, HiddenUntilLinked
<1> QED BY <1>2, OnlyCalls, SameRequests, SameDay

LEMMA ReadSharePays ==
  ASSUME IInv, SumInv, NEW s \in Sessions, NEW h, NEW amount, ReadShare(s, h, amount) PROVE SumInv' /\ PaidRowsStay
<1>1. [stage |-> "shared", share |-> h, amount |-> amount].stage # "link"
  OBVIOUS
<1> QED BY <1>1, NoLink DEF ReadShare

LEMMA PricePays ==
  ASSUME NEW s, NEW kind, NEW payee, NEW amount, NEW h, Price(s, kind, payee, amount, h)
  PROVE  \E c : c.stage # "link" /\ call' = [call EXCEPT ![s] = c]
<1> DEFINE c == [stage |-> "priced",
        content |-> [kind |-> kind, payee |-> payee, amount |-> amount, share |-> h,
                     fee |-> IF kind = "internal" THEN policy.terms.fee ELSE ProviderFee,
                     version |-> policy.version]]
<1>1. c.stage # "link" /\ call' = [call EXCEPT ![s] = c]
  BY DEF Price
<1> HIDE DEF c
<1> QED BY <1>1

LEMMA PriceQuotePays == ASSUME IInv, SumInv, NEW s \in Sessions, PriceQuote(s) PROVE SumInv' /\ PaidRowsStay
<1>1. \E c : c.stage # "link" /\ call' = [call EXCEPT ![s] = c]
  BY PricePays DEF PriceQuote
<1> QED BY <1>1, NoLink DEF PriceQuote

LEMMA CallEndsPays == ASSUME IInv, SumInv, NEW s \in Sessions, CallEnds(s) PROVE SumInv' /\ PaidRowsStay
<1>1. Idle.stage # "link"
  BY DEF Idle
<1> QED BY <1>1, NoLink DEF CallEnds

(* A quote that did not exist is nobody's to link, and unpaid.             *)
LEMMA StoreQuotePays == ASSUME IInv, SumInv, NEW s \in Sessions, NEW q \in Quotes, StoreQuote(s, q) PROVE SumInv' /\ PaidRowsStay
<1> DEFINE c == call[s].content
           row == [owner |-> Owner(s), kind |-> c.kind, payee |-> c.payee, amount |-> c.amount,
                   fee |-> c.fee, version |-> c.version, share |-> None,
                   used |-> FALSE, expired |-> FALSE, shown |-> c.share = None]
           next == IF c.share = None THEN Idle ELSE [stage |-> "link", quote |-> q, share |-> c.share]
<1>1. /\ quote[q] = None /\ quote' = [quote EXCEPT ![q] = row] /\ call' = [call EXCEPT ![s] = next]
      /\ UNCHANGED <<requestVars, controlVars, payment>>
  BY DEF StoreQuote
<1>2. next.stage = "link" => next.quote = q /\ ~row.shown
  BY DEF Idle
<1> HIDE DEF row, next, c
<1>3. /\ call'[s] = next /\ \A x \in Sessions : x # s => call'[x] = call[x]
      /\ quote'[q] = row /\ \A x \in Quotes : x # q => quote'[x] = quote[x]
  BY <1>1, TypeParts DEF IInv, FlowTypes
<1>4. \A x \in Sessions : call[x].stage = "link" => call[x].quote \in Quotes /\ call[x].quote # q
  BY <1>1, CallFields DEF IInv, FlowInv, LinksKnown
<1>5. HiddenUntilLinked'
  <2> SUFFICES ASSUME NEW x \in Sessions, NEW y \in Sessions, call'[x].stage = "link"
               PROVE  /\ ~quote'[call'[x].quote].shown
                      /\ call'[y].stage = "link" /\ call'[y].quote = call'[x].quote => y = x
    BY DEF HiddenUntilLinked
  <2>1. CASE x = s
    BY <1>2, <1>3, <1>4, <2>1
  <2>2. CASE x # s
    BY <1>2, <1>3, <1>4, <2>2 DEF SumInv, HiddenUntilLinked
  <2> QED BY <2>1, <2>2
<1>6. q \notin PaidQuotes /\ PaidQuotes' = PaidQuotes
  BY <1>1 DEF PaidQuotes, Paid, IInv, FlowInv, UsedOnce
<1>7. PaidRowsStay
  BY <1>3, <1>6 DEF PaidRowsStay, SumInv, PaidSoFar, PaidQuotes
<1> QED BY <1>1, <1>5, <1>6, <1>7, NothingPaid, SameRequests, SameDay DEF SumInv

(* The quote that is linked is hidden, hence unpaid.                       *)
LEMMA LinkQuotePays == ASSUME IInv, SumInv, NEW s \in Sessions, LinkQuote(s) PROVE SumInv' /\ PaidRowsStay
<1> DEFINE q == call[s].quote
           row == [quote[q] EXCEPT !.share = call[s].share, !.shown = TRUE]
<1>1. call[s].stage = "link" /\ q \in Quotes
  <2>1. call[s].stage = "link"
    BY DEF LinkQuote
  <2> QED BY <2>1, CallFields DEF IInv
<1>2. /\ quote' = [quote EXCEPT ![q] = row] /\ call' = [call EXCEPT ![s] = Idle]
      /\ UNCHANGED <<requestVars, controlVars, payment>>
  BY <1>1 DEF LinkQuote
<1>3. ~quote[q].shown /\ \A x \in Sessions : call[x].stage = "link" /\ call[x].quote = q => x = s
  BY <1>1 DEF SumInv, HiddenUntilLinked
<1> HIDE DEF row, q
<1>4. /\ call'[s] = Idle /\ \A x \in Sessions : x # s => call'[x] = call[x]
      /\ quote'[q] = row /\ \A x \in Quotes : x # q => quote'[x] = quote[x]
  BY <1>1, <1>2, TypeParts DEF IInv, FlowTypes
<1>5. HiddenUntilLinked'
  <2> SUFFICES ASSUME NEW x \in Sessions, NEW y \in Sessions, call'[x].stage = "link"
               PROVE  /\ ~quote'[call'[x].quote].shown
                      /\ call'[y].stage = "link" /\ call'[y].quote = call'[x].quote => y = x
    BY DEF HiddenUntilLinked
  <2>1. x # s /\ call'[x] = call[x] /\ call[x].quote \in Quotes /\ call[x].quote # q
    BY <1>3, <1>4, CallFields DEF Idle, IInv
  <2>2. call'[y].stage = "link" => y # s /\ call'[y] = call[y]
    BY <1>4 DEF Idle
  <2> QED BY <1>4, <2>1, <2>2 DEF SumInv, HiddenUntilLinked
<1>6. q \notin PaidQuotes /\ PaidQuotes' = PaidQuotes
  BY <1>2, <1>3 DEF PaidQuotes, Paid, SumInv, PaidSoFar
<1>7. PaidRowsStay
  BY <1>4, <1>6 DEF PaidRowsStay, SumInv, PaidSoFar, PaidQuotes
<1> QED BY <1>2, <1>5, <1>6, <1>7, NothingPaid, SameRequests, SameDay DEF SumInv

(* Steps that leave calls, quotes and payments alone.                      *)
LEMMA QuietPays ==
  ASSUME IInv, SumInv, UNCHANGED <<call, quote, payment>>, today' >= today, today' \in Nat,
         \A h \in Shares : share'[h].received = share[h].received
  PROVE  SumInv' /\ PaidRowsStay
<1>1. HiddenUntilLinked'
  BY DEF SumInv, HiddenUntilLinked
<1> QED BY <1>1, OnlyCalls

LEMMA QuoteExpiresPays == ASSUME IInv, SumInv, NEW q \in Quotes, QuoteExpires(q) PROVE SumInv' /\ PaidRowsStay
<1> DEFINE row == [quote[q] EXCEPT !.expired = TRUE]
<1>1. quote[q] # None /\ quote[q] \in QuoteRow
  BY RowTypes DEF IInv, QuoteExpires
<1>2. /\ row.shown = quote[q].shown /\ row.share = quote[q].share /\ row.amount = quote[q].amount
      /\ row.fee = quote[q].fee /\ row.owner = quote[q].owner
  BY <1>1 DEF QuoteRow
<1>3. /\ quote' = [quote EXCEPT ![q] = row]
      /\ UNCHANGED <<requestVars, controlVars, call, payment>>
  BY DEF QuoteExpires
<1> HIDE DEF row
<1>4. quote'[q] = row /\ \A x \in Quotes : x # q => quote'[x] = quote[x]
  BY <1>3, TypeParts DEF IInv, FlowTypes
<1>5. HiddenUntilLinked'
  <2>1. \A x \in Sessions : call[x].stage = "link" =>
          call[x].quote \in Quotes /\ quote'[call[x].quote].shown = quote[call[x].quote].shown
    BY <1>2, <1>4, CallFields DEF IInv
  <2> QED BY <1>3, <2>1 DEF SumInv, HiddenUntilLinked
<1>6. PaidQuotes' = PaidQuotes /\ PaidRowsStay
  BY <1>2, <1>3, <1>4 DEF PaidQuotes, Paid, PaidRowsStay, SumInv, PaidSoFar
<1> QED BY <1>3, <1>5, <1>6, NothingPaid, SameRequests, SameDay DEF SumInv

(* The outcome of a bill changes neither the day of its payment nor what   *)
(* its quote says.                                                         *)
LEMMA ResolvePays == ASSUME IInv, SumInv, NEW q \in Quotes, Resolve(q) PROVE SumInv' /\ PaidRowsStay
<1>1. Paid(q) /\ payment[q] \in PaymentRow
  BY RowTypes DEF IInv, Resolve, Paid
<1>2. PICK status \in {"succeeded", "failed"} : payment' = [payment EXCEPT ![q].status = status]
  BY DEF Resolve
<1> DEFINE row == [payment[q] EXCEPT !.status = status]
<1>3. row \in PaymentRow /\ row.day = payment[q].day /\ payment' = [payment EXCEPT ![q] = row]
  BY <1>1, <1>2 DEF PaymentRow
<1>4. row # None
  BY <1>3, Constants
<1>5. UNCHANGED <<requestVars, controlVars, call, quote>>
  BY DEF Resolve
<1> HIDE DEF row
<1>6. payment'[q] = row /\ \A x \in Quotes : x # q => payment'[x] = payment[x]
  BY <1>3, TypeParts DEF IInv, FlowTypes
<1>7. PaidQuotes' = PaidQuotes
  BY <1>1, <1>4, <1>6 DEF PaidQuotes, Paid
<1>8. PaidRowsStay /\ \A x \in PaidQuotes : payment'[x].day = payment[x].day
  BY <1>3, <1>5, <1>6 DEF PaidQuotes, PaidRowsStay, SumInv, PaidSoFar
<1>9. HiddenUntilLinked'
  BY <1>5 DEF SumInv, HiddenUntilLinked
<1> QED BY <1>5, <1>7, <1>8, <1>9, NothingPaid, SameRequests, SameDay DEF SumInv

LEMMA RequestStepPays == ASSUME IInv, SumInv, NEW s \in Sessions, RequestStep(s) PROVE SumInv' /\ PaidRowsStay
<1>1. UNCHANGED <<controlVars, call, quote, payment>>
  BY DEF RequestStep, flowVars
<1>2. \A h \in Shares : share'[h].received = share[h].received
  <2>1. share \in [Shares -> ShareRow]
    BY DEF IInv, TypeOK, RequestTypeOK
  <2> QED
    BY <2>1 DEF RequestStep, RequestMoney, CancelRequest, DeclineShare, RequestExpires, ShareRow
<1> QED BY <1>1, <1>2, QuietPays, SameDay

(* A payment adds its amount to its share, and to no other.                *)
LEMMA CreatePaymentPays ==
  ASSUME IInv, SumInv, NEW s \in Sessions, NEW q \in Quotes, NEW t \in Tokens, NEW k \in Keys,
         NEW d1 \in Nat, NEW d2 \in Nat, NEW day \in Nat, day >= today, CreatePayment(s, q, t, k, d1, d2, day)
  PROVE  SumInv' /\ PaidRowsStay
<1> DEFINE pay == [key |-> k, session |-> s, day |-> day, status |-> AcceptedStatus(q)]
           row == [quote[q] EXCEPT !.used = TRUE]
<1>1. /\ quote[q] # None /\ quote[q].shown /\ ~Paid(q)
      /\ payment' = [payment EXCEPT ![q] = pay] /\ quote' = [quote EXCEPT ![q] = row]
      /\ today' = day /\ call' = call
  BY DEF CreatePayment, Usable
<1>2. quote[q] \in QuoteRow
  BY <1>1, RowTypes DEF IInv
<1>3. /\ row.shown = quote[q].shown /\ row.share = quote[q].share /\ row.amount = quote[q].amount
      /\ row.fee = quote[q].fee /\ row.owner = quote[q].owner
      /\ quote[q].amount \in Nat /\ quote[q].share \in Shares \cup {None} /\ row.shown
  BY <1>1, <1>2 DEF QuoteRow
<1>4. pay \in PaymentRow /\ pay.day = day
  BY DEF PaymentRow, AcceptedStatus
<1>5. pay # None
  BY <1>4, Constants
<1> HIDE DEF row, pay
<1>6. /\ payment'[q] = pay /\ \A x \in Quotes : x # q => payment'[x] = payment[x]
      /\ quote'[q] = row /\ \A x \in Quotes : x # q => quote'[x] = quote[x]
  BY <1>1, TypeParts DEF IInv, FlowTypes
<1>7. PaidQuotes' = PaidQuotes \cup {q} /\ q \notin PaidQuotes
  BY <1>1, <1>5, <1>6 DEF PaidQuotes, Paid
<1>8. HiddenUntilLinked'
  <2>1. \A x \in Sessions : call[x].stage = "link" =>
          call[x].quote \in Quotes /\ quote'[call[x].quote].shown = quote[call[x].quote].shown
    BY <1>3, <1>6, CallFields DEF IInv
  <2> QED BY <1>1, <2>1 DEF SumInv, HiddenUntilLinked
<1>9. PaidSoFar'
  <2>1. IsFiniteSet(PaidQuotes')
    BY <1>7, FS_AddElement DEF SumInv, PaidSoFar
  <2>2. \A x \in PaidQuotes : payment[x].day \in Nat /\ today \in Nat
    BY RowTypes DEF IInv, TypeOK, PaidQuotes, Paid, PaymentRow
  <2>3. \A x \in PaidQuotes' : quote'[x].shown /\ payment'[x].day <= today'
    <3>1. quote'[q].shown /\ payment'[q].day <= today'
      BY <1>1, <1>3, <1>4, <1>6 DEF IInv, TypeOK
    <3>2. ASSUME NEW x \in PaidQuotes PROVE quote'[x].shown /\ payment'[x].day <= today'
      <4>1. x \in Quotes /\ x # q
        BY <1>7 DEF PaidQuotes
      <4> QED BY <1>1, <1>6, <2>2, <4>1 DEF SumInv, PaidSoFar
    <3> QED BY <1>7, <3>1, <3>2
  <2> QED BY <2>1, <2>3 DEF PaidSoFar
<1>10. ASSUME NEW h \in Shares
       PROVE  AmountFor(h)' = IF quote[q].share = h THEN AmountFor(h) + quote[q].amount ELSE AmountFor(h)
  <2> DEFINE v == [x \in PaidFor(h) |-> quote[x].amount]
             w == [x \in PaidFor(h)' |-> quote'[x].amount]
  <2>1. /\ PaidFor(h) \subseteq PaidQuotes /\ IsFiniteSet(PaidFor(h))
        /\ \A x \in PaidFor(h) : quote[x].amount \in Nat /\ quote'[x].amount = quote[x].amount
    <3>1. PaidFor(h) \subseteq PaidQuotes
      BY DEF PaidFor, PaidQuotes
    <3>2. IsFiniteSet(PaidFor(h))
      BY <3>1, FS_Subset DEF SumInv, PaidSoFar
    <3>3. ASSUME NEW x \in PaidFor(h) PROVE quote[x].amount \in Nat /\ quote'[x].amount = quote[x].amount
      <4>1. x \in Quotes /\ Paid(x) /\ x # q
        BY <1>7, <3>1 DEF PaidFor
      <4>2. quote[x] \in QuoteRow
        BY <4>1, RowTypes DEF IInv, FlowInv, UsedOnce
      <4> QED BY <4>1, <4>2, <1>6 DEF QuoteRow
    <3> QED BY <3>1, <3>2, <3>3
  <2>2. AmountFor(h) = SumFunctionOnSet(v, PaidFor(h)) /\ AmountFor(h)' = SumFunctionOnSet(w, PaidFor(h)')
    BY DEF AmountFor, SumFunction
  <2>3. PaidFor(h)' = IF quote[q].share = h THEN PaidFor(h) \cup {q} ELSE PaidFor(h)
    <3>1. PaidFor(h) = {x \in PaidQuotes : quote[x].share = h}
          /\ PaidFor(h)' = {x \in PaidQuotes' : quote'[x].share = h}
      BY DEF PaidFor, PaidQuotes
    <3>2. \A x \in PaidQuotes : quote'[x].share = quote[x].share
      BY <1>6, <1>7 DEF PaidQuotes
    <3>3. quote'[q].share = quote[q].share
      BY <1>3, <1>6
    <3> QED BY <1>7, <3>1, <3>2, <3>3
  <2>4. CASE quote[q].share = h
    <3>1. q \notin PaidFor(h) /\ PaidFor(h)' = PaidFor(h) \cup {q} /\ w[q] = quote[q].amount
      BY <1>3, <1>6, <1>7, <2>1, <2>3, <2>4
    <3>2. \A x \in PaidFor(h) : w[x] = v[x] /\ w[x] \in Nat
      BY <2>1, <3>1
    <3> HIDE DEF v, w
    <3>3. \A x \in PaidFor(h) \cup {q} : w[x] \in Int
      BY <1>3, <3>1, <3>2
    <3>4. SumFunctionOnSet(w, PaidFor(h) \cup {q}) = w[q] + SumFunctionOnSet(w, PaidFor(h))
      BY <2>1, <3>1, <3>3, SumAdd
    <3>5. SumFunctionOnSet(w, PaidFor(h)) = SumFunctionOnSet(v, PaidFor(h))
      BY <2>1, <3>2, SumSame
    <3>6. SumFunctionOnSet(v, PaidFor(h)) \in Nat
      BY <2>1, <3>2, SumNonNegative
    <3> QED BY <1>3, <2>2, <2>4, <3>1, <3>4, <3>5, <3>6
  <2>5. CASE quote[q].share # h
    <3>1. v = w
      BY <2>1, <2>3, <2>5
    <3> QED BY <2>2, <2>3, <2>5, <3>1
  <2> QED BY <2>4, <2>5
<1>11. ASSUME NEW h \in Shares
       PROVE  share'[h].received = IF quote[q].share = h THEN share[h].received + quote[q].amount ELSE share[h].received
  <2>1. share \in [Shares -> ShareRow] /\ None \notin Shares
    BY CheckoutAssumption DEF IInv, TypeOK, RequestTypeOK
  <2>2. CASE quote[q].share = None
    BY <2>1, <2>2 DEF CreatePayment, requestVars
  <2>3. CASE quote[q].share # None
    BY <1>3, <2>1, <2>3 DEF CreatePayment, ApplyShare, Received, ShareRow
  <2> QED BY <2>2, <2>3
<1>12. SharesAddUp'
  BY <1>10, <1>11 DEF SumInv, SharesAddUp
<1>13. PaidRowsStay
  BY <1>6, <1>7 DEF PaidRowsStay, PaidQuotes, SumInv, PaidSoFar
<1> QED BY <1>8, <1>9, <1>12, <1>13 DEF SumInv

LEMMA NothingPaidYet == Init => SumInv
<1> SUFFICES ASSUME Init PROVE SumInv
  OBVIOUS
<1>1. HiddenUntilLinked
  BY DEF Init, Idle, HiddenUntilLinked
<1>2. PaidQuotes = {} /\ \A h \in Shares : PaidFor(h) = {}
  BY DEF Init, PaidQuotes, PaidFor, Paid
<1>3. PaidSoFar
  BY <1>2, FS_EmptySet DEF PaidSoFar
<1>4. ASSUME NEW h \in Shares PROVE AmountFor(h) = 0
  BY <1>2, SumEmpty DEF AmountFor, SumFunction
<1>5. SharesAddUp
  BY <1>4 DEF SharesAddUp, Init, RequestInit
<1> QED BY <1>1, <1>3, <1>5 DEF SumInv

LEMMA SessionStepPays == ASSUME IInv, SumInv, NEW s \in Sessions, SessionStep(s) PROVE SumInv' /\ PaidRowsStay
<1>1. today \in Nat
  BY DEF IInv, TypeOK
<1>2. ASSUME NEW q \in Quotes, NEW t \in Tokens, NEW k \in Keys,
             \E day \in today..(IF today < situation.lastDay THEN today + 1 ELSE today) :
               \E d2 \in today..day : \E d1 \in today..d2 : CreatePayment(s, q, t, k, d1, d2, day)
      PROVE  SumInv' /\ PaidRowsStay
  <2>1. PICK day \in Nat, d2 \in Nat, d1 \in Nat : day >= today /\ CreatePayment(s, q, t, k, d1, d2, day)
    BY <1>1, <1>2
  <2> QED BY <2>1, CreatePaymentPays
<1>3. ASSUME NEW q \in Quotes, NEW t \in Tokens, Authorise(s, q, t) PROVE SumInv' /\ PaidRowsStay
  BY <1>3, QuietPays, SameRequests, SameDay DEF Authorise
<1>4. ASSUME NEW q \in Quotes, NEW k \in Keys, Replay(s, q, k) PROVE SumInv' /\ PaidRowsStay
  BY <1>4, QuietPays, SameRequests, SameDay DEF Replay
<1>5. ASSUME NEW l, ChangeControls(s, l) PROVE SumInv' /\ PaidRowsStay
  BY <1>1, <1>5, QuietPays, SameRequests DEF ChangeControls, flowVars
<1>6. ASSUME SecureAccount(s) PROVE SumInv' /\ PaidRowsStay
  BY <1>1, <1>6, QuietPays, SameRequests DEF SecureAccount, flowVars
<1> QED
  BY <1>2, <1>3, <1>4, <1>5, <1>6, ReadSharePays, PriceQuotePays, StoreQuotePays, LinkQuotePays, CallEndsPays,
     RequestStepPays DEF SessionStep

LEMMA StepPays == IInv /\ SumInv /\ [Next]_vars => SumInv' /\ PaidRowsStay
<1> SUFFICES ASSUME IInv, SumInv, [Next]_vars PROVE SumInv' /\ PaidRowsStay
  OBVIOUS
<1>1. situation.sessions \subseteq Sessions /\ today \in Nat
  BY Bounds DEF IInv, TypeOK
<1>2. CASE UNCHANGED vars
  BY <1>1, <1>2, QuietPays, SameRequests DEF vars, flowVars, controlVars
<1>3. ASSUME NEW t \in Tokens, AuthorisationExpires(t) PROVE SumInv' /\ PaidRowsStay
  BY <1>3, QuietPays, SameRequests, SameDay DEF AuthorisationExpires
<1>4. CASE PolicyChanges
  BY <1>1, <1>4, QuietPays, SameRequests DEF PolicyChanges, flowVars
<1>5. CASE ProductChanges
  BY <1>1, <1>5, QuietPays, SameRequests DEF ProductChanges, flowVars
<1>6. CASE Midnight
  BY <1>1, <1>6, QuietPays, SameRequests DEF Midnight, flowVars
<1>7. ASSUME NEW c, StandingChanges(c) PROVE SumInv' /\ PaidRowsStay
  BY <1>1, <1>7, QuietPays, SameRequests DEF StandingChanges, flowVars
<1> QED
  BY <1>1, <1>2, <1>3, <1>4, <1>5, <1>6, <1>7, SessionStepPays, ResolvePays, QuoteExpiresPays DEF Next

LEMMA PaymentsAddUp == Spec => [](IInv /\ SumInv)
<1>1. Init => IInv /\ SumInv
  BY InitEstablishes, NothingPaidYet
<1>2. (IInv /\ SumInv) /\ [Next]_vars => (IInv /\ SumInv)'
  BY StepKeeps, StepPays
<1> QED BY <1>1, <1>2, PTL DEF Spec

(* A share has received exactly the payments made for it, to the unit, is  *)
(* paid when they reach what was asked, and completes its request with its *)
(* siblings - for any number of quotes, of any amounts, linked to it.      *)
THEOREM SharesAreWhatWasPaid == Spec => []SharesReceiveTheirPayments
<1>1. IInv /\ SumInv => SharesReceiveTheirPayments
  BY DEF IInv, ShareInv, SharesBounded, CompletedWhenPaid, SumInv, SharesAddUp, AmountFor, SharesReceiveTheirPayments
<1> QED BY <1>1, PaymentsAddUp, PTL

-----------------------------------------------------------------------------
(* What a customer commits to on one day.                                  *)
Committing(c, day) ==
  {q \in PaidQuotes : quote[q].owner = c /\ payment[q].day = day /\ payment[q].status # "failed"}

CommittedAsSum ==
  \A c, day : /\ Committed(c, day) = Totalled(Committing(c, day))
              /\ Spent(c, day) = Totalled(Committing(c, day))

LEMMA CommittedIs == CommittedAsSum
<1>1. ASSUME NEW c, NEW day
      PROVE  /\ {q \in Quotes : /\ Paid(q) /\ quote[q].owner = c
                               /\ payment[q].day = day /\ payment[q].status # "failed"} = Committing(c, day)
             /\ {q \in Quotes : Counted(q) /\ quote[q].owner = c /\ payment[q].day = day} = Committing(c, day)
  BY DEF Committing, PaidQuotes, Counted
<1> QED BY <1>1 DEF Committed, Spent, CommittedAsSum

LEMMA CommittedIsAfter == CommittedAsSum'
BY CommittedIs, PTL

LEMMA CommittingRows ==
  ASSUME IInv, PaidSoFar, NEW c, NEW day
  PROVE  /\ IsFiniteSet(Committing(c, day))
         /\ \A q \in Committing(c, day) : q \in PaidQuotes /\ quote[q] # None /\ Total(q) \in Nat
<1>1. IsFiniteSet(Committing(c, day))
  BY FS_Subset DEF Committing, PaidSoFar
<1>2. \A q \in Committing(c, day) : q \in PaidQuotes /\ q \in Quotes /\ quote[q] # None
  BY DEF Committing, PaidQuotes, IInv, FlowInv, UsedOnce
<1> QED BY <1>1, <1>2, TotalType DEF IInv

CommittedTyped == \A c, day : Committed(c, day) \in Nat

LEMMA CommittedType == IInv /\ SumInv => CommittedTyped
<1>1. ASSUME IInv, PaidSoFar, NEW c, NEW day PROVE Totalled(Committing(c, day)) \in Nat
  BY <1>1, CommittingRows, SumNonNegative DEF Totalled, SumFunction
<1> QED BY <1>1, CommittedIs DEF CommittedAsSum, CommittedTyped, SumInv

LEMMA CommittedTypeAfter == IInv' /\ SumInv' => CommittedTyped'
BY CommittedType, PTL

StricterType == \A c \in Customers : Stricter(c, "daily") \in Nat

LEMMA StricterIs == ASSUME TypeOK PROVE StricterType
BY Constants DEF TypeOK, Stricter, StricterType, Terms, Limits

(* What a set of paid quotes adds up to, their rows being steady.          *)
LEMMA SameTotals ==
  ASSUME PaidRowsStay, NEW S \in SUBSET PaidQuotes
  PROVE  [q \in S |-> quote'[q].amount + quote'[q].fee] = [q \in S |-> quote[q].amount + quote[q].fee]
BY DEF PaidRowsStay

LEMMA CommittedAfter ==
  ASSUME PaidRowsStay, NEW c, NEW day, Committing(c, day)' \subseteq PaidQuotes
  PROVE  Committed(c, day)' = Totalled(Committing(c, day)')
<1>1. Committed(c, day)' =
        SumFunction([q \in Committing(c, day)' |-> quote'[q].amount + quote'[q].fee])
  BY CommittedIsAfter DEF CommittedAsSum, Totalled, Total
<1>2. ASSUME NEW S \in SUBSET PaidQuotes
      PROVE  SumFunction([q \in S |-> quote'[q].amount + quote'[q].fee]) = Totalled(S)
  BY SameTotals DEF Totalled, Total
<1> QED BY <1>1, <1>2

LEMMA CommittedStays ==
  ASSUME PaidRowsStay, NEW c, NEW day, Committing(c, day)' = Committing(c, day)
  PROVE  Committed(c, day)' = Committed(c, day)
<1>1. Committing(c, day) \subseteq PaidQuotes
  BY DEF Committing
<1> QED BY <1>1, CommittedAfter, CommittedIs DEF CommittedAsSum

(* The outcome of a bill can only take from what is committed.             *)
LEMMA ResolveCommits ==
  ASSUME IInv, SumInv, NEW q \in Quotes, Resolve(q), PaidRowsStay, NEW c, NEW day
  PROVE  Committed(c, day)' <= Committed(c, day)
<1>1. Paid(q) /\ payment[q] \in PaymentRow /\ payment[q].status = "accepted" /\ quote' = quote
  BY RowTypes DEF IInv, Resolve, Paid
<1>2. PICK status \in {"succeeded", "failed"} : payment' = [payment EXCEPT ![q].status = status]
  BY DEF Resolve
<1>3. /\ payment'[q] = [payment[q] EXCEPT !.status = status]
      /\ \A x \in Quotes : x # q => payment'[x] = payment[x]
  BY <1>2, TypeParts DEF IInv, FlowTypes
<1>4. payment'[q].day = payment[q].day
  BY <1>1, <1>3 DEF PaymentRow
<1>5. Committing(c, day)' \subseteq Committing(c, day)
  <2> SUFFICES ASSUME NEW x \in Quotes, x \in Committing(c, day)' PROVE x \in Committing(c, day)
    BY DEF Committing, PaidQuotes
  <2>1. CASE x = q
    BY <1>1, <1>4, <2>1 DEF Committing, PaidQuotes
  <2>2. CASE x # q
    BY <1>1, <1>3, <2>2 DEF Committing, PaidQuotes, Paid
  <2> QED BY <2>1, <2>2
<1>6. Committing(c, day)' \subseteq PaidQuotes
  BY <1>5 DEF Committing
<1>7. Committed(c, day)' = Totalled(Committing(c, day)')
  BY <1>6, CommittedAfter
<1>8. ASSUME NEW T \in SUBSET Committing(c, day) PROVE Totalled(T) <= Totalled(Committing(c, day))
  <2> DEFINE S == Committing(c, day)
             v == [x \in T |-> Total(x)]
             w == [x \in S |-> Total(x)]
  <2>1. IsFiniteSet(S) /\ IsFiniteSet(T) /\ \A x \in S : Total(x) \in Nat
    BY CommittingRows, FS_Subset DEF SumInv
  <2>2. \A x \in T : v[x] = w[x]
    OBVIOUS
  <2>3. \A x \in S : w[x] \in Nat
    BY <2>1
  <2>4. Totalled(T) = SumFunctionOnSet(v, T) /\ Totalled(S) = SumFunctionOnSet(w, S)
    BY DEF Totalled, SumFunction
  <2> HIDE DEF v, w, S
  <2>5. SumFunctionOnSet(v, T) = SumFunctionOnSet(w, T)
    BY <2>1, <2>2, SumSame
  <2>6. T \in SUBSET S
    BY DEF S
  <2>7. SumFunctionOnSet(w, T) <= SumFunctionOnSet(w, S)
    BY <2>1, <2>3, <2>6, SumPart
  <2> QED BY <2>4, <2>5, <2>7 DEF S
<1> QED BY <1>5, <1>7, <1>8, CommittedIs DEF CommittedAsSum

(* A payment that crosses midnight is the first of its day; any other was  *)
(* checked against what the day already held.                              *)
LEMMA CreatePaymentCommits ==
  ASSUME IInv, SumInv, PaidRowsStay, NEW s \in Sessions, NEW q \in Quotes, NEW t \in Tokens, NEW k \in Keys,
         NEW day \in today..(today + 1), NEW d2 \in today..day, NEW d1 \in today..d2,
         CreatePayment(s, q, t, k, d1, d2, day), NEW c \in Customers, NEW on
  PROVE  Committed(c, on)' = Committed(c, on) \/ Committed(c, on)' <= Stricter(c, "daily")
<1> DEFINE pay == [key |-> k, session |-> s, day |-> day, status |-> AcceptedStatus(q)]
           row == [quote[q] EXCEPT !.used = TRUE]
<1>1. /\ quote[q] # None /\ ~Paid(q) /\ quote[q].owner = Owner(s)
      /\ payment' = [payment EXCEPT ![q] = pay] /\ quote' = [quote EXCEPT ![q] = row]
      /\ Total(q) <= Stricter(Owner(s), "daily") - Spent(Owner(s), d1)
  BY DEF CreatePayment, Usable, WithinLimits
<1>2. quote[q] \in QuoteRow /\ today \in Nat
  BY <1>1, RowTypes DEF IInv, TypeOK
<1>3. row.amount = quote[q].amount /\ row.fee = quote[q].fee /\ row.owner = quote[q].owner
  BY <1>2 DEF QuoteRow
<1>4. pay \in PaymentRow /\ pay.day = day /\ pay.status # "failed"
  BY <1>2 DEF PaymentRow, AcceptedStatus
<1>5. pay # None
  BY <1>4, Constants
<1> HIDE DEF row, pay
<1>6. /\ payment'[q] = pay /\ \A x \in Quotes : x # q => payment'[x] = payment[x]
      /\ quote'[q] = row /\ \A x \in Quotes : x # q => quote'[x] = quote[x]
  BY <1>1, TypeParts DEF IInv, FlowTypes
<1>7. PaidQuotes' = PaidQuotes \cup {q} /\ q \notin PaidQuotes
  BY <1>1, <1>5, <1>6 DEF PaidQuotes, Paid
<1>8. \A x \in PaidQuotes : x \in Quotes /\ payment'[x] = payment[x] /\ quote'[x] = quote[x]
  BY <1>6, <1>7 DEF PaidQuotes
<1>9. CASE c # Owner(s) \/ on # day
  <2>1. Committing(c, on)' = Committing(c, on)
    BY <1>1, <1>3, <1>4, <1>6, <1>7, <1>8, <1>9 DEF Committing
  <2> QED BY <2>1, CommittedStays
<1>10. CASE c = Owner(s) /\ on = day
  <2>1. Committing(c, on)' = Committing(c, on) \cup {q} /\ q \notin Committing(c, on)
    BY <1>1, <1>3, <1>4, <1>6, <1>7, <1>8, <1>10 DEF Committing
  <2> DEFINE S == Committing(c, on)
             v == [x \in S |-> Total(x)]
             w == [x \in S \cup {q} |-> Total(x)']
  <2>2. IsFiniteSet(S) /\ \A x \in S : x \in PaidQuotes /\ Total(x) \in Nat
    BY CommittingRows DEF SumInv
  <2>3. Total(q) \in Nat /\ Total(q)' = Total(q) /\ \A x \in S : Total(x)' = Total(x)
    BY <1>1, <1>3, <1>6, <1>8, <2>2, TotalType DEF Total, IInv
  <2>4. \A x \in S : w[x] = v[x] /\ w[x] \in Int
    BY <2>2, <2>3
  <2>5. w[q] = Total(q)
    BY <2>3
  <2>6. Committed(c, on)' = SumFunctionOnSet(w, S \cup {q}) /\ Committed(c, on) = SumFunctionOnSet(v, S)
    <3>1. Committed(c, on)' = SumFunction([x \in Committing(c, on)' |-> Total(x)'])
      BY CommittedIsAfter DEF CommittedAsSum, Totalled
    <3>2. Committed(c, on) = SumFunction([x \in Committing(c, on) |-> Total(x)])
      BY CommittedIs DEF CommittedAsSum, Totalled
    <3> QED BY <2>1, <3>1, <3>2 DEF SumFunction
  <2>7. Committed(c, on) \in Nat /\ Committed(c, d1) \in Nat /\ Stricter(c, "daily") \in Nat
    BY CommittedType, StricterIs DEF StricterType, CommittedTyped, IInv
  <2>8. S \cup {q} # {} /\ q \notin S
    BY <2>1
  <2> HIDE DEF v, w, S
  <2>9. SumFunctionOnSet(w, S \cup {q}) = w[q] + SumFunctionOnSet(w, S)
    <3>1. \A x \in S \cup {q} : w[x] \in Int
      BY <2>3, <2>4, <2>5
    <3> QED BY <2>2, <2>8, <3>1, SumAdd
  <2>10. SumFunctionOnSet(w, S) = SumFunctionOnSet(v, S)
    BY <2>2, <2>4, SumSame
  <2>11. Committed(c, on)' = Total(q) + Committed(c, on)
    BY <2>5, <2>6, <2>9, <2>10
  <2>12. Spent(c, d1) = Committed(c, d1)
    BY CommittedIs DEF CommittedAsSum
  <2>13. CASE d1 = on
    BY <1>1, <1>10, <2>3, <2>7, <2>11, <2>12, <2>13
  <2>14. CASE d1 # on
    <3>1. on > today
      BY <1>2, <1>10, <2>14
    <3>2. \A x \in PaidQuotes : payment[x].day \in Nat /\ payment[x].day <= today
      BY RowTypes DEF IInv, PaidQuotes, Paid, PaymentRow, SumInv, PaidSoFar
    <3>3. S = {}
      BY <1>2, <3>1, <3>2 DEF S, Committing
    <3>4. Committed(c, on) = 0
      BY <2>6, <3>3, SumEmpty
    <3> QED BY <1>1, <1>10, <2>3, <2>7, <2>11, <2>12, <3>4
  <2> QED BY <2>13, <2>14
<1> QED BY <1>9, <1>10

(* A step that makes or decides no payment leaves what is committed.       *)
PaymentsMove ==
  \/ UNCHANGED payment
  \/ \E q \in Quotes : Resolve(q)
  \/ \E s \in Sessions, q \in Quotes, t \in Tokens, k \in Keys, day \in today..(today + 1) :
       \E d2 \in today..day : \E d1 \in today..d2 : CreatePayment(s, q, t, k, d1, d2, day)

LEMMA OnlyPaymentsPay == ASSUME IInv, [Next]_vars PROVE PaymentsMove
<1>1. CASE UNCHANGED vars
  BY <1>1 DEF vars, flowVars, PaymentsMove
<1>2. ASSUME NEW s \in Sessions, SessionStep(s) PROVE PaymentsMove
  <2>1. today \in Nat
    BY DEF IInv, TypeOK
  <2>2. ASSUME NEW q \in Quotes, NEW t \in Tokens, NEW k \in Keys,
               \E day \in today..(IF today < situation.lastDay THEN today + 1 ELSE today) :
                 \E d2 \in today..day : \E d1 \in today..d2 : CreatePayment(s, q, t, k, d1, d2, day)
        PROVE  PaymentsMove
    <3>1. PICK day \in today..(IF today < situation.lastDay THEN today + 1 ELSE today) :
            \E d2 \in today..day : \E d1 \in today..d2 : CreatePayment(s, q, t, k, d1, d2, day)
      BY <2>2
    <3>2. day \in today..(today + 1)
      BY <2>1, <3>1
    <3> QED BY <3>1, <3>2 DEF PaymentsMove
  <2>3. CASE UNCHANGED payment
    BY <2>3 DEF PaymentsMove
  <2> QED
    BY <1>2, <2>2, <2>3 DEF SessionStep, ReadShare, PriceQuote, StoreQuote, LinkQuote, CallEnds, Authorise, Replay,
                            ChangeControls, SecureAccount, RequestStep, flowVars
<1>3. CASE \E s \in situation.sessions : SessionStep(s)
  BY <1>2, <1>3, Bounds DEF IInv, TypeOK
<1>4. CASE Next /\ ~\E s \in situation.sessions : SessionStep(s)
  BY <1>4 DEF Next, QuoteExpires, AuthorisationExpires, PolicyChanges, ProductChanges, Midnight,
              StandingChanges, flowVars, PaymentsMove
<1> QED BY <1>1, <1>3, <1>4

(* What a customer commits to on one day is within the stricter of policy  *)
(* and personal limit whenever it grows, however many quotes, sessions and *)
(* unsettled bills he has, also across midnight.                           *)
THEOREM DailyLimit == Spec => DailyLimitHolds
<1>1. ASSUME IInv, SumInv, [Next]_vars, NEW c \in Customers, NEW day
      PROVE  Committed(c, day)' <= Stricter(c, "daily") \/ Committed(c, day)' <= Committed(c, day)
  <2>1. PaidRowsStay /\ SumInv' /\ IInv'
    BY <1>1, StepPays, StepKeeps
  <2>2. Committed(c, day) \in Nat /\ Committed(c, day)' \in Nat
    BY <1>1, <2>1, CommittedType, CommittedTypeAfter DEF CommittedTyped
  <2>3. CASE UNCHANGED payment
    <3>1. Committing(c, day)' = Committing(c, day)
      BY <2>1, <2>3 DEF Committing, PaidQuotes, Paid, PaidRowsStay
    <3> QED BY <2>1, <2>2, <3>1, CommittedStays
  <2>4. CASE \E q \in Quotes : Resolve(q)
    BY <1>1, <2>1, <2>2, <2>4, ResolveCommits
  <2>5. CASE \E s \in Sessions, q \in Quotes, t \in Tokens, k \in Keys, on \in today..(today + 1) :
               \E d2 \in today..on : \E d1 \in today..d2 : CreatePayment(s, q, t, k, d1, d2, on)
    BY <1>1, <2>1, <2>2, <2>5, CreatePaymentCommits
  <2> QED BY <1>1, <2>3, <2>4, <2>5, OnlyPaymentsPay DEF PaymentsMove
<1>2. IInv /\ SumInv /\ [Next]_vars =>
        [\A c \in Customers, day \in 0..situation.lastDay :
           \/ Committed(c, day)' <= Stricter(c, "daily")
           \/ Committed(c, day)' <= Committed(c, day)]_vars
  BY <1>1
<1> QED BY <1>2, PaymentsAddUp, PTL DEF Spec, DailyLimitHolds
=============================================================================
