------------------------------ MODULE Checkout ------------------------------
(***************************************************************************)
(* How a customer turns an intention into an accepted payment              *)
(* (service/payments.go 212-604): CreateQuote prices it, Authorise checks  *)
(* the PIN for one quote in one session, CreatePayment commits it under an *)
(* idempotency key.  Between the three, and inside CreateQuote, which      *)
(* reads the policy and the recipient outside any transaction, staff       *)
(* change the payment policy, the customer changes limits or freezes the   *)
(* account in another session, and money requests are paid and closed.     *)
(*                                                                         *)
(* A transaction locks the owner's users row first, so it is one action; a *)
(* call that reads outside a transaction has a local state, call[s].  An   *)
(* attempt that fails changes nothing and is not an action.  Calls are     *)
(* identified by the session they are made in: a session makes one quote   *)
(* at a time here, while other sessions of its owner interleave with it.   *)
(* The bank transfer differs from the bill only in the destination it      *)
(* names, so it is not a kind of its own.                                  *)
(***************************************************************************)
EXTENDS MoneyRequests, FiniteSets, Functions

CONSTANTS Sessions, SessionOwner,
          Quotes, Tokens, Keys,  \* identities of quotes, authorisations, Idempotency-Keys
          None,
          ProviderFee,
          Opening,               \* account -> balance after what was funded beforehand
          Situations             \* bounds of the run: what goes on together, see below

(* A situation bounds a behaviour: whose sessions are used, who is paid,   *)
(* which quotes are prepared (kinds beside shares, amounts), the policies  *)
(* staff may decide and the personal limits customers may choose, who is   *)
(* restricted or freezes, whether there are money requests, and how many   *)
(* versions and days pass.  It is chosen at the start.                     *)
Terms  == [perPayment : Nat, daily : Nat, fee : Nat]
Limits == [perPayment : Nat, daily : Nat]
Situation == [sessions : SUBSET Sessions, payees : SUBSET Customers,
              kinds : SUBSET {"internal", "bill"}, amounts : SUBSET (Nat \ {0}),
              terms : SUBSET Terms, limits : SUBSET Limits,
              disturbed : SUBSET Customers, requests : SUBSET Requests,
              maxVersion : Nat, lastDay : Nat]

(* The rows of quotes, authorisations and payments.                        *)
Content    == [kind : {"internal", "bill"}, payee : Customers \cup {None}, amount : Nat, fee : Nat,
               version : Nat, share : Shares \cup {None}]
QuoteRow   == [owner : Customers, kind : {"internal", "bill"}, payee : Customers \cup {None}, amount : Nat,
               fee : Nat, version : Nat, share : Shares \cup {None},
               used : BOOLEAN, expired : BOOLEAN, shown : BOOLEAN]
AuthRow    == [quote : Quotes, session : Sessions, state : {"fresh", "consumed", "expired"}]
PaymentRow == [key : Keys, session : Sessions, day : Nat, status : {"accepted", "succeeded", "failed"}]

ASSUME CheckoutAssumption ==
  /\ SessionOwner \in [Sessions -> Customers]
  /\ ProviderFee \in Nat
  /\ Situations \subseteq Situation
  /\ \A x \in Situations : \A l \in x.terms \cup x.limits : 0 < l.perPayment /\ l.perPayment <= l.daily
  /\ Opening \in [Account -> Int]
  /\ \A c \in Customers : Opening[c] \in 0..MaxBalance
  /\ None \notin Customers \cup Shares \cup QuoteRow \cup AuthRow \cup PaymentRow

VARIABLES
  situation,   \* the situation of this behaviour
  policy,      \* the policies row: version, terms, enabled
  product,     \* product_controls.enabled of the bill product
  limits,      \* customer_controls.per_limit and daily_limit, or None
  frozen,      \* customers with customer_controls.frozen
  restricted,  \* customers who are not eligible
  revoked,     \* sessions with sessions.revoked
  today,       \* the UTC day
  call,        \* the quote each session's current call is preparing
  quote,       \* quotes rows with their request_quote_links row
  auth,        \* authorisations rows
  payment,     \* payments rows, by quote_id (UNIQUE)
  told         \* history: the answers given to CreatePayment calls

controlVars == <<situation, policy, product, limits, frozen, restricted, revoked, today>>
flowVars    == <<call, quote, auth, payment, told>>
vars == <<ledgerVars, requestVars, controlVars, flowVars>>

Idle == [stage |-> "idle"]

-----------------------------------------------------------------------------
(* Who may do what                                                         *)

Owner(s)    == SessionOwner[s]
Live(s)     == s \notin revoked             \* activePrincipal
Eligible(c) == c \notin restricted          \* eligible

Paid(q)  == payment[q] # None
Total(q) == quote[q].amount + quote[q].fee

(* Mutant: only settled payments count towards the limit.                  *)
Counted_Settled(q) == Paid(q) /\ payment[q].status = "succeeded"

(* A payment counts from its acceptance on, unless it failed.              *)
Counted(q) == Paid(q) /\ payment[q].status # "failed"

Totalled(quotes) == SumFunction([q \in quotes |-> Total(q)])

Spent(c, day) ==
  Totalled({q \in Quotes : Counted(q) /\ quote[q].owner = c /\ payment[q].day = day})

(* controls: the stricter of the personal limit and the account policy.    *)
Stricter(c, limit) ==
  IF limits[c] = None \/ limits[c][limit] > policy.terms[limit]
  THEN policy.terms[limit] ELSE limits[c][limit]

(* ensureSpendingControl and the policy checks of CreatePayment.  The code *)
(* asks for the time in each: d1 and d2 are the days they see.             *)
WithinLimits(c, total, d1, d2) ==
  /\ c \notin frozen
  /\ total <= Stricter(c, "perPayment")
  /\ total <= Stricter(c, "daily") - Spent(c, d1)
  /\ total <= policy.terms.perPayment
  /\ Spent(c, d2) <= policy.terms.daily - total

-----------------------------------------------------------------------------
(* CreateQuote and RequestQuote                                            *)

(* RequestQuote first looks at the payer's share, outside any transaction. *)
ReadShare(s, h, amount) ==
  /\ call[s] = Idle /\ Live(s)
  /\ SharePayer[h] = Owner(s)
  /\ Payable(ShareRequest[h]) /\ share[h].status = "open" /\ amount <= Remaining(h)
  /\ call' = [call EXCEPT ![s] = [stage |-> "shared", share |-> h, amount |-> amount]]
  /\ UNCHANGED <<ledgerVars, requestVars, controlVars, quote, auth, payment, told>>

(* The unlocked part of CreateQuote: policy, recipient, product and fee.   *)
Price(s, kind, payee, amount, h) ==
  /\ Eligible(Owner(s))
  /\ policy.enabled /\ amount <= policy.terms.perPayment
  /\ IF kind = "internal" THEN payee \in Customers \ (restricted \cup {Owner(s)})
                          ELSE payee = None /\ product
  /\ call' = [call EXCEPT ![s] =
       [stage |-> "priced",
        content |-> [kind |-> kind, payee |-> payee, amount |-> amount, share |-> h,
                     fee |-> IF kind = "internal" THEN policy.terms.fee ELSE ProviderFee,
                     version |-> policy.version]]]

PriceQuote(s) ==
  /\ \/ /\ call[s] = Idle /\ Live(s)
        /\ \E kind \in situation.kinds, payee \in situation.payees \cup {None}, amount \in situation.amounts :
             Price(s, kind, payee, amount, None)
     \/ /\ call[s].stage = "shared"
        /\ LET h == call[s].share IN
           Price(s, "internal", Requester[ShareRequest[h]], call[s].amount, h)
  /\ UNCHANGED <<ledgerVars, requestVars, controlVars, quote, auth, payment, told>>

(* The transaction of CreateQuote.  The caller learns the identity of the  *)
(* quote when the call returns; for a money request that is after a second *)
(* transaction has linked it.                                              *)
StoreQuote(s, q) ==
  /\ call[s].stage = "priced" /\ Live(s) /\ Eligible(Owner(s))
  /\ quote[q] = None
  /\ LET c == call[s].content IN
     /\ quote' = [quote EXCEPT ![q] =
          [owner |-> Owner(s), kind |-> c.kind, payee |-> c.payee, amount |-> c.amount,
           fee |-> c.fee, version |-> c.version, share |-> None,
           used |-> FALSE, expired |-> FALSE, shown |-> c.share = None]]
     /\ call' = [call EXCEPT ![s] = IF c.share = None THEN Idle
                                    ELSE [stage |-> "link", quote |-> q, share |-> c.share]]
  /\ UNCHANGED <<ledgerVars, requestVars, controlVars, auth, payment, told>>

LinkQuote(s) ==
  /\ call[s].stage = "link" /\ Live(s)
  /\ quote' = [quote EXCEPT ![call[s].quote].share = call[s].share,
                            ![call[s].quote].shown = TRUE]
  /\ call' = [call EXCEPT ![s] = Idle]
  /\ UNCHANGED <<ledgerVars, requestVars, controlVars, auth, payment, told>>

(* The process dies, the provider has no price, or a check fails: what the *)
(* call has written stays.                                                 *)
CallEnds(s) ==
  /\ call[s] # Idle
  /\ call' = [call EXCEPT ![s] = Idle]
  /\ UNCHANGED <<ledgerVars, requestVars, controlVars, quote, auth, payment, told>>

-----------------------------------------------------------------------------
(* Authorise: the PIN (and TOTP) were right; the token is good for this    *)
(* quote in this session, for two minutes at most.                         *)
Usable(s, q) ==
  /\ quote[q] # None /\ quote[q].owner = Owner(s) /\ quote[q].shown
  /\ ~quote[q].used /\ ~quote[q].expired
  /\ quote[q].kind = "bill" => product

Authorise(s, q, t) ==
  /\ Live(s) /\ Eligible(Owner(s))
  /\ Usable(s, q)
  /\ auth[t] = None
  /\ auth' = [auth EXCEPT ![t] = [quote |-> q, session |-> s, state |-> "fresh"]]
  /\ UNCHANGED <<ledgerVars, requestVars, controlVars, call, quote, payment, told>>

-----------------------------------------------------------------------------
(* CreatePayment                                                           *)

(* Mutant: any session of the owner may use the token.                     *)
Authorised_AnySession(s, q, t) ==
  /\ auth[t] # None
  /\ auth[t].quote = q /\ auth[t].state = "fresh"

Authorised(s, q, t) ==
  /\ auth[t] # None
  /\ auth[t].quote = q /\ auth[t].session = s /\ auth[t].state = "fresh"

(* Mutant: the version the quote was priced under is not compared.         *)
CurrentTerms_Enabled(q) == policy.enabled

CurrentTerms(q) == policy.enabled /\ quote[q].version = policy.version

KeyHolder(c, k) == {q \in Quotes : Paid(q) /\ quote[q].owner = c /\ payment[q].key = k}

(* The journal of an internal transfer, or the hold (and the job, module   *)
(* PaymentWorker) of a bill.                                               *)
MoveMoney(q) ==
  LET c == quote[q].owner IN
  \/ /\ quote[q].kind = "internal"
     /\ reserved' = reserved
     /\ PostJournal(q, [a \in {c, quote[q].payee, Fees} |->
                          IF a = c THEN -Total(q)
                          ELSE IF a = Fees THEN quote[q].fee ELSE quote[q].amount])
  \/ /\ quote[q].kind = "bill"
     /\ PlaceHold(c, Total(q))
     /\ UNCHANGED <<balance, journals>>

(* An internal transfer is done at once; a bill waits for its worker.      *)
AcceptedStatus(q) == IF quote[q].kind = "internal" THEN "succeeded" ELSE "accepted"

(* One transaction: every check again under the owner's lock, then all of  *)
(* payment, share, quote, authorisation, journal or hold.  It may start    *)
(* before midnight and write its row after it: day is what created_at says. *)
CreatePayment(s, q, t, k, d1, d2, day) ==
  LET c == Owner(s) IN
  /\ Live(s) /\ Eligible(c)
  /\ KeyHolder(c, k) = {}
  /\ Usable(s, q) /\ ~Paid(q)
  /\ Authorised(s, q, t)
  /\ CurrentTerms(q)
  /\ WithinLimits(c, Total(q), d1, d2)
  /\ quote[q].kind = "internal" => Eligible(quote[q].payee)
  /\ Available(c) >= Total(q)
  /\ payment' = [payment EXCEPT ![q] =
       [key |-> k, session |-> s, day |-> day, status |-> AcceptedStatus(q)]]
  /\ IF quote[q].share = None THEN UNCHANGED requestVars
     ELSE ApplyShare(quote[q].share, quote[q].amount, c, quote[q].payee)
  /\ quote' = [quote EXCEPT ![q].used = TRUE]
  /\ auth' = [auth EXCEPT ![t].state = "consumed"]
  /\ MoveMoney(q)
  /\ told' = told \cup {[owner |-> c, key |-> k, asked |-> q, answer |-> q]}
  /\ today' = day
  /\ UNCHANGED <<situation, policy, product, limits, frozen, restricted, revoked, call>>

(* Mutant: the key alone decides, whatever quote is asked for.             *)
SameRequest_KeyOnly(asked, stored) == TRUE

(* request_hash: the key is bound to the quote it was first used with.     *)
SameRequest(asked, stored) == asked = stored

(* A repeated call gets the payment it made, even if the quote has been    *)
(* used, the policy changed or the account frozen since.                   *)
Replay(s, q, k) ==
  /\ Live(s)
  /\ quote[q] # None /\ quote[q].owner = Owner(s) /\ quote[q].shown
  /\ \E p \in KeyHolder(Owner(s), k) :
       /\ SameRequest(q, p)
       /\ told' = told \cup {[owner |-> Owner(s), key |-> k, asked |-> q, answer |-> p]}
  /\ UNCHANGED <<ledgerVars, requestVars, controlVars, call, quote, auth, payment>>

(* What module PaymentWorker promises for an accepted bill: settled, or    *)
(* failed with its hold released.                                          *)
Resolve(q) ==
  /\ Paid(q) /\ payment[q].status = "accepted"
  /\ EndHold(quote[q].owner, Total(q))
  /\ \/ /\ payment' = [payment EXCEPT ![q].status = "succeeded"]
        /\ PostJournal(q, [a \in {quote[q].owner, Clearing} |->
                             IF a = Clearing THEN Total(q) ELSE -Total(q)])
     \/ /\ payment' = [payment EXCEPT ![q].status = "failed"]
        /\ UNCHANGED <<balance, journals>>
  /\ UNCHANGED <<requestVars, controlVars, call, quote, auth, told>>

-----------------------------------------------------------------------------
(* What changes meanwhile                                                  *)

(* An approved policy proposal; with the terms in force also the emergency *)
(* stop and the approved resumption.  Every one of them makes a version.   *)
PolicyChanges ==
  /\ policy.version < situation.maxVersion
  /\ \E terms \in situation.terms, on \in BOOLEAN :
       policy' = [version |-> policy.version + 1, terms |-> terms, enabled |-> on]
  /\ UNCHANGED <<ledgerVars, requestVars, situation, product, limits, frozen, restricted, revoked, today, flowVars>>

ProductChanges ==
  /\ "bill" \in situation.kinds
  /\ product' = ~product
  /\ UNCHANGED <<ledgerVars, requestVars, situation, policy, limits, frozen, restricted, revoked, today, flowVars>>

(* Staff restrict or restore a customer.                                   *)
StandingChanges(c) ==
  /\ restricted' = IF c \in restricted THEN restricted \ {c} ELSE restricted \cup {c}
  /\ UNCHANGED <<ledgerVars, requestVars, situation, policy, product, limits, frozen, revoked, today, flowVars>>

(* ChangeControls, within the account policy of the moment.                *)
ChangeControls(s, l) ==
  /\ Live(s) /\ Eligible(Owner(s))
  /\ l.perPayment <= policy.terms.perPayment /\ l.daily <= policy.terms.daily
  /\ limits' = [limits EXCEPT ![Owner(s)] = l]
  /\ UNCHANGED <<ledgerVars, requestVars, situation, policy, product, frozen, restricted, revoked, today, flowVars>>

(* SecureAccount: freezing also ends the owner's other sessions.           *)
SecureAccount(s) ==
  /\ Live(s)
  /\ IF Owner(s) \in frozen
     THEN frozen' = frozen \ {Owner(s)} /\ UNCHANGED revoked
     ELSE /\ frozen' = frozen \cup {Owner(s)}
          /\ revoked' = revoked \cup ({x \in Sessions : Owner(x) = Owner(s)} \ {s})
  /\ UNCHANGED <<ledgerVars, requestVars, situation, policy, product, limits, restricted, today, flowVars>>

(* The passing of expires_at: a quote's (its authorisations do not outlive *)
(* it), an authorisation's, and of the day.                                *)
QuoteExpires(q) ==
  /\ quote[q] # None /\ ~quote[q].expired /\ ~quote[q].used
  /\ quote' = [quote EXCEPT ![q].expired = TRUE]
  /\ auth' = [t \in Tokens |-> IF auth[t] # None /\ auth[t].quote = q /\ auth[t].state = "fresh"
                               THEN [auth[t] EXCEPT !.state = "expired"] ELSE auth[t]]
  /\ UNCHANGED <<ledgerVars, requestVars, controlVars, call, payment, told>>

AuthorisationExpires(t) ==
  /\ auth[t] # None /\ auth[t].state = "fresh"
  /\ auth' = [auth EXCEPT ![t].state = "expired"]
  /\ UNCHANGED <<ledgerVars, requestVars, controlVars, call, quote, payment, told>>

Midnight ==
  /\ today < situation.lastDay
  /\ today' = today + 1
  /\ UNCHANGED <<ledgerVars, requestVars, situation, policy, product, limits, frozen, restricted, revoked, flowVars>>

(* RequestMoney and MoneyRequestState in the session of the customer.      *)
RequestStep(s) ==
  /\ \/ /\ Live(s)
        /\ \/ \E r \in situation.requests :
                /\ Requester[r] = Owner(s)
                /\ \/ /\ Eligible(Owner(s))
                      /\ \A h \in SharesOf(r) : Eligible(SharePayer[h])
                      /\ RequestMoney(r)
                   \/ CancelRequest(r)
           \/ \E h \in Shares : SharePayer[h] = Owner(s) /\ DeclineShare(h)
     \/ \E r \in Requests : Requester[r] = Owner(s) /\ RequestExpires(r)
  /\ UNCHANGED <<ledgerVars, controlVars, flowVars>>

-----------------------------------------------------------------------------
Init ==
  /\ situation \in Situations
  /\ balance = Opening
  /\ reserved = [c \in Customers |-> 0]
  /\ journals = {}
  /\ RequestInit
  /\ \E terms \in situation.terms : policy = [version |-> 0, terms |-> terms, enabled |-> TRUE]
  /\ product = TRUE
  /\ limits = [c \in Customers |-> None]
  /\ frozen = {} /\ restricted = {} /\ revoked = {}
  /\ today = 0
  /\ call = [s \in Sessions |-> Idle]
  /\ quote = [q \in Quotes |-> None]
  /\ auth = [t \in Tokens |-> None]
  /\ payment = [q \in Quotes |-> None]
  /\ told = {}

SessionStep(s) ==
  \/ \E h \in Shares, amount \in situation.amounts : ReadShare(s, h, amount)
  \/ PriceQuote(s)
  \/ \E q \in Quotes : StoreQuote(s, q)
  \/ LinkQuote(s)
  \/ CallEnds(s)
  \/ \E q \in Quotes, t \in Tokens : Authorise(s, q, t)
  \/ \E q \in Quotes, t \in Tokens, k \in Keys :
       \E day \in today..(IF today < situation.lastDay THEN today + 1 ELSE today) :
         \E d2 \in today..day : \E d1 \in today..d2 : CreatePayment(s, q, t, k, d1, d2, day)
  \/ \E q \in Quotes, k \in Keys : Replay(s, q, k)
  \/ \E l \in situation.limits : ChangeControls(s, l)
  \/ Owner(s) \in situation.disturbed /\ SecureAccount(s)
  \/ RequestStep(s)

Next ==
  \/ \E s \in situation.sessions : SessionStep(s)
  \/ \E q \in Quotes : Resolve(q) \/ QuoteExpires(q)
  \/ \E t \in Tokens : AuthorisationExpires(t)
  \/ PolicyChanges \/ ProductChanges \/ Midnight
  \/ \E c \in situation.disturbed : StandingChanges(c)

Spec == Init /\ [][Next]_vars

-----------------------------------------------------------------------------
(* Properties                                                              *)

(* The variables hold values of their types.                               *)
TypeOK ==
  /\ LedgerTypeOK /\ RequestTypeOK
  /\ journals \subseteq Quotes
  /\ situation \in Situations
  /\ policy \in [version : Nat, terms : Terms, enabled : BOOLEAN]
  /\ product \in BOOLEAN
  /\ limits \in [Customers -> Limits \cup {None}]
  /\ frozen \subseteq Customers /\ restricted \subseteq Customers /\ revoked \subseteq Sessions
  /\ today \in Nat
  /\ call \in [Sessions ->
       {Idle} \cup [stage : {"shared"}, share : Shares, amount : Nat]
              \cup [stage : {"priced"}, content : Content]
              \cup [stage : {"link"}, quote : Quotes, share : Shares]]
  /\ quote \in [Quotes -> {None} \cup QuoteRow]
  /\ auth \in [Tokens -> {None} \cup AuthRow]
  /\ payment \in [Quotes -> {None} \cup PaymentRow]
  /\ told \subseteq [owner : Customers, key : Keys, asked : Quotes, answer : Quotes]

Accepted(q) == payment[q] = None /\ payment'[q] # None

(* A payment is accepted only on the terms in force at that moment, with   *)
(* the fee of these terms, although its quote was priced earlier without   *)
(* a lock; never while payments are stopped; and neither from an owner who *)
(* froze the account or is restricted, nor for a restricted recipient, nor *)
(* in a session that a freeze ended, however early the quote was priced    *)
(* and authorised (CreatePayment against what CreateQuote read).           *)
AcceptedOnCurrentTerms ==
  [][\A q \in Quotes : Accepted(q) =>
       /\ policy.enabled
       /\ Total(q) <= policy.terms.perPayment
       /\ quote[q].kind = "internal" => quote[q].fee = policy.terms.fee
       /\ quote[q].owner \notin frozen \cup restricted
       /\ quote[q].payee \notin restricted
       /\ payment'[q].session \notin revoked]_vars

(* What a customer commits to on one day, failures excepted, is within the *)
(* policy and the personal limit whenever it grows, also when a payment    *)
(* straddles midnight or its siblings are still unsettled.                 *)
Committed(c, day) ==
  Totalled({q \in Quotes : /\ Paid(q) /\ quote[q].owner = c
                           /\ payment[q].day = day /\ payment[q].status # "failed"})

DailyLimitHolds ==
  [][\A c \in Customers, day \in 0..situation.lastDay :
       \/ Committed(c, day)' <= Stricter(c, "daily")
       \/ Committed(c, day)' <= Committed(c, day)]_vars

(* Every payment spent one authorisation, given in the session that made   *)
(* it and for its quote, and every spent authorisation made its payment.   *)
PaidWithOwnAuthorisation ==
  /\ \A q \in Quotes : Paid(q) =>
       \E t \in Tokens : auth[t] = [quote |-> q, session |-> payment[q].session, state |-> "consumed"]
  /\ \A t \in Tokens : auth[t] # None /\ auth[t].state = "consumed" => Paid(auth[t].quote)

(* A customer who repeats a call is told of the payment made for the quote *)
(* he asks for, and of no other under that key.                            *)
AnswersMatchRequests ==
  \A a, b \in told :
    /\ a.asked = a.answer
    /\ a.owner = b.owner /\ a.key = b.key => a.answer = b.answer

PaidFor(h) == {q \in Quotes : Paid(q) /\ quote[q].share = h}

(* A share has received exactly the payments made for it, is paid when     *)
(* they add up to what was asked, and a request is completed when all of   *)
(* its shares are (applyRequestShare, under two quotes for one share).     *)
SharesReceiveTheirPayments ==
  /\ \A h \in Shares :
       /\ share[h].received = SumFunction([q \in PaidFor(h) |-> quote[q].amount])
       /\ share[h].received <= ShareAmount[h]
       /\ share[h].status = "paid" <=> share[h].received = ShareAmount[h]
  /\ \A r \in Requests :
       request[r] = "completed" <=> request[r] # "none" /\ \A h \in SharesOf(r) : share[h].status = "paid"

(* After a request is cancelled, completed or past its expiry, and after a *)
(* payer declined, nothing more is received, although quotes linked before *)
(* are still usable.                                                       *)
ClosedRequestsStayClosed ==
  [][\A h \in Shares :
       LET r == ShareRequest[h] IN
       request[r] # "none" /\ (~Payable(r) \/ share[h].status # "open") =>
         share'[h] = share[h] /\ (~Payable(r) => request'[r] = request[r])]_vars

(* "New payment authorisation/acceptance" is in the blast radius of the    *)
(* emergency stop (admin_commands.go:242).                                 *)
StopEndsAuthorisation ==
  [][\A t \in Tokens : auth[t] = None /\ auth'[t] # None => policy.enabled]_vars
=============================================================================
