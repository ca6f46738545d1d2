---------------------------- MODULE MoneyRequests ----------------------------
(***************************************************************************)
(* Requests for money and their shares (service/money_requests.go).  A     *)
(* request asks several customers for a share each; a share is paid by one *)
(* or more internal payments that were quoted for it.  Module Checkout     *)
(* makes those payments and composes these operators into its actions.     *)
(*                                                                         *)
(* Each operator is the part of a transaction that runs under the lock of  *)
(* the request's row.  The attributes of a request never change and are    *)
(* constants; its reminders only send notifications and are left out.      *)
(***************************************************************************)
EXTENDS Ledger

CONSTANTS Requests, Shares,
          Requester,     \* request -> the customer who asks
          ShareRequest,  \* share -> its request
          SharePayer,    \* share -> the customer who is asked
          ShareAmount    \* share -> what is asked of him

SharesOf(r) == {h \in Shares : ShareRequest[h] = r}

(* RequestMoney wants 1 to 20 shares and refuses a share of zero, of the   *)
(* requester himself, and a second share of one payer.                     *)
ASSUME ShareAssumption ==
  /\ Requester \in [Requests -> Customers]
  /\ ShareRequest \in [Shares -> Requests]
  /\ SharePayer \in [Shares -> Customers]
  /\ ShareAmount \in [Shares -> Nat \ {0}]
  /\ \A r \in Requests : SharesOf(r) # {}
  /\ \A h \in Shares : SharePayer[h] # Requester[ShareRequest[h]]
  /\ \A h, i \in Shares :
       ShareRequest[h] = ShareRequest[i] /\ SharePayer[h] = SharePayer[i] => h = i

VARIABLES request,   \* money_requests.status, "none" before the row exists
          overdue,   \* requests whose expires_at has passed
          share      \* the request_shares rows

requestVars == <<request, overdue, share>>

ShareRow == [status : {"open", "declined", "paid"}, received : Nat]

RequestTypeOK ==
  /\ request \in [Requests -> {"none", "open", "cancelled", "completed"}]
  /\ overdue \subseteq Requests
  /\ share \in [Shares -> ShareRow]

RequestInit ==
  /\ request = [r \in Requests |-> "none"]
  /\ overdue = {}
  /\ share = [h \in Shares |-> [status |-> "open", received |-> 0]]

(* "status = open AND expires_at > now": a request that may still change.  *)
Payable(r) == request[r] = "open" /\ r \notin overdue
Remaining(h) == ShareAmount[h] - share[h].received

RequestMoney(r) ==
  /\ request[r] = "none"
  /\ request' = [request EXCEPT ![r] = "open"]
  /\ UNCHANGED <<overdue, share>>

RequestExpires(r) ==
  /\ Payable(r)
  /\ overdue' = overdue \cup {r}
  /\ UNCHANGED <<request, share>>

(* MoneyRequestState: the requester cancels, or a payer declines his share, *)
(* also after he paid a part of it.                                        *)
CancelRequest(r) ==
  /\ Payable(r)
  /\ request' = [request EXCEPT ![r] = "cancelled"]
  /\ UNCHANGED <<overdue, share>>

DeclineShare(h) ==
  /\ Payable(ShareRequest[h])
  /\ share[h].status = "open"
  /\ share' = [share EXCEPT ![h].status = "declined"]
  /\ UNCHANGED <<request, overdue>>

Received(h, amount) ==
  [share EXCEPT ![h].received = @ + amount,
                ![h].status = IF amount = Remaining(h) THEN "paid" ELSE "open"]

FullyPaid(shares, r) == \A h \in SharesOf(r) : shares[h].received >= ShareAmount[h]

(* Mutant: what the quote was linked under is not checked again.           *)
ApplyShare_Trusts(h, amount, payer, payee) ==
  /\ payer = SharePayer[h] /\ amount <= Remaining(h)
  /\ share' = Received(h, amount)
  /\ request' = IF FullyPaid(share', ShareRequest[h])
                THEN [request EXCEPT ![ShareRequest[h]] = "completed"] ELSE request
  /\ UNCHANGED overdue

(* Mutant: the request completes when the share at hand is paid.           *)
ApplyShare_Completes(h, amount, payer, payee) ==
  /\ Payable(ShareRequest[h]) /\ payee = Requester[ShareRequest[h]]
  /\ payer = SharePayer[h] /\ share[h].status = "open" /\ amount <= Remaining(h)
  /\ share' = Received(h, amount)
  /\ request' = IF share'[h].status = "paid"
                THEN [request EXCEPT ![ShareRequest[h]] = "completed"] ELSE request
  /\ UNCHANGED overdue

(* applyRequestShare: the payment of a linked quote counts towards its     *)
(* share if request and share are still open for that much; otherwise the  *)
(* whole payment is refused.                                               *)
ApplyShare(h, amount, payer, payee) ==
  /\ Payable(ShareRequest[h]) /\ payee = Requester[ShareRequest[h]]
  /\ payer = SharePayer[h] /\ share[h].status = "open" /\ amount <= Remaining(h)
  /\ share' = Received(h, amount)
  /\ request' = IF FullyPaid(share', ShareRequest[h])
                THEN [request EXCEPT ![ShareRequest[h]] = "completed"] ELSE request
  /\ UNCHANGED overdue
=============================================================================
