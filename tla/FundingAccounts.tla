-------------------------- MODULE FundingAccounts ---------------------------
(***************************************************************************)
(* The funding account of one customer and the workers that provision it   *)
(* (service/funding_accounts.go 60-127).  A worker leases the row, calls   *)
(* the funding gateway outside any transaction, and records the answer in  *)
(* a second one.  The lease is only a minute: another worker may take the  *)
(* row while the first is still in the call.                               *)
(*                                                                         *)
(* The gateway is external: it opens one account per idempotency key when  *)
(* a Provision reaches it, and answers a call as it likes.                 *)
(***************************************************************************)
EXTENDS Integers, FiniteSets

CONSTANTS Workers

VARIABLES
  funding,     \* funding_accounts.state, "none" before the row exists
  leased,      \* funding_accounts.updated_at lies ahead
  round,       \* the local state of each worker's WorkFundingAccount
  opened,      \* the gateway has opened the account
  provisions,  \* history: how often Provision was called
  readyNotice  \* a "funding-account-ready" intent is queued

fundingVars == <<funding, leased, round, opened, provisions, readyNotice>>

NoRound == "idle"
Rounds  == {"idle", "provision", "query", "ready"}

FundingTypeOK ==
  /\ funding \in {"none", "requested", "pending", "active", "disabled"}
  /\ leased \in BOOLEAN
  /\ round \in [Workers -> Rounds]
  /\ opened \in BOOLEAN
  /\ provisions \in Nat
  /\ readyNotice \in BOOLEAN

FundingInit ==
  /\ funding = "none" /\ leased = FALSE
  /\ round = [w \in Workers |-> NoRound]
  /\ opened = FALSE /\ provisions = 0
  /\ readyNotice = FALSE

(* ON CONFLICT(owner_id) DO NOTHING: a second request changes nothing.     *)
RequestFundingAccount ==
  /\ funding = "none"
  /\ funding' = "requested"
  /\ UNCHANGED <<leased, round, opened, provisions, readyNotice>>

(* Mutant: a row that is pending is provisioned again, not asked about.    *)
CallFor_Again(state) == "provision"

CallFor(state) == IF state = "requested" THEN "provision" ELSE "query"

LeaseFunding(w) ==
  /\ round[w] = NoRound
  /\ funding \in {"requested", "pending"} /\ ~leased
  /\ round' = [round EXCEPT ![w] = CallFor(funding)]
  /\ funding' = "pending"
  /\ leased' = TRUE
  /\ UNCHANGED <<opened, provisions, readyNotice>>

FundingLeaseLapses ==
  /\ leased
  /\ leased' = FALSE
  /\ UNCHANGED <<funding, round, opened, provisions, readyNotice>>

(* Provision reaches the gateway (opened) or is lost on its way.           *)
GatewayReceives(w) ==
  /\ round[w] = "provision"
  /\ round' = [round EXCEPT ![w] = "query"]
  /\ opened' \in {opened, TRUE}
  /\ provisions' = provisions + 1
  /\ UNCHANGED <<funding, leased, readyNotice>>

(* The gateway says that the account is active, with all its details.      *)
GatewayConfirms(w) ==
  /\ round[w] = "query" /\ opened
  /\ round' = [round EXCEPT ![w] = "ready"]
  /\ UNCHANGED <<funding, leased, opened, provisions, readyNotice>>

(* The call fails, is refused or answers "not yet"; the process dies.      *)
RoundEnds(w) ==
  /\ round[w] # NoRound
  /\ round' = [round EXCEPT ![w] = NoRound]
  /\ UNCHANGED <<funding, leased, opened, provisions, readyNotice>>

(* Mutant: the row is updated by its id alone.                             *)
StateRecorded_Any == "active"

StateRecorded == IF funding = "pending" THEN "active" ELSE funding

(* The notice is queued even if no row was updated; its key is unique.     *)
RecordReady(w) ==
  /\ round[w] = "ready"
  /\ funding' = StateRecorded
  /\ readyNotice' = TRUE
  /\ round' = [round EXCEPT ![w] = NoRound]
  /\ UNCHANGED <<leased, opened, provisions>>

FundingWorker(w) ==
  LeaseFunding(w) \/ GatewayReceives(w) \/ GatewayConfirms(w) \/ RoundEnds(w) \/ RecordReady(w)
=============================================================================
