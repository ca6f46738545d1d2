---------------------------- MODULE PaymentWorker ----------------------------
(***************************************************************************)
(* Execution of accepted payments (service/worker.go) together with what   *)
(* feeds it: CreatePayment's financial effects (payments.go 537-592),      *)
(* CreditFunding (payments.go 608-650) and the staff requery (retryJob,    *)
(* operations.go 426-456).                                                 *)
(*                                                                         *)
(* Several worker processes run WorkPayment.  One round is: lease a job in *)
(* a first transaction, inspect the payment and mark the submission in a   *)
(* second, call the provider with no transaction open, and apply the       *)
(* answer in a third.  A worker may die, or outlive its lease, between any *)
(* two of these; every transaction is one action because it locks the      *)
(* owner, the payment and the job before it reads them.                    *)
(*                                                                         *)
(* Abstractions.  The random lease token is the identity of the worker     *)
(* that drew it: a worker holds one job at a time, so the token it last    *)
(* drew is the only one it can present.  Wall-clock time appears only as   *)
(* the lapse of a lease; retryDelay is left out, a queued job may be       *)
(* leased at any later moment.  A saturating attempt counter stands for    *)
(* jobs.attempts, which the code only compares with its limit.             *)
(***************************************************************************)
EXTENDS Ledger, FiniteSets, Functions

CONSTANTS Payments,      \* identities of the payments that may be created
          Workers,       \* worker processes
          Fundings,      \* verified funding evidence (source and reference)
          None,          \* no lease token
          Kind,          \* payment -> "internal", "bank" or "bill"
          Payer,         \* payment -> owner
          Payee,         \* payment -> recipient of an internal transfer
          Amount, Fee,   \* payment -> money
          FundedTo, FundedAmount, \* funding -> owner, money
          MaxAttempts    \* attempts after which a job is parked (30)

Total(p)   == Amount[p] + Fee[p]
External   == {p \in Payments : Kind[p] # "internal"}
Bills      == {p \in Payments : Kind[p] = "bill"}

ASSUME PaymentAssumption ==
  /\ Kind \in [Payments -> {"internal", "bank", "bill"}]
  /\ Payer \in [Payments -> Customers]
  /\ Payee \in [Payments -> Customers]
  /\ \A p \in Payments : Kind[p] = "internal" => Payee[p] # Payer[p]
  /\ Amount \in [Payments -> Nat \ {0}]
  /\ Fee \in [Payments -> Nat]

ASSUME FundingAssumption ==
  /\ FundedTo \in [Fundings -> Customers]
  /\ FundedAmount \in [Fundings -> Nat \ {0}]
  /\ Fundings \cap Payments = {}

ASSUME WorkerAssumption == None \notin Workers /\ MaxAttempts \in Nat \ {0}

VARIABLES
  status,      \* payments.status, "none" before the row exists
  fulfilment,  \* payments.fulfilment_status
  hold,        \* holds.status, "none" before the row exists
  job,         \* the jobs row of each external payment
  standing,    \* may the customer spend: eligible and not frozen
  worker,      \* local state of each WorkPayment call
  wire,        \* submissions in transit to the provider
  order,       \* what the provider did with the payment's reference
  delivered,   \* bills whose purchased value the provider released
  sends        \* history: Gateway.Submit calls made for each payment

rows  == <<status, fulfilment, hold, job, balance, reserved, journals>>
provider == <<wire, order, delivered>>
vars  == <<rows, standing, worker, provider, sends>>

Terminal   == {"succeeded", "failed"}
Unsettled  == {"accepted", "submitted", "pending", "pending_review"}
Statuses   == {"none"} \cup Unsettled \cup Terminal
Results    == [status : {"pending", "succeeded", "failed", "review"}, fulfilled : BOOLEAN]
NoResult   == [status |-> "pending", fulfilled |-> FALSE]
JobRow     == [status : {"none", "queued", "leased", "done", "dead"}, attempts : 0..MaxAttempts,
               token : Workers \cup {None}, lapsed : BOOLEAN]
NoJob     == [status |-> "none", attempts |-> 0, token |-> None, lapsed |-> FALSE]
NewJob    == [status |-> "queued", attempts |-> 0, token |-> None, lapsed |-> FALSE]
Idle       == [stage |-> "idle"]
Stages     == {"leased", "submit", "submitting", "query", "answered", "unresolved"}
Round      == [stage : Stages, payment : Payments, attempt : 1..MaxAttempts, result : Results]

-----------------------------------------------------------------------------
(* The three kinds of journal                                              *)

InternalEntries(p) ==
  [a \in {Payer[p], Payee[p], Fees} |->
     IF a = Payer[p] THEN -Total(p) ELSE IF a = Payee[p] THEN Amount[p] ELSE Fee[p]]

(* Mutant: the fee is reserved but never posted.                           *)
ExternalEntries_NoFee(p) ==
  [a \in {Payer[p], Clearing} |-> IF a = Clearing THEN Amount[p] ELSE -Amount[p]]

ExternalEntries(p) ==
  [a \in {Payer[p], Clearing} |-> IF a = Clearing THEN Total(p) ELSE -Total(p)]

FundingEntries(f) ==
  [a \in {FundedTo[f], Clearing} |-> IF a = Clearing THEN -FundedAmount[f] ELSE FundedAmount[f]]

-----------------------------------------------------------------------------
(* Requests that create work                                               *)

(* CreatePayment once every check on quote, authorisation, policy and      *)
(* limits has passed (module Checkout): the payment row, and either the    *)
(* journal of an internal transfer or the hold and the job of an external  *)
(* one, in one transaction.                                                *)
CreateInternal(p) ==
  /\ Kind[p] = "internal"
  /\ standing[Payee[p]] # "restricted"
  /\ status' = [status EXCEPT ![p] = "succeeded"]
  /\ reserved' = reserved
  /\ PostJournal(p, InternalEntries(p))
  /\ UNCHANGED <<hold, job, fulfilment>>

CreateExternal(p) ==
  /\ p \in External
  /\ status' = [status EXCEPT ![p] = "accepted"]
  /\ fulfilment' = [fulfilment EXCEPT ![p] = IF p \in Bills THEN "pending" ELSE "not_applicable"]
  /\ hold' = [hold EXCEPT ![p] = "active"]
  /\ PlaceHold(Payer[p], Total(p))
  /\ job' = [job EXCEPT ![p] = NewJob]
  /\ UNCHANGED <<balance, journals>>

CreatePayment(p) ==
  /\ status[p] = "none"
  /\ standing[Payer[p]] = "clear"
  /\ Available(Payer[p]) >= Total(p)
  /\ CreateInternal(p) \/ CreateExternal(p)
  /\ UNCHANGED <<standing, worker, provider, sends>>

(* CreditFunding: the reference is the journal's, so evidence delivered    *)
(* again finds its row and changes nothing.                                *)
CreditFunding(f) ==
  /\ reserved' = reserved
  /\ PostJournal(f, FundingEntries(f))
  /\ UNCHANGED <<status, fulfilment, hold, job, standing, worker, provider, sends>>

(* The customer freezes or unfreezes spending; staff restrict or restore   *)
(* the account.  A restricted account is not eligible, frozen or not.      *)
StandingChanges(c) ==
  /\ \E s \in {"clear", "frozen", "restricted"} \ {standing[c]} :
       standing' = [standing EXCEPT ![c] = s]
  /\ UNCHANGED <<rows, worker, provider, sends>>

(* retryJob: finance staff put a parked job back, at attempt zero and with *)
(* no token, so that a worker still out with an old lease is superseded.   *)
RetryJob(p) ==
  /\ status[p] \in {"pending", "submitted", "succeeded"}
  /\ job[p].status = "dead"
  /\ job' = [job EXCEPT ![p] = NewJob]
  /\ UNCHANGED <<status, fulfilment, hold, ledgerVars, standing, worker, provider, sends>>

-----------------------------------------------------------------------------
(* WorkPayment, first transaction: lease a due job or one whose lease ran out *)

Saturate(n) == IF n >= MaxAttempts THEN MaxAttempts ELSE n

Lease(w, p) ==
  /\ worker[w] = Idle
  /\ \/ job[p].status = "queued"
     \/ job[p].status = "leased" /\ job[p].lapsed
  /\ LET attempt == Saturate(job[p].attempts + 1) IN
     /\ job' = [job EXCEPT ![p] = [status |-> "leased", attempts |-> attempt,
                                   token |-> w, lapsed |-> FALSE]]
     /\ worker' = [worker EXCEPT ![w] = [stage |-> "leased", payment |-> p,
                                         attempt |-> attempt, result |-> NoResult]]
  /\ UNCHANGED <<status, fulfilment, hold, ledgerVars, standing, provider, sends>>

(* The lease passes its lease_until: 90 seconds went by.                   *)
LeaseLapses(p) ==
  /\ job[p].status = "leased" /\ ~job[p].lapsed
  /\ job' = [job EXCEPT ![p].lapsed = TRUE]
  /\ UNCHANGED <<status, fulfilment, hold, ledgerVars, standing, worker, provider, sends>>

(* The process dies, is stopped, or its transaction fails: the round is    *)
(* forgotten and only the database remembers it.                           *)
Crash(w) ==
  /\ worker[w] # Idle
  /\ worker' = [worker EXCEPT ![w] = Idle]
  /\ UNCHANGED <<rows, standing, provider, sends>>

-----------------------------------------------------------------------------
(* WorkPayment, second transaction: inspect the payment and mark a         *)
(* submission before it is made                                            *)

Finish(w) == worker' = [worker EXCEPT ![w] = Idle]
JobBecomes(p, s) == job' = [job EXCEPT ![p] = [@ EXCEPT !.status = s, !.lapsed = FALSE]]
StillLeased(w, p) == job[p].token = w /\ ~job[p].lapsed

(* The token was replaced or lease_until has passed: "worker lease no      *)
(* longer owned".                                                          *)
BeginLost(w, p) ==
  /\ ~StillLeased(w, p)
  /\ Finish(w)
  /\ UNCHANGED <<rows, sends>>

(* The rounds that end without a provider call: nothing is left to do; the *)
(* payment awaits review; or its owner was restricted, or froze spending,  *)
(* between acceptance and submission, and the payment goes to review.      *)
Complete(p) == \/ status[p] = "failed"
               \/ status[p] = "succeeded" /\ fulfilment[p] # "pending"
Withheld(p) == status[p] = "accepted" /\ standing[Payer[p]] # "clear"

BeginSkip(w, p) ==
  /\ StillLeased(w, p)
  /\ Complete(p) \/ status[p] = "pending_review" \/ Withheld(p)
  /\ status' = IF Withheld(p) THEN [status EXCEPT ![p] = "pending_review"] ELSE status
  /\ JobBecomes(p, IF Complete(p) THEN "done" ELSE "dead")
  /\ Finish(w)
  /\ UNCHANGED <<fulfilment, hold, ledgerVars, sends>>

(* Mutant: an unresolved submission is sent again.                         *)
Unsent_Resends(p) == status[p] \in {"accepted", "pending"}

(* Only a payment that was never marked is submitted.                      *)
Unsent(p) == status[p] = "accepted"

BeginSubmit(w, p) ==
  /\ StillLeased(w, p)
  /\ Unsent(p) /\ standing[Payer[p]] = "clear"
  /\ status' = [status EXCEPT ![p] = "submitted"]
  /\ worker' = [worker EXCEPT ![w].stage = "submit"]
  /\ UNCHANGED <<fulfilment, hold, job, ledgerVars, sends>>

BeginQuery(w, p) ==
  /\ StillLeased(w, p)
  /\ \/ status[p] \in {"submitted", "pending"}
     \/ status[p] = "succeeded" /\ fulfilment[p] = "pending"
  /\ worker' = [worker EXCEPT ![w].stage = "query"]
  /\ UNCHANGED <<rows, sends>>

Begin(w) ==
  /\ worker[w].stage = "leased"
  /\ LET p == worker[w].payment IN
     BeginLost(w, p) \/ BeginSkip(w, p) \/ BeginSubmit(w, p) \/ BeginQuery(w, p)
  /\ UNCHANGED <<standing, provider>>

-----------------------------------------------------------------------------
(* The provider call, made with no transaction open                        *)

SendSubmission(w) ==
  /\ worker[w].stage = "submit"
  /\ LET p == worker[w].payment IN
     /\ wire' = wire \cup {p}
     /\ sends' = [sends EXCEPT ![p] = @ + 1]
  /\ worker' = [worker EXCEPT ![w].stage = "submitting"]
  /\ UNCHANGED <<rows, standing, order, delivered>>

(* What the provider reports of an order it knows.                         *)
Report(p) ==
  CASE order[p] = "open" -> "pending"
    [] order[p] = "settled" -> "succeeded"
    [] order[p] \in {"refused", "reversed"} -> "failed"

(* A reply: the report of the order; to a submission possibly only the     *)
(* acknowledgement; or evidence that does not match the payment's          *)
(* reference, amount or currency.                                          *)
Replies(w, p) ==
  {[status |-> Report(p), fulfilled |-> order[p] = "settled" /\ p \in delivered]}
  \cup {[status |-> "review", fulfilled |-> FALSE]}
  \cup (IF worker[w].stage = "submitting" THEN {NoResult} ELSE {})

ProviderReplies(w) ==
  /\ worker[w].stage \in {"submitting", "query"}
  /\ LET p == worker[w].payment IN
     /\ order[p] # "unknown"
     /\ \E r \in Replies(w, p) :
          worker' = [worker EXCEPT ![w] = [@ EXCEPT !.stage = "answered", !.result = r]]
  /\ UNCHANGED <<rows, standing, provider, sends>>

(* The call errs: refused connection, timeout, lost or unreadable reply,   *)
(* or a query that does not find the operation.                            *)
CallFails(w) ==
  /\ worker[w].stage \in {"submit", "submitting", "query"}
  /\ worker' = [worker EXCEPT ![w].stage = "unresolved"]
  /\ UNCHANGED <<rows, standing, provider, sends>>

-----------------------------------------------------------------------------
(* Third transaction: retryPayment after an error, applyResult after an answer *)

HasToken(w, p) == job[p].token = w

(* Mutant: a job is put back for ever.                                     *)
Requeued_Forever(w) == IF worker[w].attempt >= MaxAttempts THEN "queued" ELSE "queued"

(* What becomes of a job that must be tried again.                         *)
Requeued(w) == IF worker[w].attempt >= MaxAttempts THEN "dead" ELSE "queued"

(* Mutant: an unresolved call counts as a failure.                         *)
StatusAfterError_Fails(p) ==
  IF status[p] \in {"accepted", "submitted", "pending"}
  THEN [status EXCEPT ![p] = "failed"] ELSE status

(* An error says nothing about the outcome.                                *)
StatusAfterError(p) ==
  IF status[p] \in {"accepted", "submitted", "pending"}
  THEN [status EXCEPT ![p] = "pending"] ELSE status

RetryPayment(w) ==
  /\ worker[w].stage = "unresolved"
  /\ LET p == worker[w].payment IN
     \/ /\ ~HasToken(w, p)
        /\ UNCHANGED <<status, job>>
     \/ /\ HasToken(w, p)
        /\ status' = StatusAfterError(p)
        /\ JobBecomes(p, Requeued(w))
  /\ Finish(w)
  /\ UNCHANGED <<fulfilment, hold, ledgerVars, standing, provider, sends>>

(* Evidence that contradicts the payment: funds stay held for staff.       *)
Contradicts(p, r) ==
  \/ r.status = "review"
  \/ status[p] = "succeeded" /\ r.status = "failed"
  \/ status[p] = "failed" /\ r.status = "succeeded"

(* Mutant: contrary evidence reopens a payment that was already decided.   *)
ApplyConflict_Reopens(p, r) ==
  /\ Contradicts(p, r)
  /\ status' = [status EXCEPT ![p] = "pending_review"]
  /\ JobBecomes(p, "dead")
  /\ UNCHANGED <<fulfilment, hold, ledgerVars>>

ApplyConflict(p, r) ==
  /\ Contradicts(p, r)
  /\ status' = IF status[p] \in Terminal THEN status ELSE [status EXCEPT ![p] = "pending_review"]
  /\ JobBecomes(p, "dead")
  /\ UNCHANGED <<fulfilment, hold, ledgerVars>>

ApplyPending(w, p, r) ==
  /\ r.status = "pending"
  /\ status' = IF status[p] \in Terminal THEN status ELSE [status EXCEPT ![p] = "pending"]
  /\ JobBecomes(p, Requeued(w))
  /\ UNCHANGED <<fulfilment, hold, ledgerVars>>

(* The outcome: the hold ends, a success posts the journal.                *)
Settle(p, r) ==
  IF status[p] \in Terminal
  THEN UNCHANGED <<status, hold, ledgerVars>>
  ELSE /\ hold[p] = "active"
       /\ hold' = [hold EXCEPT ![p] = IF r.status = "succeeded" THEN "captured" ELSE "released"]
       /\ EndHold(Payer[p], Total(p))
       /\ IF r.status = "succeeded"
          THEN PostJournal(p, ExternalEntries(p))
          ELSE UNCHANGED <<balance, journals>>
       /\ status' = [status EXCEPT ![p] = r.status]

(* A paid bill whose value has not come keeps its job.                     *)
Fulfil(w, p, r) ==
  IF p \in Bills /\ r.status = "succeeded" /\ fulfilment[p] # "ready"
  THEN IF r.fulfilled
       THEN fulfilment' = [fulfilment EXCEPT ![p] = "ready"] /\ JobBecomes(p, "done")
       ELSE UNCHANGED fulfilment /\ JobBecomes(p, Requeued(w))
  ELSE UNCHANGED fulfilment /\ JobBecomes(p, "done")

ApplyOutcome(w, p, r) ==
  /\ r.status \in Terminal
  /\ ~Contradicts(p, r)
  /\ Settle(p, r)
  /\ Fulfil(w, p, r)

ApplyResult(w) ==
  /\ worker[w].stage = "answered"
  /\ LET p == worker[w].payment
         r == worker[w].result IN
     \/ ~HasToken(w, p) /\ UNCHANGED rows
     \/ /\ HasToken(w, p)
        /\ ApplyConflict(p, r) \/ ApplyPending(w, p, r) \/ ApplyOutcome(w, p, r)
  /\ Finish(w)
  /\ UNCHANGED <<standing, provider, sends>>

-----------------------------------------------------------------------------
(* The provider (external): it keeps one order per reference, because      *)
(* every submission carries the payment id as idempotency key              *)

ReceiveSubmission(p) ==
  /\ p \in wire
  /\ wire' = wire \ {p}
  /\ order' = IF order[p] = "unknown" THEN [order EXCEPT ![p] = "open"] ELSE order
  /\ UNCHANGED <<rows, standing, worker, delivered, sends>>

LoseSubmission(p) ==
  /\ p \in wire
  /\ wire' = wire \ {p}
  /\ UNCHANGED <<rows, standing, worker, order, delivered, sends>>

Execute(p) ==
  /\ order[p] = "open"
  /\ \E o \in {"settled", "refused"} : order' = [order EXCEPT ![p] = o]
  /\ UNCHANGED <<rows, standing, worker, wire, delivered, sends>>

Deliver(p) ==
  /\ p \in Bills /\ order[p] = "settled" /\ p \notin delivered
  /\ delivered' = delivered \cup {p}
  /\ UNCHANGED <<rows, standing, worker, wire, order, sends>>

(* A settled transfer comes back, or a settled bill is reversed.           *)
Reverse(p) ==
  /\ order[p] = "settled"
  /\ order' = [order EXCEPT ![p] = "reversed"]
  /\ UNCHANGED <<rows, standing, worker, wire, delivered, sends>>

-----------------------------------------------------------------------------
Init ==
  /\ LedgerInit
  /\ status = [p \in Payments |-> "none"]
  /\ fulfilment = [p \in Payments |-> "not_applicable"]
  /\ hold = [p \in Payments |-> "none"]
  /\ job = [p \in Payments |-> NoJob]
  /\ standing = [c \in Customers |-> "clear"]
  /\ worker = [w \in Workers |-> Idle]
  /\ wire = {} /\ delivered = {}
  /\ order = [p \in Payments |-> "unknown"]
  /\ sends = [p \in Payments |-> 0]

WorkerStep(w) ==
  \/ Begin(w) \/ SendSubmission(w) \/ ProviderReplies(w) \/ CallFails(w)
  \/ RetryPayment(w) \/ ApplyResult(w)

ProviderStep(p) ==
  ReceiveSubmission(p) \/ LoseSubmission(p) \/ Execute(p) \/ Deliver(p) \/ Reverse(p)

Next ==
  \/ \E p \in Payments : CreatePayment(p) \/ RetryJob(p) \/ LeaseLapses(p) \/ ProviderStep(p)
  \/ \E f \in Fundings : CreditFunding(f)
  \/ \E c \in Customers : StandingChanges(c)
  \/ \E w \in Workers : Crash(w) \/ WorkerStep(w)
  \/ \E w \in Workers, p \in Payments : Lease(w, p)

Spec == Init /\ [][Next]_vars

(* Fairness.  The worker loop polls every second and a job that was put    *)
(* back is ordered behind the others, so no due job is passed over for     *)
(* ever; the provider call is bounded by 65 of the lease's 90 seconds, so  *)
(* lapses and crashes do not defeat every single round.                    *)
Holds(w, p) == worker[w] # Idle /\ worker[w].payment = p /\ HasToken(w, p)

Fairness ==
  /\ \A w \in Workers : WF_vars(WorkerStep(w))
  /\ \A p \in External :
    /\ WF_vars(LeaseLapses(p))
    /\ SF_vars(\E w \in Workers : Lease(w, p))
    /\ SF_vars(\E w \in Workers : Holds(w, p) /\ ~job[p].lapsed /\ Begin(w))
    /\ SF_vars(\E w \in Workers : /\ Holds(w, p)
                                  /\ SendSubmission(w) \/ ProviderReplies(w) \/ CallFails(w))
    /\ SF_vars(\E w \in Workers : Holds(w, p) /\ (RetryPayment(w) \/ ApplyResult(w)))

FairSpec == Spec /\ Fairness

-----------------------------------------------------------------------------
(* Properties                                                              *)

(* The variables hold values of their types; a job row exists exactly for  *)
(* the external payments that were created.                                *)
TypeOK ==
  /\ LedgerTypeOK
  /\ journals \subseteq Payments \cup Fundings
  /\ status \in [Payments -> Statuses]
  /\ fulfilment \in [Payments -> {"not_applicable", "pending", "ready"}]
  /\ hold \in [Payments -> {"none", "active", "captured", "released"}]
  /\ job \in [Payments -> JobRow]
  /\ standing \in [Customers -> {"clear", "frozen", "restricted"}]
  /\ worker \in [Workers -> Round \cup {Idle}]
  /\ wire \subseteq Payments
  /\ order \in [Payments -> {"unknown", "open", "settled", "refused", "reversed"}]
  /\ delivered \subseteq Payments
  /\ sends \in [Payments -> Nat]

(* However many workers die or lose their lease around the provider call,  *)
(* no payment is ever submitted to the provider a second time ("It never   *)
(* resubmits a previously marked submission", worker.go:13).               *)
SubmittedAtMostOnce == \A p \in Payments : sends[p] <= 1

(* The hold of an external payment tells where its money is: active while  *)
(* the outcome is open or in review, captured on success, released on      *)
(* failure (CreatePayment, applyResult).                                   *)
HoldFollowsStatus ==
  \A p \in External :
    /\ hold[p] = "none" <=> status[p] = "none"
    /\ hold[p] = "active" <=> status[p] \in Unsettled
    /\ hold[p] = "captured" <=> status[p] = "succeeded"
    /\ hold[p] = "released" <=> status[p] = "failed"

(* A job is done only when nothing remains to be done, is live only while  *)
(* something remains, and is parked only after its payment was marked for  *)
(* submission or sent to review, so a staff requeue can cause a query but  *)
(* never a first submission (retryJob, operations.go:443).                 *)
JobMirrorsPayment ==
  \A p \in External :
    /\ job[p].status = "none" => status[p] = "none"
    /\ job[p].status = "done" => Complete(p)
    /\ job[p].status = "dead" => status[p] \notin {"none", "accepted"} /\ ~Complete(p)
    /\ job[p].status \in {"queued", "leased"} =>
         status[p] \notin {"none", "pending_review"} /\ ~Complete(p)

(* Money is captured only for an order the provider settled and released   *)
(* only for one that it refused or returned: no late, lost or duplicated   *)
(* answer gives a customer back money the provider may still pay out.      *)
OutcomeHasEvidence ==
  \A p \in External :
    /\ status[p] = "succeeded" => order[p] \in {"settled", "reversed"}
    /\ status[p] = "failed" => order[p] \in {"refused", "reversed"}

(* The facts the properties above rest on, for every worker and payment.   *)
(* A worker that still presents the job's token finds the job leased: so   *)
(* an answer is applied only while nobody else decided about the payment.  *)
LeaseInv ==
  \A w \in Workers : worker[w] # Idle =>
    LET p == worker[w].payment IN
    /\ job[p].status # "none"
    /\ HasToken(w, p) => job[p].status = "leased"

(* The submitted mark is taken by one worker, which has not sent yet.      *)
SubmissionInv ==
  /\ \A p \in Payments :
       /\ sends[p] \in {0, 1}
       /\ status[p] \in {"none", "accepted"} => sends[p] = 0
       /\ p \in wire \/ order[p] # "unknown" => sends[p] = 1
  /\ \A w \in Workers : worker[w].stage = "submit" =>
       sends[worker[w].payment] = 0 /\ status[worker[w].payment] # "accepted"
  /\ \A w, v \in Workers :
       worker[w].stage = "submit" /\ worker[v].stage = "submit"
       /\ worker[w].payment = worker[v].payment => w = v

(* An answer in a worker's hands agrees with what the provider did.        *)
EvidenceInv ==
  \A w \in Workers : worker[w].stage = "answered" =>
    LET p == worker[w].payment
        r == worker[w].result
    IN /\ r.status = "succeeded" => order[p] \in {"settled", "reversed"}
       /\ r.status = "failed" => order[p] \in {"refused", "reversed"}

(* Journals, jobs and fulfilment belong to the payments that may have them. *)
RowsInv ==
  \A p \in Payments :
    /\ p \in journals <=> status[p] = "succeeded"
    /\ p \notin External => status[p] \in {"none", "succeeded"} /\ job[p].status = "none"
    /\ fulfilment[p] = "pending" => p \in Bills
    /\ p \in Bills /\ status[p] # "none" => fulfilment[p] # "not_applicable"

IInv ==
  /\ TypeOK /\ LeaseInv /\ SubmissionInv /\ EvidenceInv /\ RowsInv
  /\ HoldFollowsStatus /\ JobMirrorsPayment /\ OutcomeHasEvidence

(* The rows the balances are made of: succeeded payments, active holds,    *)
(* credited funding; and what they add up to.                              *)
Paid(S)     == {p \in S : status[p] = "succeeded"}
Held(c)     == {p \in External : Payer[p] = c /\ hold[p] = "active"}
TotalOf     == [p \in Payments |-> Total(p)]
FundedBy(S) == SumFunctionOnSet(FundedAmount, S \cap journals)

PaysFrom(c) == {p \in Payments : Payer[p] = c}
PaysTo(c)   == {p \in Payments \ External : Payee[p] = c}
Funds(c)    == {f \in Fundings : FundedTo[f] = c}

(* Every balance is what the funding evidence and the succeeded payments   *)
(* make it: no payment debits its payer twice, none debits him for a       *)
(* failure, and what leaves one account arrives in another.  What is       *)
(* reserved in a wallet is the sum of its active holds, in whatever order  *)
(* they are placed and ended (apply_posting, apply_hold, schema.sql).      *)
BalancesFollowOutcomes ==
  /\ \A c \in Customers :
       /\ balance[c] = FundedBy(Funds(c)) - SumFunctionOnSet(TotalOf, Paid(PaysFrom(c)))
                       + SumFunctionOnSet(Amount, Paid(PaysTo(c)))
       /\ reserved[c] = SumFunctionOnSet(TotalOf, Held(c))
  /\ balance[Clearing] = SumFunctionOnSet(TotalOf, Paid(External)) - FundedBy(Fundings)
  /\ balance[Fees] = SumFunctionOnSet(Fee, Paid(Payments \ External))

(* Once a payment is in review it stays there with its money held, also    *)
(* when an answer to an earlier call arrives late ("Provider conflict:     *)
(* retain hold and escalate", docs/OPERATIONS.md).                         *)
ReviewRetainsFunds ==
  [][\A p \in Payments : status[p] = "pending_review" =>
       status'[p] = "pending_review" /\ hold'[p] = "active"]_vars

(* A reported outcome is never revised, whatever the provider says later.  *)
OutcomeIsFinal ==
  [][\A p \in Payments : status[p] \in Terminal => status'[p] = status[p]]_vars

(* The worker, its queue and its retries implement PaymentPromise: what a  *)
(* customer can spend falls once when a payment is accepted and rises only *)
(* when a payment that was sent to the provider fails.                     *)
PromiseOutcome(p) ==
  CASE status[p] = "none" -> "none"
    [] status[p] \in Unsettled -> "held"
    [] status[p] = "succeeded" -> "paid"
    [] status[p] = "failed" -> "returned"

Promise == INSTANCE PaymentPromise WITH
             spendable  <- [c \in Customers |-> Available(c)],
             outcome    <- [p \in Payments |-> PromiseOutcome(p)],
             handedOver <- {p \in Payments : sends[p] > 0},
             credited   <- journals \cap Fundings

KeepsPromise == Promise!Spec

(* A due job is worked until it is done or parked for staff.               *)
JobsResolve ==
  \A p \in External :
    job[p].status \in {"queued", "leased"} ~> job[p].status \in {"done", "dead"}
=============================================================================
