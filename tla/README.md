# Verification of the QPay Fintech backend

This directory specifies, in TLA+, the part of the repository that moves money and guards access to
it: the Go service in `APIbackend/internal/service` over PostgreSQL, and the browser clients where
their behaviour matters to it. TLC checks the modules on small instances; TLAPS proves the most
important results for every value of the constants. Line numbers refer to files of
`APIbackend/internal/service` unless a path says otherwise.

## 1. The system

Customers pay one another, a bank account or a biller. An API process serves customers and staff,
worker processes execute accepted payments against an upstream provider (QPay) and hand e-mails to
Novu, and a scheduler runs due mandates and reminders. All state is in PostgreSQL: processes interact
only through rows, row locks and transactions (READ COMMITTED, up to four attempts after
serialisation failures, `transact`, model.go:230-257). Nearly every transaction of a customer locks
his `users` row first, so the transactions of one customer are serial; what interleaves is everything
*between* transactions, and every read made outside one. What several rows' locks may do to one another
*inside* the transactions is a module of its own, `LockOrder`; all other modules take a transaction as one
step.

| Component | State it keeps | Operations | Hard behaviour |
|---|---|---|---|
| Ledger | accounts (balance, reserved), journals, postings, holds | postJournal, triggers apply_posting, apply_hold, balanced_journal | several holds per wallet, duplicate references |
| Checkout | quotes, authorisations, payments, policy version, personal controls | CreateQuote, Authorise, CreatePayment, ChangeControls, SecureAccount | stale policy or limits, replays, tokens of another session |
| Payment worker | jobs (lease, token, attempts), payments, holds, observations | WorkPayment, retryPayment, applyResult, retryJob | crash around the provider call, lapsed leases, late and contradictory answers |
| Money requests | money_requests, request_shares, request_quote_links | RequestMoney, MoneyRequestState, RequestQuote, applyRequestShare | two quotes for one share, expiry and cancellation before payment |
| Scheduled transfers | payment_mandates, mandate_occurrences | CreateMandate, MandateState, WorkMandate, schedule_stop | two schedulers, stops and changed terms while due, closure of either account |
| Notifications | notification_intents with a lease, no token | notify, WorkNotification, Scheduler, suppression | ambiguous submission, updates by id alone |
| Sessions and credentials | users, sessions, refresh_tokens, challenges, TOTP counter, recovery codes, passkeys and ceremonies | Login, Refresh, BrowserCSRF, VerifyChallenge, ChangeCredential, MFAStart, MFAConfirm, PasskeyBegin, PasskeyFinish, sign-outs | replayed refresh tokens and codes, passwords verified outside the transaction |
| Browser clients | cookies, CSRF value in memory, Web Lock | recoverSession (app), restore (console) | several tabs with one session |
| Approvals and staff control | proposals, control proposals, invitations, recovery grants, policies, users.version | Propose, decide, AdminCommand, AcceptStaffRecovery | two staff, stale versions, last administrator |
| Identity and closure | drafts, kyc_cases, snapshots, kyc_documents, verified_identities | SaveIdentityDraft, SubmitIdentity, KYCSubmit, decide on a case, CloseAccount | drafts in several tabs, drafts rewritten while a case is reviewed, a closure between two steps of anything else |
| Private files | private_uploads and objects in a store | UploadDocument, DeleteUpload | row and object written apart, lost answers to a commit |
| Funding accounts | funding_accounts with a lease, no token | RequestFundingAccount, WorkFundingAccount | repeated creation at the gateway, an answer after a closure |
| Reminders | saved bills, reminders, reminder_occurrences | CreateReminder, ReminderState, WorkReminder, NextDue, DeleteSavedBill | ends of months, outages, pauses |
| Support | support_cases | CaseCreate, CaseReply, EscalateCase | a case reopened against a closure |
| Statements and imports | reconciliation_runs and their items; otherwise reads | Entries, Statement, Reconcile | entries seen later than they are dated and numbered, a file imported twice at once |
| Transactions and locks | row locks, a pool of 20 connections | transact, lockUsers, lockAccounts | circles of waits, four attempts, a second connection |

`PROJECT.json` lists every part of the repository, also those that are not modelled, and under
"hazards" what in this code is hard to test, at its line, with the property that covers it.

**Interaction.** Checkout leaves an accepted external payment, its hold and its job to the payment
worker; both, and the scheduler's mandates, post to the ledger. Staff decisions (policies, standing of
customers, stops) change rows the others read. Every component writes notification intents in its own
transaction. Sessions decide who may call at all: `activePrincipal` reads the session under lock in
each transaction of a customer.

### What makes each component correct

* **Ledger.** A wallet is never overdrawn, the reservation is the sum of the active holds, every
  journal balances and is posted once.
* **Payment worker.** A payment is submitted at most once; money is captured or released only on
  the provider's own outcome; doubt keeps the money held; a reported outcome is final; a due job is
  worked until it is done or parked.
* **Checkout.** A quote pays at most once, on an authorisation of the same session, under the
  policy it was quoted with, within the limits in force at commit; a repeated call is answered with
  the payment it made.
* **Money requests.** A share never receives more than it asks for, and only while it is payable.
* **Scheduled transfers.** The debits stay within the consent, one per due date, none after a stop;
  a due date is paid or refused and never blocks another; a closed account stays empty.
* **Notifications.** A message whose submission is in doubt is not sent again; what is suppressed
  stays suppressed; nothing waits for ever.
* **Sessions.** A refresh token works once, a replay ends the session, and a customer's own tabs
  never replay. A session outlives neither a change of its password nor of its second factor; a
  code works once; what was read before a revocation counts for nothing after it.
* **Approvals.** What two people agreed on takes effect on the target as its maker saw it; payments that
  were stopped in an emergency are resumed only by two who knew of it; whatever administrators decide
  about one another, two remain who can decide.
* **Identity and files.** Staff review what the customer's tab showed when he submitted it; what a case or
  a support message rests on is kept, row and object.
* **Funding accounts.** The gateway is asked once to open an account, and whoever is told that it is ready
  has it.
* **Reminders.** A reminder goes off on the dates of the schedule that was asked for, each once, whatever
  was skipped; one that is due goes off.
* **Account life.** A closed account leaves nothing behind that acts, waits or holds money.
* **Statements and imports.** What is shown of the ledger is one moment of it, and a file imported again is
  answered as before.
* **Locks.** Transactions that take rows in the service's order never wait for one another in a circle.

## 2. Modules

| Module | Extends | Models |
|---|---|---|
| `Ledger` | | accounts, journals and holds; the operators of every action that moves money |
| `PaymentWorker` | `Ledger` | the execution of accepted payments |
| `PaymentPromise` | | its abstract specification: no jobs, leases or workers |
| `MoneyRequests` | `Ledger` | requests for money and their shares |
| `Checkout` | `MoneyRequests` | quote, authorisation, payment, and what staff and owner change meanwhile |
| `Mandates` | `Ledger` | scheduled transfers |
| `Notifications` | | delivery of e-mails |
| `SessionRows` | | one session row with its chain of refresh tokens |
| `WebRefresh` | `SessionRows` | the tabs of a browser restoring one session |
| `Sessions` | | one account's credentials and the sessions opened with them |
| `Approvals` | | decisions by two members of staff about customers, payments, products and colleagues |
| `Calendar` | | the calendar of Lagos and NextDue, with what a schedule means |
| `Reminders` | `Calendar` | saved bills and reminders |
| `FundingAccounts`, `Documents`, `Support` | | one customer's funding account, files, support cases |
| `Identity` | `Documents` | drafts, cases and the recorded identity |
| `Records` | | what statements, pages of entries and imports show of a wallet that is being posted to |
| `AccountLife` | `Reminders`, `FundingAccounts`, `Identity`, `Support`, `Records` | their composition with the standing and the closure of the account |
| `LockOrder` | | the transactions as sequences of row locks |
| `Sums` | | theorems about finite sums of integers, for the four modules whose properties are sums |
| `PaymentWorkerProofs`, `CheckoutProofs`, `MandatesProofs` | their component, `Sums` | theorems |
| `AccountLifeProofs` | `AccountLife`, `Sums` | theorems |
| `ApprovalsProofs` | `Approvals` | theorems |
| `SessionsProofs` | `Sessions`, `WebRefresh` | theorems |
| `LocksAndLeasesProofs` | `Notifications`, `LockOrder` | theorems |
| `MCPaymentWorker`, `MCCheckout`, `MCMandates`, `MCNotifications`, `MCWebRefresh`, `MCSessions`, `MCApprovals`, `MCAccountLife`, `MCLockOrder` | their component | instances for TLC |

A transaction is one action. A call that reads outside its transaction, or makes several, has a
local state and several actions. A broken CHECK or UNIQUE constraint aborts the whole transaction, so
constraints are conjuncts of the actions; an attempt that fails changes nothing and is not an action.
`Checkout` replaces the worker of a bill by `Resolve`, what `PaymentWorker` promises of it.
`Notifications` and `WebRefresh` name their `NoticeInit`, `RefreshSpec` and so on apart, because their proofs share a
module with those of `LockOrder` and `Sessions`.

### PaymentWorker

One action is one database transaction or one step of a provider call.

| Model | Code |
|---|---|
| `CreatePayment` | effects of CreatePayment once its checks passed (payments.go:454-604) |
| `CreditFunding` | payments.go:608-650 |
| `StandingChanges` | freeze (customer_parity.go:110-139), restrict and restore (operations.go:309-320) |
| `RetryJob` | staff requery (operations.go:426-456) |
| `Lease`, `LeaseLapses` | first transaction of WorkPayment (worker.go:20-28), `lease_until` passing |
| `Begin` = `BeginLost`, `BeginSkip`, `BeginSubmit`, `BeginQuery` | second transaction (worker.go:32-91) |
| `SendSubmission`, `ProviderReplies`, `CallFails` | the call (worker.go:98-108) |
| `RetryPayment` | retryPayment (worker.go:120-142) |
| `ApplyResult` = `ApplyConflict`, `ApplyPending`, `ApplyOutcome` (`Settle`, `Fulfil`) | applyResult (worker.go:143-258) |
| `Crash` | process death, or an error that aborts the round |
| `ReceiveSubmission`, `LoseSubmission`, `Execute`, `Deliver`, `Reverse` | the provider, external, as `upstream/qpay.go` uses it |

`worker[w]` is the local state of one WorkPayment call; `sends` is a history variable.
Abstractions: the random lease token is the worker that drew it (a worker holds one round at a
time, so the token it drew last is the only one it can present); time is only the lapse of a lease;
`retryDelay` is left out (a queued job may be leased at any later moment, which adds behaviours); the
attempt counter saturates at the limit the code compares it with; a reply that does not match the
payment (reference, amount, currency, sizes) is the result "review", which applyResult treats alike.
The branches of the second transaction for a finished payment and for one in review are kept although
the proofs show that no live lease reaches them.

### MoneyRequests and Checkout

| Model | Code |
|---|---|
| `RequestMoney`, `CancelRequest`, `DeclineShare`, `ApplyShare` | money_requests.go: RequestMoney, MoneyRequestState, applyRequestShare |
| `ReadShare`, `LinkQuote` | the unlocked look at the share and the second transaction of RequestQuote (money_requests.go:216-240) |
| `PriceQuote`, `StoreQuote` | the unlocked reads of CreateQuote and its transaction (payments.go:212-340) |
| `Authorise` | payments.go:372-428, once PIN and TOTP were right |
| `CreatePayment`, `Replay` | payments.go:454-604: a first call, and a call whose key is known |
| `WithinLimits`, `Stricter`, `Spent` | ensureSpendingControl and controls (customer_parity.go), the policy checks of CreatePayment |
| `ChangeControls`, `SecureAccount` | customer_parity.go |
| `PolicyChanges`, `ProductChanges`, `StandingChanges` | approved staff decisions and the emergency stop, by their effect |

`call[s]` is the local state of the quote a session prepares; `told` is a history variable of the
answers given. Each session makes one quote at a time; other sessions of its owner interleave. A bank
transfer differs from a bill only in the destination it names and is not a kind of its own. The three
times CreatePayment asks for the time (two limits, created_at) may straddle midnight: `d1`, `d2`, `day`.

### Mandates

| Model | Code |
|---|---|
| `CreateMandate`, `MandateState`, `ScheduleStop` | mandates.go:25-146, admin_commands.go:236 |
| `PickMandate`, `Execute` (`Due`, `Unsafe`, `PauseFor`, `Advanced`), `Abandon` | the unlocked look-up, the transaction and its failure in WorkMandate (mandates.go:164-286) |
| `DirectPayment` | an internal CreatePayment that competes for balance and limit |
| `CloseAccount`, `SecureAccount`, `StandingChanges`, `PolicyChanges` | identity_privacy.go:369-429, customer_parity.go:110-139, operations.go:284-320 |

Time is counted in ticks; `Day` ticks are a calendar day, `Period` ticks lie between occurrences (the
clamping of NextDue at month ends is data). A debit meets two limits, as in ensureSpendingControl: that of one
payment (`perPayment`, which a decided proposal replaces together with the fee) and that of the day (`Daily`, which direct
payments share). Each stands for the stricter of the policy's and the owner's own; owners who tighten theirs are
in `Checkout`. Row versions are left out: they only refuse a request made
looking at an older row, and the same request made again goes through.

### Notifications

| Model | Code |
|---|---|
| `Notify` | notify and notifyOccurrence, in the transaction they report |
| `LeaseNotice`, `SweepOnly` | first transaction of WorkNotification |
| `PutBack`, `Refuse`, `Pass` | the allowlist and notificationEligibility, with the updates by id |
| `Post`, `Record` | the call of Novu and the guarded update after it |
| `Scheduler`, `StaffSuppress`, `CodeUsed` | worker.go:275-288, the staff command, auth.go:169 and identity_privacy.go:335 |

What eligibility looks up about recipient, code or payment is one fact, `unwanted`: the message is still
wanted, until it is not. `posts` counts calls of Novu.

### SessionRows and WebRefresh

| Model | Code |
|---|---|
| `Opens`, `MayReadCSRF`, `Refreshed` | Authenticate, BrowserCSRF, Refresh (auth.go:294-394, browser.go:14-27) |
| `Following`, `TakesTurns`, `Begin`, `Release` | recoverSession under `navigator.locks` (WebApp/src/api/client.ts:91-101), restore without it (AdminDashboard/src/api.ts:21-26) |
| `Send`, `Serve`, `Receive` | a fetch with cookies, the routes (`internal/httpapi/routes.go:291-318`), Set-Cookie and the CSRF value on arrival |
| `Abandon` | a lost request or reply, the client's time-out, a closed or reloaded tab |

All credentials of one issue bear its number. A cookie is attached when the request is sent and set when
the reply arrives; between the two, other tabs act. *Assumption:* a request that is abandoned before
the server handled it is cancelled (the browser resets the stream, and the handler's transaction runs
under the request's context). A commit already under way at that moment, overtaken by three requests of
another tab, is not modelled.

`WebLocks` says whether the browser has `navigator.locks`. Where it has not, recoverSession runs unguarded
(client.ts:99), like the console's, and nothing is claimed for several tabs: the mutant `FreeToStart_Always` is that
fallback. A confirmation that is refused after the renewal goes on to read the CSRF value (client.ts:94-97).

### Sessions

One account, whose role and bounds are `account`; other accounts share nothing with it. A slot of
`session` is a row of `sessions` or the sign-in that may become one.

| Model | Code |
|---|---|
| `LoginVerifies`, `LoginOpens`, `LoginRecovers` | Login before its transaction, and in it with a TOTP or a recovery code (auth.go:210-278) |
| `PasskeyBegins`, `PasskeyOpens`, `EnrolmentBegins`, `Enrols` | PasskeyBegin and PasskeyFinish without and with a session (passkeys.go:74-282) |
| `Authenticate`, `Acts` | the read outside a transaction, and activePrincipal in it (auth.go:294-341) |
| `Proves`, `WithProof`, `Fits` | checkTOTP, reauthenticate, VerifyTOTP |
| `MFAStart`, `MFAConfirm`, `ChangePassword`, `ChangePIN`, `SignOutAll`, `CloseAccount`, `SecureAccount`, `RevokePasskey`, `RevokeSession` | the functions of these names |
| `SpendsProof` | Authorise, StaffElevate, BeginEmailChange: they use a code up and revoke nothing |
| `RequestChallenge`, `VerifyChallenge`, `ChallengeLapses` | auth.go:76-199 for a reset, worker.go:283 |
| `StaffEndSessions`, `AcceptStaffRecovery` | admin_commands.go:230-235 and 353, admin_recovery.go:29-88 |
| `SessionEnds`, `PendingLapses`, `Tick` | what time does; a refresh token replayed |

A session remembers the password current when it was opened (for a login: the one verified) and the secret
it proved; the code keeps neither, they exist for the properties. `accepted`, `recovered`, `reset` count
what was accepted. Abstractions: a six-digit code is the pair of a secret and a half minute (that two
pairs give the same digits is chance); the ten recovery codes of a set behave alike and one is kept; a
session has one enrolment ceremony at a time; FinishEmailChange is `SignOutAll` (an address is not a
credential here); access tokens and ceremonies that expire are requests that end. Refreshing leaves the row
as it is and is in `SessionRows`.

### Approvals

| Model | Code |
|---|---|
| `ProposeReads`, `ProposeStores` | Propose: the version read without a lock, and the row filed (operations.go:180-231) |
| `DecideReads`, `DecideStores` (`Approve` = `SetPolicy`, `Restrict`, `Restore`, `SettleCase`) | decide up to and from `next := "rejected"` (operations.go:241-356) |
| `GiveUp` | a refusal or a crash between the two: the transaction is undone |
| `ControlProposes`, `ControlDecides` (`ApproveStaff`, `ApproveSwitch`), `EmergencyStop` | AdminCommand (admin_commands.go:240-366) |
| `AcceptRecovery` | AcceptStaffRecovery (admin_recovery.go:29-88) |
| `Invite`, `DecideInvitation`, `RevokeInvitation`, `AcceptInvitation` | admin_commands.go:396-529 |
| `OwnerChanges`, `EnrolsFactor`, `CloseAccount` | ChangeCredential, UpdateName and all else that counts `users.version` up; MFAConfirm; CloseAccount |
| `ItemExpires`, `GrantExpires`, `InvitationExpires` | `expires_at` passing |

*Atomicity.* Control commands and the acceptance of a recovery take one advisory lock (818426003) and read
rows after it (READ COMMITTED), so each is one action. Proposals take none: between reading the maker and
writing the decision, other decisions interleave, the maker may be demoted, the customer may change. The
actor's own row is locked throughout (`Unlocked`). Invitations read their approvers without a lock in one
transaction; a demotion that commits in between could as well have come after, since nothing else in the
step depends on the approvers.

*Abstractions.* The limits and the fee of a policy, the tier and the evidence of a case are data; a customer has
one case; there is one product. A client names the version it looks at, and a call with another is refused:
the guard is that it names the current one. What an approval does to the sessions of its target is in `Sessions`.
RequireStaffElevation runs outside the transaction and only refuses. The initial state is what
BootstrapStaff and BootstrapChecker leave once both administrators enrolled a second factor; CreateStaff
(operations.go:49-86) is called by no route. `changes` and `stops`, and what a request remembers of them, are
history for the properties.

### AccountLife and its parts

The parts `Reminders`, `FundingAccounts`, `Documents`, `Identity` and `Support` share one thing, the
customer's standing: a transaction of his own locks his users row and refuses a closed account, those of
workers, schedulers and staff do not all look. `AccountLife` adds the standing to the guards and the closure
that acts on all of them.

| Model | Code |
|---|---|
| `CreateReminder`, `ReminderState`, `DeleteSavedBill` | bill_management.go:98-183, 217-235 |
| `NextDue`, `InMonth`, `DueAfter`, `Advanced`, `WorkReminder` | bill_management.go:186-197, 236-271 |
| `RequestFundingAccount`, `LeaseFunding`, `RecordReady` | funding_accounts.go:60-127 |
| `GatewayReceives`, `GatewayConfirms`, `RoundEnds` | the gateway, external, and the worker's call of it |
| `CreditArrives`, `CreditFunding`, `WalletEmptied` | the owner of an active account looked up without a lock, his credit later; payments |
| `CheckUpload`, `PutObject`, `Publish`, `PublishFails`, `PublishAnswerLost`, `RemoveObject`, `DeleteUpload` | the steps of private_uploads.go:62-163 and 253-278 |
| `LoadDraft`, `SaveIdentityDraft`, `SubmitIdentity` | identity_privacy.go:64-245 |
| `KYCSubmit`, `ApproveCase`, `ReturnCase` | operations.go:106-135, 287-351 |
| `CaseCreate`, `CaseReply`, `EscalateCase` | support.go:19-71, 136-184, identity_privacy.go:465-489 |
| `Accepts`, `Begins`, `Posts`, `Commits`, `RollsBack` | the transactions that post: acceptance under a hold (payments.go:537-592), the begin of a transaction, postJournal (payments.go:50-77) and its end |
| `StatementOpens`, `StatementEnds` | the two queries of Statement (reports.go:49-96) |
| `FirstPage`, `NextPage` | Entries (reports.go:25-45), called until a page is not full |
| `ImportBegins`, `Compares`, `ImportCommits`, `ImportFails` | Reconcile (reports.go:157-236), row by row |
| `StandingChanges`, `CloseAccount` | operations.go:309-320, identity_privacy.go:369-429 |

Time in `Calendar` is a number of hours; NextDue is modelled by what it computes: the clamping of the 29th to
31st, leap years, and that the day is the one of Lagos while the row is in UTC. `Schedule` says independently
of the steps what dates a schedule has, and `OnSchedule` compares. The calendar ends after `Months`;
`ReminderAssumption` asks that what happens and what is offered lies at least a month before its end, so that
NextDue always finds the next date. `meant` remembers what a tab showed,
`answerLost` which commits took effect without an answer; the code has neither.

In `Records` a posting transaction is not one step: a journal bears the time at which its transaction began
(`created_at DEFAULT now()`, schema.sql:31), its posting is numbered once the wallet is locked, and both are seen
when it commits. Statement reads one snapshot (REPEATABLE READ), Entries one per page, Reconcile one per row.
Numbers are in the order of commits only because postJournal locks the wallet first (`WalletFree`). A deferred
payment that fails posts nothing and is not distinguished from one that is still out. A journal and the
"succeeded" of its payment are one transaction, so the answer "ledger_posting_missing" is not met.
`told` and `settled` exist for the properties.

### LockOrder

A call is the sequence of its row locks, in PostgreSQL's four modes with their table of conflicts, up to its
end; each lock is a step, a call holds one of the pool's connections, and `Remind` asks for a second one
(money_requests.go:185 reads through the pool inside its transaction). `Deadlocked` is PostgreSQL's victim,
`tries` the attempts of `transact`. `Orderly` are the calls that take every row in order: users by
identifier, session, the customer's other rows, policy, house accounts, wallets by identifier, request, share. Those of
codes, addresses, handles, invitations and notices are among them (`VerifyChallenge`: user, code, notice, sessions).
An advisory lock is a row of its own; that of an address or handle is one row whatever its name.
`Crossing` are ten that do not, each with the row it takes too late:

| Call | Out of order |
|---|---|
| `WorkReminder` | the reminder first, then the owner (a notice's foreign key); CloseAccount the other way round |
| `RecordFunding` | the funding account first, then the owner |
| `RequestMoney` | its caller, then each payer (foreign keys), whatever their identifiers |
| `Remind` | the request, then the payers; and the second connection |
| `BillerObserved` | those who are told, in no order |
| `AssignCase` (also work_update) | the assigned colleague after the console lock |
| `DecideOnStaff` | the maker, the console lock, then the target; another decision has them the other way round |
| `RecoverStaff` | the console lock before the member of staff |
| `ExpireAll` (Scheduler, worker.go:275-288) | expired notices, then codes, then sessions, of everyone and in no order; VerifyChallenge has the code before the notice |
| `LeaseNoticeOf` (notifications.go:263-268) | lapsed notices of several customers, in no order, then the one it leases |

Each of the ten does cause a standstill in the instance when it is not excepted. Left out: calls that lock
their principal's row alone, foreign keys on rows locked already, waits for unique keys, and the rows of
`rate_limits`, which Scheduler deletes between notices and codes and which Rate writes through the pool, each in a
transaction of one statement.

## 3. Runs

| Run | Instance | Shows |
|---|---|---|
| `bill` | one bill, two workers, two attempts, one credit, with fairness | never resubmitted; hold, job and payment agree; evidence before outcome; every due job is eventually done or parked |
| `transfer` | two bank transfers and an internal one of 2+1 from a wallet of 6, two customers, one worker, two attempts | the reservation is the sum of the active holds, the balances, the refinement |
| `checkout` | two quotes, tokens and keys in three situations: terms that change over midnight; two sessions of one owner with freezes, restrictions and a tighter limit; a request of two shares (2 and 1) among three customers | answers match requests; own authorisations only; acceptance only on the terms in force; the day's limit; a share receives exactly its payments and closed requests stay closed |
| `checkout_stop` | one quote, one change of policy | *violation*: the emergency stop does not stop authorisations (finding 1) |
| `mandates` | a series and a single transfer, two schedulers, a direct payment, clock 0..3, with fairness | consent, limits, stops, closure; a due occurrence is paid or refused |
| `notices` | a code and a receipt, two workers, with fairness | handed over at most once; suppression is final; everything is settled in the end |
| `web_refresh` | three tabs of the app, three issues of credentials, with fairness | no tab ends the session; a restored tab can write; every restoration ends |
| `sessions` | three accounts with three slots each: a customer who resets (3 passwords, 2 codes), one with passkeys and a second factor, a member of staff whose factor is replaced and recovered | sessions know the current credentials; codes work once; revoked sessions and old ceremonies do nothing; only the newest reset code |
| `approvals` | three administrators, an account to be invited, a customer; two requests and an invitation; five agendas | two administrators remain; decisions take effect on what was proposed; an emergency stop outlasts every request made before it |
| `account` | one customer; two years of reminders, two workers, two files, two tabs, two cases, three postings with a statement, pages or two files of imports, in seven agendas, with fairness | reminders on schedule; a closed account leaves nothing; evidence is kept; the review is of what was submitted; one funding account; what is shown is one moment of the ledger; due work is done |
| `locks` | any two of these calls at once, and any three of those that move money or wait for several customers, over three customers, two staff and three connections | every standstill contains one of the ten calls out of order |
| `console_refresh` | two tabs of the console | *violation*: they revoke their own session (finding 2) |

**Bounds.** *Payment worker:* two workers are enough for the races of a job: one token can be
superseded while its owner is out, and a third worker could only repeat that. `MaxAttempts = 2` gives
a job both a retry and a last attempt (the code's limit is 30). `transfer` asks about money, not about
leases, and needs one worker only. `MaxBalance = 6` stands for 9,000,000,000,000,000 kobo: the credit
reaches it, so the CHECK refuses nothing that a real run would allow except a payment above the
wallet's limit. Three payments of 3 from a credit of 6 make both "insufficient funds" and "two at once"
happen. *Checkout:* two quotes with a token and a key each are
what is needed to confuse them; amounts of 2 against a daily limit of 5 let two payments fit with a fee
of 0 and not with 1; `Disturbed` bounds who is restricted or frozen. *Mandates:* `Day = 1 < Period = 2`,
so that an occurrence can be too late before the next is due, and the fee rises from 0 to 1, which puts
the second debit of the series beyond its total and the single transfer beyond its cap; the limit of one payment stays at 2, the
dearest debit, or falls to 1, which refuses it; the clock passes
the end of the single transfer. `Offered`, `DirectPayers` and `Disturbed` bound which terms, direct
payments and interruptions occur. *Notifications:* two workers, as above; a notice that carries a code and
one that does not are the two kinds the code tells apart. *WebRefresh:* `MaxIssued = 3` lets the session
be renewed twice, so a tab can be two issues behind. *Sessions:* three slots are the session that changes a
credential, one it must end and a sign-in between; the accounts divide what does not interact (resets touch
no second factor, staff have no passkeys), since only together with the password do they meet. Two
half minutes give four counters; two secrets let one replace the other; `AttemptLimit` is the code's five,
`PasskeyLimit = 2` stands for its ten. *Approvals:* an agenda is a set of kinds of request that share a target:
colleagues, payments, the standing of a customer, his case, newcomers; kinds of different targets meet only in
the standing of those who decide, which `Colleagues` and `Newcomers` cover. Two requests pending at once are what a race between
decisions takes; three administrators are a maker, a checker and a subject. `MaxVersion = 2` bounds the changes
an owner makes by himself, `MaxStops = 2` lets a second stop come between the proposal to end the first and
its approval. *AccountLife:* an agenda is a set of concerns that go on together, chosen so that everything
that meets in a closure, or in a file, does: reminders hang on nothing else, files are wanted by cases of both
kinds, funding and support are what blocks or races a closure; the closure itself belongs to the concern
"standing" (drafts in several tabs run without it, the theorems have any agenda). The clock of `Reminders` takes ten instants
around the ends of January, February, April and December, in Lagos and UTC, and jumps over outages; schedules
begin on the 31st, on a Lagos day that is another in UTC, on a Sunday, and once. `FirstYear = 2027` makes the
second February one of a leap year. `MaxVersion = 3` lets two tabs overwrite one another before and after a
submission. What is shown of the ledger needs two postings that overlap and a third that came before: a credit, a bill settled
by a worker and a transfer; two minutes put the ends of a range before, between and after them, pages of one entry make a
walk of up to four, and a file of two payments is compared at two moments while a second importer brings it too.
*LockOrder:* a circle of two needs two calls and two shared rows; a circle of more is looked for
among the calls that take several customers' rows; identifiers are 1, 2, 4 for customers and 3, 5 for staff, so
that both orders of each pair occur, and `PoolSize = 3` is what three calls can use up.

The runs of `Checkout` and `transfer` use symmetry among quotes, tokens, keys and equal transfers,
`sessions` among slots, `approvals` among the three administrators and the requests (an agenda names two of
the three; only the initial state and `TypeOK` mention agendas, and steps treat all staff alike), `locks` among
the transactions; no run with fairness uses any.
Four runs disable the deadlock check because the system may really come to rest. In `checkout`, without
policy changes, freezes or a midnight to come, a closed request with all quotes used or expired leaves nothing
to do. In `approvals` both requests may be decided. In `account` everything may be over, in `locks` every call;
what must not stand still there is a property of its own. In `Notifications` the same is the action `Quiet`.

**Fairness.** *Payment worker:* the process polls every second and drains up to ten jobs a tick
(`internal/app/app.go:309-357`), a requeued job goes behind the others (`ORDER BY available_at,id`):
hence strong fairness of leasing each job. The provider call has a deadline of 65 s under a lease of
90 s (worker.go:21, 98): hence a round is not always cut off by a lapse or a crash. A lease that runs
out does so because time passes. The provider owes nothing: it may never answer. *Mandates:* schedulers
look for work every minute (weak fairness of the look-up), and a transaction that is tried again and
again does not fail for ever (strong fairness of `Execute`, which crashes interrupt). *Notifications:*
time passes and workers poll (weak fairness); the scheduler runs every minute, and a notice that was put
back stays queued for a minute or an hour, so it is found there once it is overdue (strong fairness).
*WebRefresh:* `navigator.locks` grants requests in their order (strong fairness of `Begin`, since the
lock comes and goes); requests are sent, served and received unless abandoned (weak fairness); a tab
need not start. *AccountLife:* the scheduler looks for due reminders every minute (weak fairness, per
reminder: the earliest due one is taken and moves on). Workers look for funding accounts every second, a lease
is a minute that passes, and a call is bounded (weak fairness of the lapse and of the call's end); a worker that
is free takes the row again and again (strong fairness). Two assumptions are about what the code does not
govern: the gateway, asked again and again about an account it has opened, confirms it in the end, and
not every round is lost with its process. A request that never reached the gateway is owed nothing (observation 4).

**Mutants.** Each property has a mutant in `PROJECT.json`: a definition of the code changed the way a
bug would change it (defined beside the original as `X_Variant`), under which TLC finds the property violated.

**Findings.**
1. `admin_commands.go:242` says that the emergency stop reaches "New payment authorisation/acceptance".
   `Authorise` (payments.go:372-428) never reads the policy: a quote priced before the stop can still be
   authorised after it. `CreatePayment` then refuses the token (`AcceptedOnCurrentTerms` holds), so only
   acceptance is contained.
2. `APIbackend/docs/CLIENT-INTEGRATION.md:8` asks clients to coordinate a refresh, because a replayed
   token revokes the session. The staff console coordinates within a tab only
   (AdminDashboard/src/api.ts:24); two tabs restored together replay and are both signed out. The
   customer app coordinates across tabs where the browser has Web Locks, and is proved never to do so there.

**Observations** made while modelling. The models behave so; no property denies it.
1. After "information required" a customer may save a new draft (identity_privacy.go:93-100), but
   neither SubmitIdentity (identity_privacy.go:141) nor KYCSubmit (operations.go:123) accepts a case while that one is
   open, although the e-mail asks him to act; only staff can move it on.
2. An upload whose commit took effect without an answer has its object removed (private_uploads.go:155-159)
   while its row stays "clean" and can be submitted. `EvidenceKept` excepts exactly these (`answerLost`), against
   private_uploads.go:264, "submitted evidence is retained with its case".
3. `devdocs/project/05-DATA-AND-LEDGER.md:16` asks for a canonical lock order. Ten calls have none
   (`Crossing`); their deadlocks are left to the four attempts of `transact`.
4. A funding row is made "pending" before the gateway is called. If the process dies before the call arrives,
   later rounds only ask about the account, so the row stays pending. The notice that an account is ready is
   queued even if no row was updated; what keeps it from a customer whose account was closed meanwhile is
   that his notices are suppressed when they are sent (notifications.go:201).
5. The reminder of a money request reads the rate limits through the pool inside its transaction
   (money_requests.go:185). With as many of them at once as there are connections (20, internal/app/app.go:219) all
   wait for one another, and PostgreSQL sees no deadlock; they end when their clients leave.
6. A statement reads one snapshot, but dates a journal by the begin of its transaction. If its range ends in the
   past while a transaction begun in the range still runs (one that waits for the wallet's lock), the statement lacks
   that entry, later ones of the same range have it, and the next range opens with another balance than this one closed
   with, although reports.go:47 means to avoid "silently returning an incomplete financial statement".
   `RecordsHold` excepts exactly these (`settled`).

## 4. Proofs

Every safety property that a passing run checks, invariant or action property, is also a theorem, for
all values of the constants; `PROJECT.json` names the theorem of each. The proofs have one shape: an inductive invariant,
a lemma for each step or kind of step, and temporal logic at the end.

### Sums

Five properties are sums over sets of payments, and statements sum postings. `Sums` proves what they need of the community
modules' `SumFunctionOnSet`: it is an integer (`SumInt`), may be taken in any order (`SumTake`), adds over
disjoint sets (`SumUnion`), looks only at the elements (`SumSame`), is a natural number if they are
(`SumNonNegative`), grows by what joins the set (`SumAdd`) and bounds its parts (`SumPart`). The operator
is a recursive function over finite sets. Induction as a rule takes an operator as a parameter, which the
provers cannot instantiate; so the proofs take a smallest set (`LeastSet`: one of least cardinality, by the well-foundedness of
the natural numbers) for which the claim fails, take an element away, and find a smaller one.

### Payment worker

`PaymentWorkerProofs` proves, for any number of customers, payments, workers and credits:
`TypeCorrect`, `Invariant`, and from it `NeverResubmitted`, `RowsAgree`, `EvidenceFirst`,
`FinalOutcome` (the runs check it as part of `KeepsPromise`), `ReviewHolds` and `Refines`: `PaymentWorker`
implements `PaymentPromise`.

*Assumptions:* the named ASSUMEs of `Ledger` and `PaymentWorker` (kinds, owners and amounts of
payments and credits have their types, an internal payee is not the payer, references of credits and
payments differ, customers are not the house accounts).

*The invariant `IInv`.* None of the properties is inductive alone. `LeaseInv` says that a worker which
can still present the job's token finds the job leased: requeueing clears the token, a new lease
replaces it, and finishing a round ends the round. With `JobMirrorsPayment` (a leased job means that
the payment is neither finished nor in review) this gives the key fact of the worker: *an answer is
applied only to a payment nobody else has decided about*. `SubmissionInv` counts: the mark
"submitted" is taken by one worker only, who has not sent yet; after he sends, or dies, nobody
can. `EvidenceInv` ties an answer in a worker's hands to what the provider did. `RowsInv` ties
journals and fulfilment to payments. The refinement needs all of them: capture and return are
steps of the promise because evidence implies a submission, and every other step is a stutter.

*The balances.* `Balances` says that in every state each wallet is what was funded and received less what was paid,
the clearing and fee accounts are the other side of it, and each reservation is the sum of the payer's
active holds. `OnlyMoneySteps` finds the four steps that move money: a credit, the creation of an internal and of
an external payment, and a settlement; all others leave every summand as it is (`MoneyStays`). For each of the four
the sum over a set with one more element is the old sum and that element's total, and the posting adds the same
to the account. That the element is *new* is the invariant's part: a settlement finds a payment that was not
terminal (`LeaseInv`), a credit one that has no journal (`RowsInv`).

### Checkout

For any number of customers, sessions, quotes, tokens, keys, requests and shares, and for any terms and
limits: `CheckoutInvariant`, `TypeCorrect`, `OwnAuthorisation`, `TrueAnswers`, `CurrentTermsOnly`,
`ClosedStayClosed`, `SharesNeverOverpaid`, `QuotesPayOnce`, `SharesAreWhatWasPaid`, `DailyLimit`. Four things go together and none is inductive
without the others: a quote is used if and only if it has its payment (`UsedOnce`), the payment's session has
spent the one authorisation of that quote (`PaidWithOwnAuthorisation`), an owner's key belongs to one payment
(`KeysBindOne`), and what a repeated call was told is that payment (`AnswersTrue`). `CurrentTermsOnly` needs to
know what a quote was priced from, possibly long before: whatever was priced under a version of the policy carries
the fee of that version (`PricesOfTheirVersion`, also of the prices still on their way to the database), so
comparing versions at acceptance is enough. `ClosedStayClosed` rests on `CompletedWhenPaid`: a request is
completed exactly when all its shares are paid, so the last payment of a share and the completion
of its request cannot come apart.

`SharesAreWhatWasPaid` and `DailyLimit` are sums over the paid quotes, which are finitely many and keep their
amounts, fees and shares (`PaidRowsStay`). The first needs that a quote is linked to its share before anybody can
pay it, by the one call that stored it (`HiddenUntilLinked`): a quote that gained its share after it was paid would
change the sum behind the share's back. The second compares a sum before and after a step, on any day: a payment is
dated between its transaction's begin and its end, and the limit is compared with the sum of the day it bears;
failures only take summands away.
*Assumptions:* `CheckoutAssumption`, `ShareAssumption` and those of `Ledger` (owners, payers and amounts have
their types, a request has a share and asks nobody twice nor its requester, limits are positive and a day's is
no less than a payment's, and `None` is no row).

### Notifications

For any number of notices and workers: `NoticeInvariant`, `OnePost`, `TruthfulState`, `SuppressionStays`.
The invariant is `HolderInv`: a notice has at most one holder, none while it is queued, and none once it
is closed. It is not obvious, because a worker whose lease lapsed goes on and writes by id: what saves it
is that the sweep makes a lapsed notice "unknown" and never "queued", so no second worker can lease it.
*Assumption:* `NoticeAssumption` (codes and released notices are notices).

### Scheduled transfers

For any number of mandates, schedulers, customers and any terms: `MandateInvariant`, `Stopped`,
`ClosedForGood`, `ConsentHolds`, `DailyLimit`. The invariant says that recorded occurrences are never later than the next one
(`RowsBehind`), from which follows that the occurrence an active mandate waits for has no row yet
(`NextIsFresh`): otherwise its UNIQUE key would refuse every attempt and, being the longest overdue, it
would block all mandates. `ConsentHolds` adds that every debit has its occurrence (`DebitsRecorded`): with
`NextIsFresh` the debit of the due occurrence is one more payment of the mandate, so count and sum in the row, which the
code compares with the consent, are the count and the sum of the payments. For `DailyLimit` both kinds of payment
compare the sum of the day with the limit in the transaction that adds to it.
*Assumptions:* `MandateAssumption`: what CreateMandate demands of the terms, and that a direct payment is not named like an occurrence.

### Browser clients

For any number of tabs of the customer app in a browser with Web Locks (`TakesTurns`): `RefreshInvariant`, `AppKeepsSession`, `RestoredWrites`.
"Nobody replays" is not inductive; what is: one tab restores at a time (`OneRestores`), its request carries
the cookies still in the jar (`CarriesJar`), the only unconsumed token is that of the last issue
(`LastIssueCounts`), and once a tab was shown a CSRF value the cookies are those of the last issue
(`ShownCurrent`). The last is why a lost reply to a refresh costs the customer his session but never
counts as a replay: the stale cookie is refused the CSRF value first. The console reads in the same order
but without `OneRestores`.

### Sessions

For any number of slots, passwords, secrets, half minutes, challenges and attempts: `Invariant`,
`CurrentSessions`, `CoveredSessions`, `SingleUseCodes`, `SignedOut`, `CurrentEnrolments`, `NewestResets`,
`TypeCorrect`. The invariant adds what the properties rest on. A sign-in has no request and no ceremony
of its own (`SignInsAreBare`), so a slot that becomes live brings nothing old with it. The ceremony of a
*live* session knows the current password (`CeremoniesAreCurrent`): every change of the password ends all
sessions, which is what makes a ceremony of three minutes harmless. Secrets are met in the order they are
made (`SecretsInOrder`) and no code of one that is not current yet was used; for the current one no accepted
code is later than the counter (`CodesCounted`). Without the counter that MFAConfirm stores, the code that
confirms a secret would work once more. `NewestWaits`: of all reset codes only the newest waits.
*Assumption:* `AccountsAssumption`, the types of the bounds.

### Approvals

For any number of staff, customers, requests and invitations: `ApprovalsInvariant`, `ConsoleStaysUsable`, `Timely`,
`StopStays`. That two administrators remain is inductive only with who asks and who decides: a request about staff
is made by somebody else than its target (`WellMade`) and decided by a third, and both are looked at when it takes
effect. So every such step leaves two administrators untouched; the count in the code ("cannot remove
last active MFA administrator") promises one and is never what refuses. A recovery, which takes a second factor away,
looks at its two approvers again for the same reason. For the other two theorems versions must count changes
(`Counted`), a request's version is the one after the changes its maker had before him, and the policy keeps its
version only while nobody stops payments. *Assumption:* `ApprovalsAssumption`: accounts and switches are apart, and
two administrators stand at first.

### Account life

For any number of reminders, workers, files, tabs, cases, postings and importers, any calendar and any agenda
(`TypeCorrect` gathers the types of all parts):

* `OneAccount`. A row that waits for its first lease was never sent (`NeverSent`), and one worker at most is about to ask
  (`SentOnce`); leasing makes the row "pending" in the same transaction, which is why a lapsed lease costs nothing.
  Who says "ready" heard it of an account that exists (`ReadyIsOpened`).
* `NothingLeft`. What the closure found settled stays so (`Settled`): the credit, the reply and the scheduler that were under
  way look at the standing again, and the funding row is disabled exactly by the closure (`DisabledByClosure`).
* `StaffReviewWhatWasShown`. What a tab has loaded is a version of the draft no newer than the row (`TabsLookBack`), so
  equal versions are equal content.
* `Evidence`. A row is written after its object, and no call removes the object of a row whose upload was answered
  (`ObjectFirst`); a file that a case refers to is never deleted (`Retained`).
* `RemindersKeepTheirSchedules`. The due date of a row is one of its schedule (`OfSchedule`). That stepping stays in the
  schedule is the calendar's part: months begin in order (`MonthsBegin`, `MonthsInOrder`), an instant lies in one month
  (`MonthIs`, `AtIs`), and NextDue of the k-th date is the k+1st even if it was clamped (`MonthlyDate`, `NextDate`), because it goes
  from the day asked for. `DueAfter` takes any number of steps and ends because each goes forward (`SteppingEnds`, by the
  smallest number of steps that fails).
* `RecordsAreOfOneMoment`. The order of commits is the order of entry numbers (`EntriesInOrder`, from the wallet's lock);
  so a page walk has shown exactly the entries of its first moment down to where it stands (`OnTheWay`), whatever was
  committed since. No transaction that runs began in a settled range (`SettledStatement`). What an import has compared as
  matched is committed for good (`MatchedArePosted`).

*Assumptions:* those of the parts: types, `DocumentAssumption`, `CalendarAssumption`, `ReminderAssumption`, `RecordsAssumption`.

### Locks

For any number of transactions, customers, staff and connections, and for any calls made together:
`NeverStandStill`. It rests on PostgreSQL's own exclusion (the lemma `LocksExclusive`). The argument
ranks the tables in one order (`Rank`: staff, console, proposal, case, evidence, users by identifier, a
customer's own rows, product, policy, payment, job, house accounts, request, share, handle, address, invitation). Not every lock
climbs in it: a customer's own rows (`Owned`: session, wallet, mandate, code, notice, ...) come in different places of his
calls. But each of them is taken behind his `users` row, or last: so whoever would hold one in an orderly
call's way holds the users row the waiting call has, or waits for nothing (`NobodyBehind`). Every
other lock ranks above all its call holds. That every orderly call keeps to this is shown call by call (the
`...Kept` lemmas). In a standstill without a crossing call, then, each waits for one that waits for a row of a higher
rank, and there is a highest. A standstill for connections needs a call that asks for a second one, and of all
calls only `Remind` does.
*Assumptions:* `LockAssumption` (identifiers are numbers up to `MaxId`, customers are not staff) and
`WorkloadsAssumption` (a workload consists of calls).

### Model-checked only

Liveness under fairness (`JobsResolve`, `DueIsHandled`, `NoticesSettle`, `RestorationEnds`, `DueWorkIsDone`) is
beyond the prover, as is ENABLED: these five properties stay with TLC, under the fairness of section 3. The two runs that
expect a violation state what the code does not do.

## 5. Plan

Done: every component of the plan has its module, run and hazards, and every safety property its theorem. Left, in order of importance:

1. `Sessions` and `SessionRows` joined by one abstract specification, in which a session is valid while
   the credentials it was born with are and its newest refresh token is held.
2. `Checkout` implements an abstract shop in which a quote is paid or not, atomically; composed with
   `PaymentWorker` in place of `Resolve`.
3. Registration and the verification of an address, beside the reset in `Sessions`.

## 6. Not modelled, and why

Cryptography (`internal/security`) and the checks of the passkey library: tokens and codes are model
values. Routing, decoding, the contract documents, pages, read models, receipts and spending insights: no state
that money or access depends on. Rate limits: counters per quarter of an hour that only refuse; what reading them inside a
transaction costs is in `LockOrder`. Of private files the object store itself, its encryption and the malware
scan: `Documents` knows only whether an object is there. Saved favourites, budgets and biller observations: rows
no other decision reads. Start-up, migration and deployment. The Mobile directory holds documents only.
The retries of `transact` are modelled in `LockOrder`; in all other modules a transaction happens once or not
at all.
