------------------------- MODULE PaymentWorkerProofs -------------------------
(***************************************************************************)
(* Proofs about PaymentWorker for any number of customers, payments,       *)
(* workers and funding records: its inductive invariant and what follows   *)
(* from it; that it implements PaymentPromise, the initial states mapping  *)
(* to initial states and every step to a step of the promise or a stutter; *)
(* and that the balances are what the outcomes make them.                  *)
(***************************************************************************)
EXTENDS PaymentWorker, Sums, TLAPS

(* What a wallet-moving step does to the ledger keeps its type.            *)
LEMMA PostedType ==
  ASSUME LedgerTypeOK, NEW entries, \A a \in DOMAIN entries : entries[a] \in Int
  PROVE  Posted(entries) \in [Account -> Int]
BY DEF LedgerTypeOK, Posted

LEMMA HoldType ==
  ASSUME LedgerTypeOK, NEW c \in Customers, NEW amount \in Int, PlaceHold(c, amount) \/ EndHold(c, amount)
  PROVE  reserved' \in [Customers -> Int]
BY DEF LedgerTypeOK, PlaceHold, EndHold

LEMMA TotalType == ASSUME NEW p \in Payments PROVE Total(p) \in Nat \ {0}
BY PaymentAssumption DEF Total

LEMMA EntriesType ==
  /\ \A p \in Payments : \A a \in DOMAIN InternalEntries(p) : InternalEntries(p)[a] \in Int
  /\ \A p \in Payments : \A a \in DOMAIN ExternalEntries(p) : ExternalEntries(p)[a] \in Int
  /\ \A f \in Fundings : \A a \in DOMAIN FundingEntries(f) : FundingEntries(f)[a] \in Int
BY PaymentAssumption, FundingAssumption
   DEF InternalEntries, ExternalEntries, FundingEntries, Total

LEMMA JobRowType ==
  ASSUME NEW row \in JobRow, NEW s \in {"queued", "done", "dead"}
  PROVE  [row EXCEPT !.status = s, !.lapsed = FALSE] \in JobRow
BY DEF JobRow

(* A worker that is not idle is in a round, with the fields of a round.    *)
LEMMA RoundType ==
  ASSUME TypeOK, NEW w \in Workers, worker[w] # Idle
  PROVE  /\ worker[w] \in Round
         /\ worker[w].payment \in Payments
         /\ worker[w].attempt \in 1..MaxAttempts
         /\ worker[w].result \in Results
         /\ worker[w].stage \in Stages
BY DEF TypeOK, Round

LEMMA SaturateType == \A n \in Nat : n > 0 => Saturate(n) \in 1..MaxAttempts
BY WorkerAssumption DEF Saturate

LEMMA InitType == Init => TypeOK
BY WorkerAssumption
   DEF Init, LedgerInit, TypeOK, LedgerTypeOK, NoJob, JobRow, Statuses, Account

LEMMA CreateType == ASSUME TypeOK, NEW p \in Payments, CreatePayment(p) PROVE TypeOK'
<1>1. CASE CreateInternal(p)
  BY <1>1, PostedType, EntriesType
     DEF CreatePayment, CreateInternal, PostJournal, TypeOK, LedgerTypeOK, Statuses, Terminal, provider
<1>2. CASE CreateExternal(p)
  <2>1. reserved' \in [Customers -> Int] /\ balance' = balance
    <3>1. Payer[p] \in Customers /\ Total(p) \in Int
      BY TotalType, PaymentAssumption
    <3>2. PlaceHold(Payer[p], Total(p)) /\ UNCHANGED balance
      BY <1>2 DEF CreateExternal
    <3>3. LedgerTypeOK
      BY DEF TypeOK
    <3>4. QED
      BY <3>1, <3>2, <3>3, HoldType
  <2>2. job' \in [Payments -> JobRow]
    <3>1. NewJob \in JobRow
      BY WorkerAssumption DEF NewJob, JobRow
    <3>2. QED
      BY <1>2, <3>1 DEF CreateExternal, TypeOK
  <2>3. QED
    BY <1>2, <2>1, <2>2
       DEF CreatePayment, CreateExternal, TypeOK, LedgerTypeOK, Statuses, Unsettled, provider
<1> QED BY <1>1, <1>2 DEF CreatePayment

LEMMA FundingType == ASSUME TypeOK, NEW f \in Fundings, CreditFunding(f) PROVE TypeOK'
BY PostedType, EntriesType DEF CreditFunding, PostJournal, TypeOK, LedgerTypeOK, provider

LEMMA StandingType ==
  ASSUME TypeOK, NEW c \in Customers, StandingChanges(c) PROVE TypeOK'
BY DEF StandingChanges, TypeOK, LedgerTypeOK, rows, provider

LEMMA RequeueType == ASSUME TypeOK, NEW p \in Payments, RetryJob(p) PROVE TypeOK'
<1>1. NewJob \in JobRow
  BY WorkerAssumption DEF NewJob, JobRow
<1>2. QED
  BY <1>1 DEF RetryJob, TypeOK, LedgerTypeOK, ledgerVars, provider

LEMMA LapseType == ASSUME TypeOK, NEW p \in Payments, LeaseLapses(p) PROVE TypeOK'
BY DEF LeaseLapses, TypeOK, JobRow, LedgerTypeOK, ledgerVars, provider

LEMMA CrashType == ASSUME TypeOK, NEW w \in Workers, Crash(w) PROVE TypeOK'
BY DEF Crash, TypeOK, LedgerTypeOK, rows, provider

LEMMA LeaseType ==
  ASSUME TypeOK, NEW w \in Workers, NEW p \in Payments, Lease(w, p) PROVE TypeOK'
<1> DEFINE attempt == Saturate(job[p].attempts + 1)
<1>1. attempt \in 1..MaxAttempts
  <2>1. job[p].attempts \in 0..MaxAttempts BY DEF TypeOK, JobRow
  <2>2. QED BY <2>1, SaturateType, WorkerAssumption
<1>2. [status |-> "leased", attempts |-> attempt, token |-> w, lapsed |-> FALSE]
        \in JobRow
  BY <1>1, WorkerAssumption DEF JobRow
<1>3. [stage |-> "leased", payment |-> p, attempt |-> attempt, result |-> NoResult] \in Round
  BY <1>1 DEF Round, Stages, NoResult, Results
<1> HIDE DEF attempt
<1>4. QED
  BY <1>2, <1>3 DEF Lease, TypeOK, LedgerTypeOK, ledgerVars, provider, attempt

(* Moving a job or a worker to another state keeps the types of the rows.  *)
LEMMA JobBecomesType ==
  ASSUME TypeOK, NEW p \in Payments, NEW s \in {"queued", "done", "dead"}, JobBecomes(p, s)
  PROVE  job' \in [Payments -> JobRow]
<1>1. [job[p] EXCEPT !.status = s, !.lapsed = FALSE] \in JobRow
  BY JobRowType DEF TypeOK
<1>2. QED
  BY <1>1 DEF JobBecomes, TypeOK

LEMMA FinishType ==
  ASSUME TypeOK, NEW w \in Workers, Finish(w) PROVE worker' \in [Workers -> Round \cup {Idle}]
BY DEF Finish, TypeOK

LEMMA StageType ==
  ASSUME TypeOK, NEW w \in Workers, worker[w] # Idle, NEW s \in Stages,
         worker' = [worker EXCEPT ![w].stage = s]
  PROVE  worker' \in [Workers -> Round \cup {Idle}]
<1>1. [worker[w] EXCEPT !.stage = s] \in Round
  BY RoundType DEF Round
<1>2. QED BY <1>1 DEF TypeOK

LEMMA BeginType == ASSUME TypeOK, NEW w \in Workers, Begin(w) PROVE TypeOK'
<1> DEFINE p == worker[w].payment
<1>1. worker[w] # Idle /\ p \in Payments
  BY RoundType DEF Begin, Idle
<1> HIDE DEF p
<1>2. CASE BeginLost(w, p)
  BY <1>2, FinishType DEF Begin, BeginLost, TypeOK, LedgerTypeOK, rows, provider, p
<1>3. CASE BeginSkip(w, p)
  <2>1. job' \in [Payments -> JobRow] /\ worker' \in [Workers -> Round \cup {Idle}]
    BY <1>1, <1>3, FinishType, JobBecomesType DEF BeginSkip
  <2>2. status' \in [Payments -> Statuses]
    BY <1>1, <1>3 DEF BeginSkip, TypeOK, Statuses, Unsettled
  <2>3. QED
    BY <1>3, <2>1, <2>2 DEF Begin, BeginSkip, TypeOK, LedgerTypeOK, ledgerVars, provider
<1>4. CASE BeginSubmit(w, p)
  <2>1. worker' \in [Workers -> Round \cup {Idle}]
    BY <1>1, <1>4, StageType DEF BeginSubmit, Unsent, Stages
  <2>2. status' \in [Payments -> Statuses]
    BY <1>1, <1>4 DEF BeginSubmit, Unsent, TypeOK, Statuses, Unsettled
  <2>3. QED
    BY <1>4, <2>1, <2>2 DEF Begin, BeginSubmit, Unsent, TypeOK, LedgerTypeOK, ledgerVars, provider
<1>5. CASE BeginQuery(w, p)
  <2>1. worker' \in [Workers -> Round \cup {Idle}]
    BY <1>1, <1>5, StageType DEF BeginQuery, Stages
  <2>2. QED
    BY <1>5, <2>1 DEF Begin, BeginQuery, TypeOK, LedgerTypeOK, rows, provider
<1>6. QED
  BY <1>2, <1>3, <1>4, <1>5 DEF Begin, p

LEMMA SendType == ASSUME TypeOK, NEW w \in Workers, SendSubmission(w) PROVE TypeOK'
<1>1. worker[w] # Idle /\ worker[w].payment \in Payments
  BY RoundType DEF SendSubmission, Idle
<1>2. worker' \in [Workers -> Round \cup {Idle}]
  BY <1>1, StageType DEF SendSubmission, Stages
<1>3. QED
  BY <1>1, <1>2 DEF SendSubmission, TypeOK, LedgerTypeOK, rows

LEMMA RepliesType ==
  ASSUME TypeOK, NEW w \in Workers, NEW p \in Payments, order[p] # "unknown", NEW r \in Replies(w, p)
  PROVE  r \in Results
<1>1. order[p] \in {"open", "settled", "refused", "reversed"}
  BY DEF TypeOK
<1>2. Report(p) \in {"pending", "succeeded", "failed"}
  BY <1>1 DEF Report
<1>3. /\ [status |-> Report(p), fulfilled |-> order[p] = "settled" /\ p \in delivered] \in Results
      /\ [status |-> "review", fulfilled |-> FALSE] \in Results
      /\ NoResult \in Results
  BY <1>2, Zenon DEF Results, NoResult
<1>4. QED
  BY <1>3 DEF Replies

LEMMA ReplyType == ASSUME TypeOK, NEW w \in Workers, ProviderReplies(w) PROVE TypeOK'
<1>1. worker[w] \in Round /\ worker[w].payment \in Payments
  BY RoundType DEF ProviderReplies, Idle
<1>2. PICK r \in Replies(w, worker[w].payment) :
        worker' = [worker EXCEPT ![w] = [@ EXCEPT !.stage = "answered", !.result = r]]
  BY DEF ProviderReplies
<1>3. r \in Results
  BY <1>1, RepliesType DEF ProviderReplies
<1>4. [worker[w] EXCEPT !.stage = "answered", !.result = r] \in Round
  BY <1>1, <1>3 DEF Round, Stages
<1>5. QED
  BY <1>2, <1>4 DEF ProviderReplies, TypeOK, LedgerTypeOK, rows, provider

LEMMA CallFailsType == ASSUME TypeOK, NEW w \in Workers, CallFails(w) PROVE TypeOK'
<1>1. worker[w] # Idle
  BY DEF CallFails, Idle
<1>2. worker' \in [Workers -> Round \cup {Idle}]
  BY <1>1, StageType DEF CallFails, Stages
<1>3. QED
  BY <1>2 DEF CallFails, TypeOK, LedgerTypeOK, rows, provider

LEMMA RetryType == ASSUME TypeOK, NEW w \in Workers, RetryPayment(w) PROVE TypeOK'
<1> DEFINE p == worker[w].payment
<1>1. p \in Payments
  BY RoundType DEF RetryPayment, StatusAfterError, Idle
<1>2. Requeued(w) \in {"queued", "done", "dead"}
  BY DEF Requeued
<1>3. job' \in [Payments -> JobRow] /\ worker' \in [Workers -> Round \cup {Idle}]
  BY <1>1, <1>2, FinishType, JobBecomesType DEF RetryPayment, StatusAfterError, TypeOK
<1>4. status' \in [Payments -> Statuses]
  BY <1>1 DEF RetryPayment, StatusAfterError, TypeOK, Statuses, Unsettled
<1>5. QED
  BY <1>3, <1>4 DEF RetryPayment, StatusAfterError, TypeOK, LedgerTypeOK, ledgerVars, provider

LEMMA SettleType ==
  ASSUME TypeOK, NEW p \in Payments, NEW r \in Results, r.status \in Terminal, Settle(p, r)
  PROVE  /\ LedgerTypeOK' /\ journals' \subseteq Payments \cup Fundings
         /\ status' \in [Payments -> Statuses]
         /\ hold' \in [Payments -> {"none", "active", "captured", "released"}]
<1>1. CASE status[p] \in Terminal
  BY <1>1 DEF Settle, TypeOK, LedgerTypeOK, ledgerVars
<1>2. CASE status[p] \notin Terminal
  <2>1. Payer[p] \in Customers /\ Total(p) \in Int
    BY TotalType, PaymentAssumption
  <2>2. reserved' \in [Customers -> Int]
    BY <1>2, <2>1, HoldType DEF Settle, TypeOK
  <2>3. balance' \in [Account -> Int] /\ journals' \subseteq Payments \cup Fundings
    BY <1>2, PostedType, EntriesType DEF Settle, PostJournal, TypeOK, LedgerTypeOK
  <2>4. status' \in [Payments -> Statuses]
    BY <1>2 DEF Settle, TypeOK, Statuses
  <2>5. hold' \in [Payments -> {"none", "active", "captured", "released"}]
    BY <1>2 DEF Settle, TypeOK
  <2>6. QED
    BY <2>2, <2>3, <2>4, <2>5 DEF LedgerTypeOK
<1>3. QED
  BY <1>1, <1>2

LEMMA ApplyType == ASSUME TypeOK, NEW w \in Workers, ApplyResult(w) PROVE TypeOK'
<1> DEFINE p == worker[w].payment
           r == worker[w].result
<1>1. p \in Payments /\ r \in Results
  BY RoundType DEF ApplyResult, Idle
<1>2. worker' \in [Workers -> Round \cup {Idle}]
  BY FinishType DEF ApplyResult
<1>3. UNCHANGED <<standing, provider, sends>>
  BY DEF ApplyResult
<1>4. Requeued(w) \in {"queued", "done", "dead"}
  BY DEF Requeued
<1> HIDE DEF p, r
<1>5. CASE UNCHANGED rows
  BY <1>2, <1>3, <1>5 DEF TypeOK, LedgerTypeOK, rows, provider
<1>6. CASE ApplyConflict(p, r)
  <2>1. job' \in [Payments -> JobRow]
    BY <1>1, <1>6, JobBecomesType DEF ApplyConflict
  <2>2. status' \in [Payments -> Statuses]
    BY <1>1, <1>6 DEF ApplyConflict, TypeOK, Statuses, Unsettled
  <2>3. QED
    BY <1>2, <1>3, <1>6, <2>1, <2>2 DEF ApplyConflict, TypeOK, LedgerTypeOK, ledgerVars, provider
<1>7. CASE ApplyPending(w, p, r)
  <2>1. job' \in [Payments -> JobRow]
    BY <1>1, <1>4, <1>7, JobBecomesType DEF ApplyPending
  <2>2. status' \in [Payments -> Statuses]
    BY <1>1, <1>7 DEF ApplyPending, TypeOK, Statuses, Unsettled
  <2>3. QED
    BY <1>2, <1>3, <1>7, <2>1, <2>2 DEF ApplyPending, TypeOK, LedgerTypeOK, ledgerVars, provider
<1>8. CASE ApplyOutcome(w, p, r)
  <2>1. job' \in [Payments -> JobRow]
    BY <1>1, <1>4, <1>8, JobBecomesType DEF ApplyOutcome, Fulfil
  <2>2. fulfilment' \in [Payments -> {"not_applicable", "pending", "ready"}]
    BY <1>1, <1>8 DEF ApplyOutcome, Fulfil, TypeOK
  <2>3. QED
    BY <1>1, <1>2, <1>3, <1>8, <2>1, <2>2, SettleType DEF ApplyOutcome, TypeOK, provider
<1>9. QED
  BY <1>5, <1>6, <1>7, <1>8 DEF ApplyResult, p, r

LEMMA ProviderType == ASSUME TypeOK, NEW p \in Payments, ProviderStep(p) PROVE TypeOK'
BY DEF ProviderStep, ReceiveSubmission, LoseSubmission, Execute, Deliver, Reverse,
       TypeOK, LedgerTypeOK, rows

(* Every variable keeps its type in every behaviour.                       *)
THEOREM TypeCorrect == Spec => []TypeOK
<1>1. TypeOK /\ [Next]_vars => TypeOK'
  <2> SUFFICES ASSUME TypeOK, [Next]_vars PROVE TypeOK'
    OBVIOUS
  <2>1. CASE UNCHANGED vars
    BY <2>1 DEF vars, rows, provider, TypeOK, LedgerTypeOK
  <2>2. CASE Next
    BY <2>2, CreateType, FundingType, StandingType, RequeueType, LapseType, CrashType, LeaseType,
       BeginType, SendType, ReplyType, CallFailsType, RetryType, ApplyType, ProviderType
       DEF Next, WorkerStep
  <2>3. QED
    BY <2>1, <2>2
<1>2. QED
  BY InitType, <1>1, PTL DEF Spec

-----------------------------------------------------------------------------
(* What the shared sub-actions do to one row of job and worker             *)

LEMMA JobRowAfter ==
  ASSUME TypeOK, NEW p \in Payments, NEW s, JobBecomes(p, s)
  PROVE  /\ job'[p].status = s /\ job'[p].token = job[p].token
         /\ \A q \in Payments : q # p => job'[q] = job[q]
<1>1. job[p] \in JobRow /\ job'[p] = [job[p] EXCEPT !.status = s, !.lapsed = FALSE]
  BY DEF TypeOK, JobBecomes
<1>2. \A q \in Payments : q # p => job'[q] = job[q]
  BY DEF TypeOK, JobBecomes
<1>3. QED
  BY <1>1, <1>2 DEF JobRow

LEMMA FinishAfter ==
  ASSUME TypeOK, NEW w \in Workers, Finish(w)
  PROVE  worker'[w] = Idle /\ \A v \in Workers : v # w => worker'[v] = worker[v]
BY DEF TypeOK, Finish

LEMMA StageAfter ==
  ASSUME TypeOK, NEW w \in Workers, worker[w] # Idle, NEW s \in Stages,
         worker' = [worker EXCEPT ![w].stage = s]
  PROVE  /\ worker'[w] # Idle /\ worker'[w].stage = s
         /\ worker'[w].payment = worker[w].payment /\ worker'[w].result = worker[w].result
         /\ \A v \in Workers : v # w => worker'[v] = worker[v]
<1>1. worker[w] \in Round /\ worker'[w] = [worker[w] EXCEPT !.stage = s]
  BY RoundType DEF TypeOK
<1>2. \A v \in Workers : v # w => worker'[v] = worker[v]
  BY DEF TypeOK
<1>3. QED
  BY <1>1, <1>2 DEF Round, Stages, Idle

LEMMA BusyStage == \A w \in Workers : worker[w].stage \in Stages => worker[w] # Idle
BY DEF Stages, Idle

-----------------------------------------------------------------------------
(* The inductive invariant                                                 *)

LEMMA InitInv == Init => IInv
<1> SUFFICES ASSUME Init PROVE IInv
  OBVIOUS
<1>1. TypeOK
  BY InitType
<1>2. LeaseInv
  BY DEF Init, LeaseInv
<1>3. SubmissionInv
  BY DEF Init, SubmissionInv, Idle
<1>4. EvidenceInv
  BY DEF Init, EvidenceInv, Idle
<1>5. RowsInv
  BY DEF Init, LedgerInit, RowsInv, NoJob
<1>6. HoldFollowsStatus
  BY DEF Init, HoldFollowsStatus, Unsettled, External
<1>7. JobMirrorsPayment
  BY DEF Init, JobMirrorsPayment, NoJob, External
<1>8. OutcomeHasEvidence
  BY DEF Init, OutcomeHasEvidence, External
<1>9. QED
  BY <1>1, <1>2, <1>3, <1>4, <1>5, <1>6, <1>7, <1>8 DEF IInv

(* A payment that does not exist yet has no job, so no worker is out for it. *)
LEMMA NoWorkYet ==
  ASSUME IInv, NEW p \in Payments, status[p] = "none"
  PROVE  /\ job[p].status = "none"
         /\ \A v \in Workers : worker[v] # Idle => worker[v].payment # p
<1>1. job[p].status \in {"none", "queued", "leased", "done", "dead"}
  BY DEF IInv, TypeOK, JobRow
<1>2. job[p].status = "none"
  BY <1>1 DEF IInv, JobMirrorsPayment, RowsInv, Complete
<1>3. QED
  BY <1>2 DEF IInv, LeaseInv

LEMMA CreateInv == ASSUME IInv, NEW p \in Payments, CreatePayment(p) PROVE IInv'
<1> USE DEF IInv
<1>1. TypeOK'
  BY CreateType
<1>2. LeaseInv'
  <2> SUFFICES ASSUME NEW v \in Workers, worker[v] # Idle
               PROVE  LET q == worker[v].payment IN
                      job'[q].status # "none" /\ (job'[q].token = v => job'[q].status = "leased")
    BY DEF CreatePayment, LeaseInv, HasToken
  <2>1. worker[v].payment \in Payments /\ v # None
    BY RoundType, WorkerAssumption
  <2>2. QED
    BY <2>1 DEF CreatePayment, CreateInternal, CreateExternal, LeaseInv, HasToken, NewJob, TypeOK
<1>3. SubmissionInv'
  <2>1. \A q \in Payments : status'[q] \in {"none", "accepted"} => sends[q] = 0
    BY DEF CreatePayment, CreateInternal, CreateExternal, SubmissionInv, TypeOK
  <2>2. ASSUME NEW v \in Workers, worker[v].stage = "submit"
        PROVE  sends[worker[v].payment] = 0 /\ status'[worker[v].payment] # "accepted"
    <3>1. worker[v].payment \in Payments /\ worker[v] # Idle
      BY <2>2, RoundType, BusyStage DEF Stages
    <3>2. worker[v].payment # p
      BY <3>1, NoWorkYet DEF CreatePayment
    <3>3. QED
      BY <2>2, <3>1, <3>2 DEF CreatePayment, CreateInternal, CreateExternal, SubmissionInv, TypeOK
  <2>3. QED
    BY <2>1, <2>2 DEF CreatePayment, SubmissionInv, provider
<1>4. EvidenceInv'
  BY DEF CreatePayment, EvidenceInv, provider
<1>5. RowsInv'
  BY FundingAssumption DEF CreatePayment, CreateInternal, CreateExternal, PostJournal, RowsInv, NewJob, External, Bills, TypeOK
<1>6. HoldFollowsStatus'
  BY DEF CreatePayment, CreateInternal, CreateExternal, HoldFollowsStatus, External, Unsettled, TypeOK
<1>7. JobMirrorsPayment'
  BY DEF CreatePayment, CreateInternal, CreateExternal, JobMirrorsPayment, External, Complete, NewJob, TypeOK
<1>8. OutcomeHasEvidence'
  BY DEF CreatePayment, CreateInternal, CreateExternal, OutcomeHasEvidence, External, provider, TypeOK
<1>9. QED
  BY <1>1, <1>2, <1>3, <1>4, <1>5, <1>6, <1>7, <1>8

LEMMA FundingInv == ASSUME IInv, NEW f \in Fundings, CreditFunding(f) PROVE IInv'
<1>1. TypeOK'
  BY FundingType DEF IInv
<1>2. UNCHANGED <<status, fulfilment, hold, job, worker, order, wire, sends>>
  BY DEF CreditFunding, provider
<1>3. (LeaseInv /\ SubmissionInv /\ EvidenceInv)'
  BY <1>2 DEF IInv, LeaseInv, HasToken, SubmissionInv, EvidenceInv
<1>4. RowsInv'
  BY <1>2, FundingAssumption DEF IInv, RowsInv, CreditFunding, PostJournal
<1>5. (HoldFollowsStatus /\ JobMirrorsPayment /\ OutcomeHasEvidence)'
  BY <1>2 DEF IInv, HoldFollowsStatus, JobMirrorsPayment, OutcomeHasEvidence, Complete
<1>6. QED
  BY <1>1, <1>3, <1>4, <1>5 DEF IInv

LEMMA StandingInv == ASSUME IInv, NEW c \in Customers, StandingChanges(c) PROVE IInv'
<1>1. TypeOK'
  BY StandingType DEF IInv
<1>2. UNCHANGED <<status, fulfilment, hold, job, journals, worker, order, wire, sends>>
  BY DEF StandingChanges, provider, rows
<1>3. (LeaseInv /\ SubmissionInv /\ EvidenceInv /\ RowsInv)'
  BY <1>2 DEF IInv, LeaseInv, HasToken, SubmissionInv, EvidenceInv, RowsInv
<1>4. (HoldFollowsStatus /\ JobMirrorsPayment /\ OutcomeHasEvidence)'
  BY <1>2 DEF IInv, HoldFollowsStatus, JobMirrorsPayment, OutcomeHasEvidence, Complete
<1>5. QED
  BY <1>1, <1>3, <1>4 DEF IInv

LEMMA RequeueInv == ASSUME IInv, NEW p \in Payments, RetryJob(p) PROVE IInv'
<1>1. TypeOK'
  BY RequeueType DEF IInv
<1>2. UNCHANGED <<status, fulfilment, hold, journals, worker, order, wire, sends>>
  BY DEF RetryJob, provider, ledgerVars
<1>3. job'[p] = NewJob /\ \A q \in Payments : q # p => job'[q] = job[q]
  BY DEF RetryJob, IInv, TypeOK
<1>4. LeaseInv'
  <2> SUFFICES ASSUME NEW v \in Workers, worker[v] # Idle
               PROVE  LET q == worker[v].payment IN
                      job'[q].status # "none" /\ (job'[q].token = v => job'[q].status = "leased")
    BY <1>2 DEF LeaseInv, HasToken
  <2>1. worker[v].payment \in Payments /\ v # None
    BY RoundType, WorkerAssumption DEF IInv
  <2>2. QED
    BY <1>3, <2>1 DEF IInv, LeaseInv, HasToken, NewJob
<1>5. (SubmissionInv /\ EvidenceInv)'
  BY <1>2 DEF IInv, SubmissionInv, EvidenceInv
<1>6. (HoldFollowsStatus /\ OutcomeHasEvidence)'
  BY <1>2 DEF IInv, HoldFollowsStatus, OutcomeHasEvidence
<1>7. RowsInv'
  BY <1>2, <1>3 DEF IInv, RowsInv, RetryJob
<1>8. JobMirrorsPayment'
  BY <1>2, <1>3 DEF IInv, JobMirrorsPayment, RetryJob, NewJob, External, Complete
<1>9. QED
  BY <1>1, <1>4, <1>5, <1>6, <1>7, <1>8 DEF IInv

LEMMA LapseInv == ASSUME IInv, NEW p \in Payments, LeaseLapses(p) PROVE IInv'
<1>1. TypeOK'
  BY LapseType DEF IInv
<1>2. UNCHANGED <<status, fulfilment, hold, journals, worker, order, wire, sends>>
  BY DEF LeaseLapses, provider, ledgerVars
<1>3. \A q \in Payments : job'[q].status = job[q].status /\ job'[q].token = job[q].token
  BY DEF LeaseLapses, IInv, TypeOK, JobRow
<1>4. LeaseInv'
  <2> SUFFICES ASSUME NEW v \in Workers, worker[v] # Idle
               PROVE  LET q == worker[v].payment IN
                      job'[q].status # "none" /\ (job'[q].token = v => job'[q].status = "leased")
    BY <1>2 DEF LeaseInv, HasToken
  <2>1. worker[v].payment \in Payments
    BY RoundType DEF IInv
  <2>2. QED
    BY <1>3, <2>1 DEF IInv, LeaseInv, HasToken
<1>5. (SubmissionInv /\ EvidenceInv)'
  BY <1>2 DEF IInv, SubmissionInv, EvidenceInv
<1>6. (HoldFollowsStatus /\ OutcomeHasEvidence)'
  BY <1>2 DEF IInv, HoldFollowsStatus, OutcomeHasEvidence
<1>7. (RowsInv /\ JobMirrorsPayment)'
  BY <1>2, <1>3 DEF IInv, RowsInv, JobMirrorsPayment, External, Complete
<1>8. QED
  BY <1>1, <1>4, <1>5, <1>6, <1>7 DEF IInv

LEMMA CrashInv == ASSUME IInv, NEW w \in Workers, Crash(w) PROVE IInv'
<1>1. TypeOK'
  BY CrashType DEF IInv
<1>2. UNCHANGED <<status, fulfilment, hold, job, journals, order, wire, sends>>
  BY DEF Crash, provider, rows
<1>3. worker'[w] = Idle /\ \A v \in Workers : v # w => worker'[v] = worker[v]
  BY FinishAfter DEF Crash, Finish, IInv
<1>4. (LeaseInv /\ SubmissionInv /\ EvidenceInv)'
  BY <1>2, <1>3 DEF IInv, LeaseInv, HasToken, SubmissionInv, EvidenceInv, Idle
<1>5. (RowsInv /\ HoldFollowsStatus /\ JobMirrorsPayment /\ OutcomeHasEvidence)'
  BY <1>2 DEF IInv, RowsInv, HoldFollowsStatus, JobMirrorsPayment, OutcomeHasEvidence, Complete
<1>6. QED
  BY <1>1, <1>4, <1>5 DEF IInv

LEMMA LeaseKeepsInv ==
  ASSUME IInv, NEW w \in Workers, NEW p \in Payments, Lease(w, p) PROVE IInv'
<1>1. TypeOK'
  BY LeaseType DEF IInv
<1>2. UNCHANGED <<status, fulfilment, hold, journals, order, wire, sends>>
  BY DEF Lease, provider, ledgerVars
<1>3. /\ job'[p].status = "leased" /\ job'[p].token = w
      /\ \A q \in Payments : q # p => job'[q] = job[q]
  BY DEF Lease, IInv, TypeOK
<1>4. /\ worker'[w].stage = "leased" /\ worker'[w].payment = p
      /\ \A v \in Workers : v # w => worker'[v] = worker[v]
  BY DEF Lease, IInv, TypeOK
<1>5. LeaseInv'
  <2> SUFFICES ASSUME NEW v \in Workers, worker'[v] # Idle
               PROVE  LET q == worker'[v].payment IN
                      job'[q].status # "none" /\ (job'[q].token = v => job'[q].status = "leased")
    BY DEF LeaseInv, HasToken
  <2>1. CASE v = w
    BY <1>3, <1>4, <2>1
  <2>2. CASE v # w
    <3>1. worker[v].payment \in Payments /\ worker'[v] = worker[v]
      BY <1>4, <2>2, RoundType DEF IInv
    <3>2. QED
      BY <1>3, <2>2, <3>1 DEF IInv, LeaseInv, HasToken
  <2>3. QED
    BY <2>1, <2>2
<1>6. (SubmissionInv /\ EvidenceInv)'
  BY <1>2, <1>4 DEF IInv, SubmissionInv, EvidenceInv
<1>7. (HoldFollowsStatus /\ OutcomeHasEvidence)'
  BY <1>2 DEF IInv, HoldFollowsStatus, OutcomeHasEvidence
<1>8. RowsInv'
  BY <1>2, <1>3 DEF IInv, RowsInv, Lease
<1>9. JobMirrorsPayment'
  BY <1>2, <1>3 DEF IInv, JobMirrorsPayment, Lease, External, Complete
<1>10. QED
  BY <1>1, <1>5, <1>6, <1>7, <1>8, <1>9 DEF IInv

(* A step that only moves one round to another stage and sends nothing     *)
(* keeps the invariant if the stage it reaches asks for nothing.           *)
LEMMA StageMoves ==
  ASSUME IInv, TypeOK', NEW w \in Workers, worker[w] # Idle,
         NEW s \in Stages \ {"submit", "answered"}, worker' = [worker EXCEPT ![w].stage = s],
         UNCHANGED <<status, fulfilment, hold, job, journals, order, wire, sends>>
  PROVE  IInv'
<1>1. /\ worker'[w] # Idle /\ worker'[w].stage = s /\ worker'[w].payment = worker[w].payment
      /\ \A v \in Workers : v # w => worker'[v] = worker[v]
  BY StageAfter DEF IInv
<1>2. (LeaseInv /\ SubmissionInv /\ EvidenceInv)'
  BY <1>1 DEF IInv, LeaseInv, HasToken, SubmissionInv, EvidenceInv
<1>3. (RowsInv /\ HoldFollowsStatus /\ JobMirrorsPayment /\ OutcomeHasEvidence)'
  BY DEF IInv, RowsInv, HoldFollowsStatus, JobMirrorsPayment, OutcomeHasEvidence, Complete
<1>4. QED
  BY <1>2, <1>3 DEF IInv

(* A round that ends, with the job row of its payment rewritten and        *)
(* nothing sent, keeps what is known of the other rounds.                  *)
LEMMA RoundEnds ==
  ASSUME IInv, NEW w \in Workers, Finish(w), NEW p \in Payments, NEW s \in {"queued", "done", "dead"},
         HasToken(w, p), JobBecomes(p, s)
  PROVE  LeaseInv'
<1>1. worker'[w] = Idle /\ \A v \in Workers : v # w => worker'[v] = worker[v]
  BY FinishAfter DEF IInv
<1>2. /\ job'[p].status = s /\ job'[p].token = w
      /\ \A q \in Payments : q # p => job'[q] = job[q]
  BY JobRowAfter DEF IInv, HasToken
<1>3. SUFFICES ASSUME NEW v \in Workers, worker'[v] # Idle
               PROVE  LET q == worker'[v].payment IN
                      job'[q].status # "none" /\ (job'[q].token = v => job'[q].status = "leased")
  BY DEF LeaseInv, HasToken
<1>4. v # w /\ worker'[v] = worker[v] /\ worker[v].payment \in Payments
  BY <1>1, <1>3, RoundType DEF IInv
<1>5. QED
  BY <1>2, <1>3, <1>4 DEF IInv, LeaseInv, HasToken

(* A payment a worker is out for is external and exists.                   *)
LEMMA OutFor ==
  ASSUME IInv, NEW w \in Workers, worker[w] # Idle
  PROVE  LET p == worker[w].payment IN
         /\ p \in Payments /\ p \in External /\ job[p].status # "none"
         /\ HasToken(w, p) =>
              job[p].status = "leased" /\ status[p] \notin {"none", "pending_review"} /\ ~Complete(p)
<1>1. worker[w].payment \in Payments
  BY RoundType DEF IInv
<1>2. QED
  BY <1>1 DEF IInv, LeaseInv, RowsInv, JobMirrorsPayment

(* Rounds that stay with their payments keep what tokens say of the jobs.  *)
LEMMA SamePayments ==
  ASSUME LeaseInv, NEW w \in Workers, worker[w] # Idle, worker'[w].payment = worker[w].payment,
         \A v \in Workers : v # w => worker'[v] = worker[v], UNCHANGED job
  PROVE  LeaseInv'
<1> SUFFICES ASSUME NEW v \in Workers, worker'[v] # Idle
             PROVE  LET q == worker'[v].payment IN
                    job[q].status # "none" /\ (job[q].token = v => job[q].status = "leased")
  BY DEF LeaseInv, HasToken
<1>1. worker[v] # Idle /\ worker'[v].payment = worker[v].payment
  OBVIOUS
<1>2. QED
  BY <1>1 DEF LeaseInv, HasToken

LEMMA SendInv == ASSUME IInv, NEW w \in Workers, SendSubmission(w) PROVE IInv'
<1> DEFINE p == worker[w].payment
<1>1. TypeOK'
  BY SendType DEF IInv
<1>2. UNCHANGED <<status, fulfilment, hold, job, journals, order>>
  BY DEF SendSubmission, rows
<1>3. worker[w].stage = "submit" /\ worker[w] # Idle /\ p \in Payments
  BY RoundType, BusyStage DEF SendSubmission, Stages, IInv
<1>4. /\ worker'[w] # Idle /\ worker'[w].stage = "submitting" /\ worker'[w].payment = p
      /\ \A v \in Workers : v # w => worker'[v] = worker[v]
  BY <1>3, StageAfter DEF SendSubmission, Stages, IInv
<1>5. /\ sends[p] = 0 /\ status[p] # "accepted" /\ sends'[p] = 1
      /\ \A q \in Payments : q # p => sends'[q] = sends[q]
  BY <1>3 DEF IInv, SubmissionInv, SendSubmission, TypeOK
<1>6. status[p] # "none" /\ wire' = wire \cup {p}
  BY <1>3, NoWorkYet DEF SendSubmission
<1> HIDE DEF p
<1>7. (LeaseInv /\ EvidenceInv)'
  <2>1. LeaseInv'
    BY <1>2, <1>3, <1>4, SamePayments DEF IInv, p
  <2>2. EvidenceInv'
    BY <1>2, <1>4 DEF IInv, EvidenceInv
  <2>3. QED
    BY <2>1, <2>2
<1>8. SubmissionInv'
  <2>1. ASSUME NEW v \in Workers, worker'[v].stage = "submit"
        PROVE  /\ v # w /\ worker'[v] = worker[v] /\ worker[v].payment \in Payments
               /\ worker[v].payment # p
    <3>1. v # w /\ worker'[v] = worker[v]
      BY <1>4, <2>1
    <3>2. worker[v].payment \in Payments
      BY <2>1, <3>1, RoundType, BusyStage DEF IInv, Stages
    <3>3. QED
      BY <1>3, <2>1, <3>1, <3>2 DEF IInv, SubmissionInv, p
  <2>2. QED
    BY <1>2, <1>3, <1>5, <1>6, <2>1 DEF IInv, SubmissionInv
<1>9. (RowsInv /\ HoldFollowsStatus /\ JobMirrorsPayment /\ OutcomeHasEvidence)'
  BY <1>2 DEF IInv, RowsInv, HoldFollowsStatus, JobMirrorsPayment, OutcomeHasEvidence, Complete
<1>10. QED
  BY <1>1, <1>7, <1>8, <1>9 DEF IInv

LEMMA CallFailsInv == ASSUME IInv, NEW w \in Workers, CallFails(w) PROVE IInv'
<1>1. TypeOK' /\ worker[w] # Idle
  BY CallFailsType, BusyStage DEF CallFails, Stages, IInv
<1>2. UNCHANGED <<status, fulfilment, hold, job, journals, order, wire, sends>>
  BY DEF CallFails, rows, provider
<1>3. "unresolved" \in Stages \ {"submit", "answered"}
  BY DEF Stages
<1>4. worker' = [worker EXCEPT ![w].stage = "unresolved"]
  BY DEF CallFails
<1>5. QED
  BY <1>1, <1>2, <1>3, <1>4, StageMoves

LEMMA ReplyInv == ASSUME IInv, NEW w \in Workers, ProviderReplies(w) PROVE IInv'
<1> DEFINE p == worker[w].payment
<1>1. TypeOK'
  BY ReplyType DEF IInv
<1>2. UNCHANGED <<status, fulfilment, hold, job, journals, order, wire, sends>>
  BY DEF ProviderReplies, rows, provider
<1>3. worker[w] # Idle /\ p \in Payments /\ worker[w] \in Round
  BY RoundType, BusyStage DEF ProviderReplies, Stages, IInv
<1>4. PICK r \in Replies(w, p) :
        worker' = [worker EXCEPT ![w] = [@ EXCEPT !.stage = "answered", !.result = r]]
  BY DEF ProviderReplies
<1>5. order[p] # "unknown"
  BY DEF ProviderReplies
<1> HIDE DEF p
<1>6. worker'[w] = [worker[w] EXCEPT !.stage = "answered", !.result = r]
      /\ \A v \in Workers : v # w => worker'[v] = worker[v]
  BY <1>4 DEF IInv, TypeOK
<1>7. worker'[w].stage = "answered" /\ worker'[w].payment = p /\ worker'[w].result = r
  BY <1>3, <1>6 DEF Round, p
<1>8. /\ r.status = "succeeded" => order[p] \in {"settled", "reversed"}
      /\ r.status = "failed" => order[p] \in {"refused", "reversed"}
  <2>1. r.status \in {"review", "pending"} \/ r.status = Report(p)
    BY <1>4 DEF Replies, NoResult
  <2>2. order[p] \in {"open", "settled", "refused", "reversed"}
    BY <1>3, <1>5 DEF IInv, TypeOK
  <2>3. QED
    BY <2>1, <2>2 DEF Report
<1>9. LeaseInv'
  BY <1>2, <1>3, <1>6, <1>7, SamePayments DEF IInv, p
<1>10. (SubmissionInv /\ EvidenceInv)'
  <2>1. SubmissionInv'
    <3>1. \A v \in Workers : worker'[v].stage = "submit" => worker'[v] = worker[v]
      BY <1>6, <1>7
    <3>2. QED
      BY <1>2, <3>1 DEF IInv, SubmissionInv
  <2>2. ASSUME NEW v \in Workers, worker'[v].stage = "answered"
        PROVE  LET q == worker'[v].payment
                   a == worker'[v].result
               IN /\ a.status = "succeeded" => order[q] \in {"settled", "reversed"}
                  /\ a.status = "failed" => order[q] \in {"refused", "reversed"}
    <3>1. CASE v = w
      BY <1>7, <1>8, <3>1
    <3>2. CASE v # w
      BY <1>6, <2>2, <3>2 DEF IInv, EvidenceInv
    <3>3. QED
      BY <3>1, <3>2
  <2>3. EvidenceInv'
    BY <1>2, <2>2 DEF EvidenceInv
  <2>4. QED
    BY <2>1, <2>3
<1>11. (RowsInv /\ HoldFollowsStatus /\ JobMirrorsPayment /\ OutcomeHasEvidence)'
  BY <1>2 DEF IInv, RowsInv, HoldFollowsStatus, JobMirrorsPayment, OutcomeHasEvidence, Complete
<1>12. QED
  BY <1>1, <1>9, <1>10, <1>11 DEF IInv

LEMMA ProviderInv == ASSUME IInv, NEW p \in Payments, ProviderStep(p) PROVE IInv'
<1>1. TypeOK'
  BY ProviderType DEF IInv
<1>2. UNCHANGED <<status, fulfilment, hold, job, journals, worker, sends>>
  BY DEF ProviderStep, ReceiveSubmission, LoseSubmission, Execute, Deliver, Reverse, rows
<1>3. /\ \A q \in Payments : q \in wire' \/ order'[q] # "unknown" => q \in wire \/ order[q] # "unknown"
      /\ \A q \in Payments : order[q] \in {"settled", "reversed"} => order'[q] \in {"settled", "reversed"}
      /\ \A q \in Payments : order[q] \in {"refused", "reversed"} => order'[q] \in {"refused", "reversed"}
  BY DEF ProviderStep, ReceiveSubmission, LoseSubmission, Execute, Deliver, Reverse, IInv, TypeOK
<1>4. (LeaseInv /\ SubmissionInv)'
  BY <1>2, <1>3 DEF IInv, LeaseInv, HasToken, SubmissionInv
<1>5. EvidenceInv'
  <2> SUFFICES ASSUME NEW w \in Workers, worker[w].stage = "answered"
               PROVE  LET q == worker[w].payment
                          r == worker[w].result
                      IN /\ r.status = "succeeded" => order'[q] \in {"settled", "reversed"}
                         /\ r.status = "failed" => order'[q] \in {"refused", "reversed"}
    BY <1>2 DEF EvidenceInv
  <2>1. worker[w].payment \in Payments
    BY RoundType, BusyStage DEF Stages, IInv
  <2>2. QED
    BY <1>3, <2>1 DEF IInv, EvidenceInv
<1>6. (RowsInv /\ HoldFollowsStatus /\ JobMirrorsPayment)'
  BY <1>2 DEF IInv, RowsInv, HoldFollowsStatus, JobMirrorsPayment, Complete
<1>7. OutcomeHasEvidence'
  BY <1>2, <1>3 DEF IInv, OutcomeHasEvidence, External
<1>8. QED
  BY <1>1, <1>4, <1>5, <1>6, <1>7 DEF IInv

LEMMA BeginInv == ASSUME IInv, NEW w \in Workers, Begin(w) PROVE IInv'
<1> DEFINE p == worker[w].payment
<1>1. TypeOK'
  BY BeginType DEF IInv
<1>2. UNCHANGED <<order, wire, journals, sends>>
  BY DEF Begin, BeginLost, BeginSkip, BeginSubmit, Unsent, BeginQuery, rows, provider, ledgerVars
<1>3. worker[w].stage = "leased" /\ worker[w] # Idle /\ p \in Payments /\ p \in External
  BY BusyStage, OutFor DEF Begin, Stages
<1>4. StillLeased(w, p) =>
        HasToken(w, p) /\ job[p].status = "leased"
        /\ status[p] \notin {"none", "pending_review"} /\ ~Complete(p)
  BY <1>3, OutFor DEF StillLeased, HasToken
<1> HIDE DEF p
<1>5. CASE BeginLost(w, p)
  <2>1. worker'[w] = Idle /\ \A v \in Workers : v # w => worker'[v] = worker[v]
    BY <1>5, FinishAfter DEF BeginLost, IInv
  <2>2. UNCHANGED <<status, fulfilment, hold, job>>
    BY <1>5 DEF BeginLost, rows
  <2>3. (LeaseInv /\ SubmissionInv /\ EvidenceInv)'
    BY <1>2, <2>1, <2>2 DEF IInv, LeaseInv, HasToken, SubmissionInv, EvidenceInv, Idle
  <2>4. (RowsInv /\ HoldFollowsStatus /\ JobMirrorsPayment /\ OutcomeHasEvidence)'
    BY <1>2, <2>2 DEF IInv, RowsInv, HoldFollowsStatus, JobMirrorsPayment, OutcomeHasEvidence, Complete
  <2>5. QED
    BY <1>1, <2>3, <2>4 DEF IInv
<1>6. CASE BeginSkip(w, p)
  <2>1. /\ Withheld(p) /\ status[p] = "accepted" /\ ~Complete(p)
        /\ Finish(w) /\ JobBecomes(p, "dead") /\ HasToken(w, p)
        /\ status' = [status EXCEPT ![p] = "pending_review"] /\ UNCHANGED <<fulfilment, hold>>
    BY <1>4, <1>6 DEF BeginSkip, Withheld
  <2>2. /\ worker'[w] = Idle /\ \A v \in Workers : v # w => worker'[v] = worker[v]
        /\ job'[p].status = "dead" /\ \A q \in Payments : q # p => job'[q] = job[q]
    BY <1>3, <2>1, FinishAfter, JobRowAfter DEF IInv
  <2>3. LeaseInv'
    BY <1>3, <2>1, RoundEnds
  <2>4. /\ status'[p] = "pending_review" /\ \A q \in Payments : q # p => status'[q] = status[q]
    BY <1>3, <2>1 DEF IInv, TypeOK
  <2>5. SubmissionInv'
    <3>1. \A q \in Payments : status'[q] \in {"none", "accepted"} => status[q] = status'[q]
      BY <2>4
    <3>2. ASSUME NEW v \in Workers, worker'[v].stage = "submit"
          PROVE  /\ worker[v].stage = "submit" /\ worker'[v] = worker[v]
                 /\ worker[v].payment \in Payments /\ status'[worker[v].payment] # "accepted"
      <4>1. v # w /\ worker'[v] = worker[v]
        BY <2>2, <3>2 DEF Idle
      <4>2. worker[v].payment \in Payments
        BY <3>2, <4>1, RoundType, BusyStage DEF IInv, Stages
      <4>3. QED
        BY <3>1, <3>2, <4>1, <4>2 DEF IInv, SubmissionInv
    <3>3. QED
      BY <1>2, <3>1, <3>2 DEF IInv, SubmissionInv
  <2>6. (EvidenceInv)'
    BY <1>2, <2>2 DEF IInv, EvidenceInv, Idle
  <2>7. RowsInv'
    BY <1>2, <1>3, <2>1, <2>2, <2>4 DEF IInv, RowsInv
  <2>8. HoldFollowsStatus'
    BY <2>1, <2>4 DEF IInv, HoldFollowsStatus, External, Unsettled
  <2>9. JobMirrorsPayment'
    BY <2>1, <2>2, <2>4 DEF IInv, JobMirrorsPayment, External, Complete
  <2>10. OutcomeHasEvidence'
    BY <1>2, <2>4 DEF IInv, OutcomeHasEvidence, External
  <2>11. QED
    BY <1>1, <2>3, <2>5, <2>6, <2>7, <2>8, <2>9, <2>10 DEF IInv
<1>7. CASE BeginSubmit(w, p)
  <2>1. /\ status[p] = "accepted" /\ UNCHANGED <<fulfilment, hold, job>>
        /\ status' = [status EXCEPT ![p] = "submitted"]
        /\ worker' = [worker EXCEPT ![w].stage = "submit"]
    BY <1>7 DEF BeginSubmit, Unsent, ledgerVars
  <2>2. /\ worker'[w] # Idle /\ worker'[w].stage = "submit" /\ worker'[w].payment = p
        /\ \A v \in Workers : v # w => worker'[v] = worker[v]
    BY <1>3, <2>1, StageAfter DEF IInv, Stages, p
  <2>3. LeaseInv'
    BY <1>3, <2>1, <2>2 DEF IInv, LeaseInv, HasToken, p
  <2>4. /\ status'[p] = "submitted" /\ \A q \in Payments : q # p => status'[q] = status[q]
    BY <1>3, <2>1 DEF IInv, TypeOK
  <2>5. SubmissionInv'
    <3>1. \A q \in Payments : status'[q] \in {"none", "accepted"} => status[q] = status'[q]
      BY <2>4
    <3>2. sends[p] = 0
      BY <1>3, <2>1 DEF IInv, SubmissionInv
    <3>3. ASSUME NEW v \in Workers, v # w, worker'[v].stage = "submit"
          PROVE  /\ worker[v].stage = "submit" /\ worker'[v] = worker[v]
                 /\ worker[v].payment \in Payments /\ worker[v].payment # p
      <4>1. worker'[v] = worker[v] /\ worker[v].stage = "submit"
        BY <2>2, <3>3
      <4>2. worker[v].payment \in Payments
        BY <4>1, RoundType, BusyStage DEF IInv, Stages
      <4>3. QED
        BY <2>1, <4>1, <4>2 DEF IInv, SubmissionInv
    <3>4. \A v \in Workers : worker'[v].stage = "submit" =>
            sends[worker'[v].payment] = 0 /\ status'[worker'[v].payment] # "accepted"
      <4>1. ASSUME NEW v \in Workers, v # w, worker'[v].stage = "submit"
            PROVE  sends[worker'[v].payment] = 0 /\ status'[worker'[v].payment] # "accepted"
        BY <2>4, <3>3, <4>1 DEF IInv, SubmissionInv
      <4>2. QED
        BY <2>2, <2>4, <3>2, <4>1
    <3>5. \A u, v \in Workers :
            (/\ worker'[u].stage = "submit" /\ worker'[v].stage = "submit"
             /\ worker'[u].payment = worker'[v].payment) => u = v
      <4>0. SUFFICES ASSUME NEW u \in Workers, NEW v \in Workers, worker'[u].stage = "submit",
                            worker'[v].stage = "submit", worker'[u].payment = worker'[v].payment
                     PROVE  u = v
        OBVIOUS
      <4>1. \A x \in Workers : x # w /\ worker'[x].stage = "submit" =>
              worker'[x] = worker[x] /\ worker'[x].payment # p
        BY <3>3
      <4>2. CASE u = w \/ v = w
        <5>1. worker'[u].payment = p /\ worker'[v].payment = p
          BY <2>2, <4>0, <4>2
        <5>2. u = w /\ v = w
          BY <4>0, <4>1, <5>1
        <5>3. QED
          BY <5>2
      <4>3. CASE u # w /\ v # w
        <5>1. worker'[u] = worker[u] /\ worker'[v] = worker[v]
          BY <4>0, <4>1, <4>3
        <5>2. QED
          BY <4>0, <5>1 DEF IInv, SubmissionInv
      <4>4. QED
        BY <4>2, <4>3
    <3>6. QED
      BY <1>2, <3>1, <3>4, <3>5 DEF IInv, SubmissionInv
  <2>6. EvidenceInv'
    BY <1>2, <2>2 DEF IInv, EvidenceInv
  <2>7. RowsInv'
    BY <1>2, <1>3, <2>1, <2>4 DEF IInv, RowsInv
  <2>8. HoldFollowsStatus'
    BY <2>1, <2>4 DEF IInv, HoldFollowsStatus, External, Unsettled
  <2>9. JobMirrorsPayment'
    <3>1. job[p].status = "leased"
      BY <1>4, <1>7 DEF BeginSubmit, Unsent
    <3>2. QED
      BY <2>1, <2>4, <3>1 DEF IInv, JobMirrorsPayment, External, Complete
  <2>10. OutcomeHasEvidence'
    BY <1>2, <2>4 DEF IInv, OutcomeHasEvidence, External
  <2>11. QED
    BY <1>1, <2>3, <2>5, <2>6, <2>7, <2>8, <2>9, <2>10 DEF IInv
<1>8. CASE BeginQuery(w, p)
  <2>1. UNCHANGED <<status, fulfilment, hold, job>> /\ "query" \in Stages \ {"submit", "answered"}
    BY <1>8 DEF BeginQuery, rows, Stages
  <2>2. worker' = [worker EXCEPT ![w].stage = "query"]
    BY <1>8 DEF BeginQuery
  <2>3. QED
    BY <1>1, <1>2, <1>3, <2>1, <2>2, StageMoves
<1>9. QED
  BY <1>5, <1>6, <1>7, <1>8 DEF Begin, p

(* The rounds that go on do not depend on a payment's row when the step    *)
(* leaves "none" and "accepted" alone.                                     *)
LEMMA RoundsUnmoved ==
  ASSUME IInv, NEW w \in Workers, worker'[w] = Idle,
         \A v \in Workers : v # w => worker'[v] = worker[v],
         \A q \in Payments : status'[q] \in {"none", "accepted"} => status[q] = status'[q],
         UNCHANGED <<order, wire, sends>>
  PROVE  (SubmissionInv /\ EvidenceInv)'
<1>1. \A v \in Workers : worker'[v].stage \in Stages =>
        v # w /\ worker'[v] = worker[v] /\ worker[v].payment \in Payments
  BY RoundType, BusyStage DEF IInv, Idle, Stages
<1>2. SubmissionInv'
  <2>1. \A v \in Workers : worker'[v].stage = "submit" =>
          /\ worker'[v] = worker[v] /\ sends[worker[v].payment] = 0
          /\ status'[worker[v].payment] # "accepted"
    BY <1>1 DEF IInv, SubmissionInv, Stages
  <2>2. QED
    BY <2>1 DEF IInv, SubmissionInv
<1>3. EvidenceInv'
  BY <1>1 DEF IInv, EvidenceInv, Stages
<1>4. QED
  BY <1>2, <1>3

LEMMA RetryInv == ASSUME IInv, NEW w \in Workers, RetryPayment(w) PROVE IInv'
<1>1. TypeOK'
  BY RetryType DEF IInv
<1>2. UNCHANGED <<fulfilment, hold, journals, order, wire, sends>> /\ Finish(w)
  BY DEF RetryPayment, StatusAfterError, ledgerVars, provider
<1>3. PICK p \in External : p = worker[w].payment /\ worker[w] # Idle /\ p \in Payments
  BY BusyStage, OutFor DEF RetryPayment, StatusAfterError, Stages
<1>4. worker'[w] = Idle /\ \A v \in Workers : v # w => worker'[v] = worker[v]
  BY <1>2, FinishAfter DEF IInv
<1>5. HasToken(w, p) => /\ job[p].status = "leased" /\ status[p] \notin {"none", "pending_review"}
                        /\ ~Complete(p)
  BY <1>3, OutFor
<1>6. CASE UNCHANGED <<status, job>>
  <2>1. LeaseInv'
    BY <1>4, <1>6 DEF IInv, LeaseInv, HasToken
  <2>2. (SubmissionInv /\ EvidenceInv)'
    BY <1>2, <1>4, <1>6, RoundsUnmoved
  <2>3. (RowsInv /\ HoldFollowsStatus /\ JobMirrorsPayment /\ OutcomeHasEvidence)'
    BY <1>2, <1>6 DEF IInv, RowsInv, HoldFollowsStatus, JobMirrorsPayment, OutcomeHasEvidence, Complete
  <2>4. QED
    BY <1>1, <2>1, <2>2, <2>3 DEF IInv
<1>7. CASE /\ HasToken(w, p) /\ JobBecomes(p, Requeued(w))
           /\ status' = IF status[p] \in {"accepted", "submitted", "pending"}
                        THEN [status EXCEPT ![p] = "pending"] ELSE status
  <2>1. Requeued(w) \in {"queued", "dead"}
    BY DEF Requeued
  <2>2. job'[p].status \in {"queued", "dead"} /\ \A q \in Payments : q # p => job'[q] = job[q]
    BY <1>3, <1>7, <2>1, JobRowAfter DEF IInv
  <2>3. /\ status'[p] \in {"pending", "succeeded"} /\ (status'[p] = "succeeded" <=> status[p] = "succeeded")
        /\ \A q \in Payments : q # p => status'[q] = status[q]
    BY <1>3, <1>5, <1>7 DEF IInv, TypeOK, Statuses, Unsettled, Terminal, Complete
  <2>4. LeaseInv'
    BY <1>2, <1>3, <1>7, <2>1, RoundEnds
  <2>5. (SubmissionInv /\ EvidenceInv)'
    BY <1>2, <1>4, <2>3, RoundsUnmoved
  <2>6. RowsInv'
    <3> SUFFICES ASSUME NEW q \in Payments
                 PROVE  /\ q \in journals <=> status'[q] = "succeeded"
                        /\ q \notin External => status'[q] \in {"none", "succeeded"} /\ job'[q].status = "none"
                        /\ fulfilment[q] = "pending" => q \in Bills
                        /\ q \in Bills /\ status'[q] # "none" => fulfilment[q] # "not_applicable"
      BY <1>2 DEF RowsInv
    <3>1. CASE q = p
      BY <1>3, <1>5, <1>7, <2>3, <3>1 DEF IInv, RowsInv
    <3>2. CASE q # p
      BY <2>2, <2>3, <3>2 DEF IInv, RowsInv
    <3>3. QED
      BY <3>1, <3>2
  <2>7. HoldFollowsStatus'
    <3>1. status[p] = "succeeded" \/ status[p] \in Unsettled
      BY <1>3, <1>5, <1>7 DEF IInv, TypeOK, Statuses, Terminal, Complete
    <3>2. QED
      BY <1>2, <2>3, <3>1 DEF IInv, HoldFollowsStatus, External, Unsettled
  <2>8. JobMirrorsPayment'
    <3>1. ~Complete(p)'
      BY <1>2, <1>5, <1>7, <2>3 DEF Complete
    <3>2. QED
      BY <1>2, <2>2, <2>3, <3>1 DEF IInv, JobMirrorsPayment, External, Complete
  <2>9. OutcomeHasEvidence'
    BY <1>2, <2>3 DEF IInv, OutcomeHasEvidence, External
  <2>10. QED
    BY <1>1, <2>4, <2>5, <2>6, <2>7, <2>8, <2>9 DEF IInv
<1>8. QED
  BY <1>3, <1>6, <1>7 DEF RetryPayment, StatusAfterError

(* What an applied answer leaves in the rows of its payment.               *)
LEMMA OutcomeRows ==
  ASSUME IInv, NEW w \in Workers, worker[w].stage = "answered", NEW p \in External, p \in Payments,
         p = worker[w].payment, HasToken(w, p), Finish(w), ApplyOutcome(w, p, worker[w].result)
  PROVE  /\ status'[p] = worker[w].result.status
         /\ status'[p] \in Terminal
         /\ hold'[p] = IF status'[p] = "succeeded" THEN "captured" ELSE "released"
         /\ p \in journals' <=> status'[p] = "succeeded"
         /\ status[p] # "none"
         /\ fulfilment'[p] = "pending" => p \in Bills
         /\ fulfilment'[p] = "not_applicable" => p \notin Bills
         /\ job'[p].status = "done" => Complete(p)'
         /\ job'[p].status \in {"queued", "dead"} => ~Complete(p)'
         /\ job'[p].status \in {"done", "queued", "dead"}
         /\ \A q \in Payments : q # p => /\ UNCHANGED <<status[q], hold[q], fulfilment[q], job[q]>>
                                         /\ q \in journals' <=> q \in journals
<1> DEFINE r == worker[w].result
<1>1. /\ status[p] \notin {"none", "pending_review"} /\ ~Complete(p)
  BY OutFor, BusyStage DEF Stages
<1>2. r.status \in Terminal /\ ~Contradicts(p, r) /\ Settle(p, r) /\ Fulfil(w, p, r)
  BY DEF ApplyOutcome
<1> HIDE DEF r
<1>3. /\ status'[p] = r.status
      /\ hold'[p] = IF r.status = "succeeded" THEN "captured" ELSE "released"
      /\ p \in journals' <=> r.status = "succeeded"
      /\ \A q \in Payments : q # p => /\ UNCHANGED <<status[q], hold[q]>>
                                      /\ q \in journals' <=> q \in journals
  <2>1. CASE status[p] \in Terminal
    <3>1. status[p] = "succeeded" /\ r.status = "succeeded"
      BY <1>1, <1>2, <2>1 DEF Terminal, Complete, Contradicts
    <3>2. hold[p] = "captured" /\ p \in journals
      BY <3>1 DEF IInv, HoldFollowsStatus, RowsInv
    <3>3. UNCHANGED <<status, hold, journals>>
      BY <1>2, <2>1 DEF Settle, ledgerVars
    <3>4. QED
      BY <3>1, <3>2, <3>3
  <2>2. CASE status[p] \notin Terminal
    <3>1. /\ hold' = [hold EXCEPT ![p] = IF r.status = "succeeded" THEN "captured" ELSE "released"]
          /\ status' = [status EXCEPT ![p] = r.status]
          /\ journals' = IF r.status = "succeeded" THEN journals \cup {p} ELSE journals
      BY <1>2, <2>2 DEF Settle, PostJournal
    <3>2. p \notin journals
      BY <2>2 DEF IInv, RowsInv, Terminal
    <3>3. QED
      BY <3>1, <3>2 DEF IInv, TypeOK
  <2>3. QED
    BY <2>1, <2>2
<1>4. Requeued(w) \in {"queued", "dead"}
  BY DEF Requeued
<1>5. PICK s \in {"done", "queued", "dead"} :
        /\ JobBecomes(p, s)
        /\ s = "done" => p \notin Bills \/ r.status # "succeeded" \/ fulfilment'[p] = "ready"
        /\ s # "done" => p \in Bills /\ r.status = "succeeded" /\ fulfilment'[p] # "ready"
        /\ \/ fulfilment' = fulfilment
           \/ fulfilment' = [fulfilment EXCEPT ![p] = "ready"] /\ p \in Bills
  <2>1. CASE p \in Bills /\ r.status = "succeeded" /\ fulfilment[p] # "ready" /\ r.fulfilled
    <3>1. JobBecomes(p, "done") /\ fulfilment' = [fulfilment EXCEPT ![p] = "ready"]
      BY <1>2, <2>1 DEF Fulfil
    <3>2. fulfilment'[p] = "ready"
      BY <3>1 DEF IInv, TypeOK
    <3>3. QED
      BY <2>1, <3>1, <3>2
  <2>2. CASE p \in Bills /\ r.status = "succeeded" /\ fulfilment[p] # "ready" /\ ~r.fulfilled
    <3>1. JobBecomes(p, Requeued(w)) /\ fulfilment' = fulfilment
      BY <1>2, <2>2 DEF Fulfil
    <3>2. CASE Requeued(w) = "queued"
      BY <2>2, <3>1, <3>2
    <3>3. CASE Requeued(w) = "dead"
      BY <2>2, <3>1, <3>3
    <3>4. QED
      BY <1>4, <3>2, <3>3
  <2>3. CASE ~(p \in Bills /\ r.status = "succeeded" /\ fulfilment[p] # "ready")
    <3>1. JobBecomes(p, "done") /\ fulfilment' = fulfilment
      BY <1>2, <2>3 DEF Fulfil
    <3>2. QED
      BY <2>3, <3>1
  <2>4. QED
    BY <2>1, <2>2, <2>3
<1>6. job'[p].status = s /\ \A q \in Payments : q # p => job'[q] = job[q]
  BY <1>5, JobRowAfter DEF IInv
<1>7. /\ fulfilment'[p] = "pending" => p \in Bills
      /\ fulfilment'[p] = "not_applicable" => p \notin Bills
      /\ fulfilment'[p] \in {"not_applicable", "pending", "ready"}
      /\ \A q \in Payments : q # p => fulfilment'[q] = fulfilment[q]
  BY <1>1, <1>5 DEF IInv, RowsInv, TypeOK
<1>8. /\ s = "done" => Complete(p)'
      /\ s # "done" => ~Complete(p)'
  <2>1. r.status \in {"succeeded", "failed"} /\ status'[p] = r.status
    BY <1>2, <1>3 DEF Terminal
  <2>2. s # "done" => r.status = "succeeded" /\ fulfilment'[p] = "pending"
    BY <1>5, <1>7
  <2>3. s = "done" => r.status = "failed" \/ fulfilment'[p] # "pending"
    BY <1>5, <1>7, <2>1
  <2>4. QED
    BY <2>1, <2>2, <2>3 DEF Complete
<1>9. QED
  BY <1>1, <1>2, <1>3, <1>6, <1>7, <1>8 DEF r

LEMMA ApplyInv == ASSUME IInv, NEW w \in Workers, ApplyResult(w) PROVE IInv'
<1>1. TypeOK'
  BY ApplyType DEF IInv
<1>2. UNCHANGED <<order, wire, sends>> /\ Finish(w) /\ worker[w].stage = "answered"
  BY DEF ApplyResult, provider
<1>3. PICK p \in External : p = worker[w].payment /\ worker[w] # Idle /\ p \in Payments
  BY <1>2, BusyStage, OutFor DEF Stages
<1>4. worker'[w] = Idle /\ \A v \in Workers : v # w => worker'[v] = worker[v]
  BY <1>2, FinishAfter DEF IInv
<1>5. HasToken(w, p) => /\ job[p].status = "leased" /\ status[p] \notin {"none", "pending_review"}
                        /\ ~Complete(p)
  BY <1>3, OutFor
<1>6. CASE UNCHANGED rows
  <2>1. LeaseInv'
    BY <1>4, <1>6 DEF IInv, LeaseInv, HasToken, rows
  <2>2. (SubmissionInv /\ EvidenceInv)'
    BY <1>2, <1>4, <1>6, RoundsUnmoved DEF rows
  <2>3. (RowsInv /\ HoldFollowsStatus /\ JobMirrorsPayment /\ OutcomeHasEvidence)'
    BY <1>2, <1>6 DEF IInv, RowsInv, HoldFollowsStatus, JobMirrorsPayment, OutcomeHasEvidence, Complete, rows
  <2>4. QED
    BY <1>1, <2>1, <2>2, <2>3 DEF IInv
<1>7. ASSUME HasToken(w, p), NEW s \in {"queued", "dead"}, JobBecomes(p, s),
             UNCHANGED <<fulfilment, hold, journals>>,
             NEW t \in {"pending", "pending_review"}, t = "pending_review" => s = "dead",
             status' = IF status[p] \in Terminal THEN status ELSE [status EXCEPT ![p] = t]
      PROVE  IInv'
  <2>1. job'[p].status = s /\ \A q \in Payments : q # p => job'[q] = job[q]
    BY <1>3, <1>7, JobRowAfter DEF IInv
  <2>2. /\ status[p] \in Terminal => status'[p] = status[p]
        /\ status[p] \notin Terminal => status'[p] = t
        /\ \A q \in Payments : q # p => status'[q] = status[q]
    BY <1>3, <1>7 DEF IInv, TypeOK
  <2>3. status[p] \in Terminal \/ status[p] \in Unsettled
    BY <1>3, <1>5, <1>7 DEF IInv, TypeOK, Statuses
  <2>4. LeaseInv'
    BY <1>2, <1>3, <1>7, RoundEnds
  <2>5. (SubmissionInv /\ EvidenceInv)'
    BY <1>2, <1>4, <2>2, RoundsUnmoved DEF Terminal
  <2>6. RowsInv'
    BY <1>3, <1>5, <1>7, <2>1, <2>2, <2>3 DEF IInv, RowsInv, Terminal, Unsettled
  <2>7. HoldFollowsStatus'
    BY <1>7, <2>2, <2>3 DEF IInv, HoldFollowsStatus, External, Unsettled, Terminal
  <2>8. JobMirrorsPayment'
    <3>1. ~Complete(p)'
      BY <1>5, <1>7, <2>2, <2>3 DEF Complete, Terminal
    <3>2. status'[p] \notin {"none", "accepted"}
      BY <2>2, <2>3 DEF Terminal
    <3>3. s = "queued" => status'[p] # "pending_review"
      BY <1>7, <2>2, <2>3 DEF Terminal
    <3>4. QED
      BY <1>7, <2>1, <2>2, <3>1, <3>2, <3>3 DEF IInv, JobMirrorsPayment, External, Complete
  <2>9. OutcomeHasEvidence'
    BY <1>2, <2>2, <2>3 DEF IInv, OutcomeHasEvidence, External, Terminal
  <2>10. QED
    BY <1>1, <2>4, <2>5, <2>6, <2>7, <2>8, <2>9 DEF IInv
<1>8. CASE HasToken(w, p) /\ ApplyConflict(p, worker[w].result)
  BY <1>7, <1>8 DEF ApplyConflict, ledgerVars
<1>9. CASE HasToken(w, p) /\ ApplyPending(w, p, worker[w].result)
  BY <1>7, <1>9 DEF ApplyPending, Requeued, ledgerVars
<1>10. CASE HasToken(w, p) /\ ApplyOutcome(w, p, worker[w].result)
  <2> DEFINE r == worker[w].result
  <2>1. /\ status'[p] = r.status
        /\ status'[p] \in Terminal
        /\ hold'[p] = IF status'[p] = "succeeded" THEN "captured" ELSE "released"
        /\ p \in journals' <=> status'[p] = "succeeded"
        /\ status[p] # "none"
        /\ fulfilment'[p] = "pending" => p \in Bills
        /\ fulfilment'[p] = "not_applicable" => p \notin Bills
        /\ job'[p].status = "done" => Complete(p)'
        /\ job'[p].status \in {"queued", "dead"} => ~Complete(p)'
        /\ job'[p].status \in {"done", "queued", "dead"}
        /\ \A q \in Payments : q # p => /\ UNCHANGED <<status[q], hold[q], fulfilment[q], job[q]>>
                                        /\ q \in journals' <=> q \in journals
    BY <1>2, <1>3, <1>10, OutcomeRows
  <2>2. /\ r.status = "succeeded" => order[p] \in {"settled", "reversed"}
        /\ r.status = "failed" => order[p] \in {"refused", "reversed"}
    BY <1>2, <1>3 DEF IInv, EvidenceInv
  <2>3. PICK s \in {"done", "queued", "dead"} : JobBecomes(p, s)
    BY <1>10 DEF ApplyOutcome, Fulfil, Requeued
  <2> HIDE DEF r
  <2>4. LeaseInv'
    BY <1>2, <1>3, <1>10, <2>3, RoundEnds
  <2>5. (SubmissionInv /\ EvidenceInv)'
    BY <1>2, <1>4, <2>1, RoundsUnmoved DEF Terminal
  <2>6. RowsInv'
    BY <1>3, <2>1 DEF IInv, RowsInv
  <2>7. HoldFollowsStatus'
    BY <2>1 DEF IInv, HoldFollowsStatus, External, Unsettled, Terminal
  <2>8. JobMirrorsPayment'
    <3> SUFFICES ASSUME NEW q \in External
                 PROVE  /\ job'[q].status = "none" => status'[q] = "none"
                        /\ job'[q].status = "done" => Complete(q)'
                        /\ job'[q].status = "dead" => status'[q] \notin {"none", "accepted"} /\ ~Complete(q)'
                        /\ job'[q].status \in {"queued", "leased"} =>
                             status'[q] \notin {"none", "pending_review"} /\ ~Complete(q)'
      BY DEF JobMirrorsPayment
    <3>1. CASE q = p
      BY <2>1, <3>1 DEF Terminal
    <3>2. CASE q # p
      BY <2>1, <3>2 DEF IInv, JobMirrorsPayment, External, Complete
    <3>3. QED
      BY <3>1, <3>2
  <2>9. OutcomeHasEvidence'
    BY <1>2, <2>1, <2>2 DEF IInv, OutcomeHasEvidence, External
  <2>10. QED
    BY <1>1, <2>4, <2>5, <2>6, <2>7, <2>8, <2>9 DEF IInv
<1>11. QED
  BY <1>3, <1>6, <1>8, <1>9, <1>10 DEF ApplyResult

(* Every step of the system keeps the invariant.                           *)
LEMMA NextInv == IInv /\ [Next]_vars => IInv'
<1> SUFFICES ASSUME IInv, [Next]_vars PROVE IInv'
  OBVIOUS
<1>1. CASE UNCHANGED vars
  <2>1. TypeOK'
    BY <1>1 DEF IInv, vars, rows, provider, TypeOK, LedgerTypeOK
  <2>2. UNCHANGED <<status, fulfilment, hold, job, journals, worker, order, wire, sends>>
    BY <1>1 DEF vars, rows, provider
  <2>3. (LeaseInv /\ SubmissionInv /\ EvidenceInv /\ RowsInv)'
    BY <2>2 DEF IInv, LeaseInv, HasToken, SubmissionInv, EvidenceInv, RowsInv
  <2>4. (HoldFollowsStatus /\ JobMirrorsPayment /\ OutcomeHasEvidence)'
    BY <2>2 DEF IInv, HoldFollowsStatus, JobMirrorsPayment, OutcomeHasEvidence, Complete
  <2>5. QED
    BY <2>1, <2>3, <2>4 DEF IInv
<1>2. CASE Next
  BY <1>2, CreateInv, FundingInv, StandingInv, RequeueInv, LapseInv, CrashInv, LeaseKeepsInv,
     BeginInv, SendInv, ReplyInv, CallFailsInv, RetryInv, ApplyInv, ProviderInv DEF Next, WorkerStep
<1>3. QED
  BY <1>1, <1>2

(* The invariant holds in every reachable state.                           *)
THEOREM Invariant == Spec => []IInv
BY InitInv, NextInv, PTL DEF Spec

(* No payment is submitted to the provider twice, whatever crashes, lapsed *)
(* leases and late workers surround the call (worker.go:13).               *)
THEOREM NeverResubmitted == Spec => []SubmittedAtMostOnce
<1>1. IInv => SubmittedAtMostOnce
  BY DEF IInv, SubmissionInv, SubmittedAtMostOnce
<1>2. QED
  BY <1>1, Invariant, PTL

(* Holds, jobs and payments tell the same story in every state.            *)
THEOREM RowsAgree == Spec => [](HoldFollowsStatus /\ JobMirrorsPayment)
<1>1. IInv => HoldFollowsStatus /\ JobMirrorsPayment
  BY DEF IInv
<1>2. QED
  BY <1>1, Invariant, PTL

(* Captured money was settled by the provider, released money was not.     *)
THEOREM EvidenceFirst == Spec => []OutcomeHasEvidence
<1>1. IInv => OutcomeHasEvidence
  BY DEF IInv
<1>2. QED
  BY <1>1, Invariant, PTL

-----------------------------------------------------------------------------
(* What no step may do                                                     *)

(* How one step may change the status of one payment.                      *)
StatusMoves(p) ==
  \/ status'[p] = status[p]
  \/ status[p] = "none" /\ status'[p] \in {"accepted", "succeeded"}
  \/ status[p] = "accepted" /\ status'[p] \in {"submitted", "pending_review"}
  \/ /\ p \in External /\ sends[p] <= 1
     /\ status[p] \in {"accepted", "submitted", "pending"}
     /\ status'[p] \in {"pending", "pending_review", "succeeded", "failed"}

LEMMA StepMoves == ASSUME IInv, [Next]_vars, NEW p \in Payments PROVE StatusMoves(p)
<1>1. CASE \E q \in Payments : CreatePayment(q)
  BY <1>1 DEF CreatePayment, CreateInternal, CreateExternal, StatusMoves, IInv, TypeOK
<1>2. CASE \E w \in Workers : Begin(w)
  <2> PICK w \in Workers : Begin(w)
    BY <1>2
  <2> PICK q \in Payments : q = worker[w].payment
    BY BusyStage, OutFor DEF Begin, Stages
  <2>1. /\ BeginLost(w, q) \/ BeginSkip(w, q) \/ BeginSubmit(w, q) \/ BeginQuery(w, q)
    BY DEF Begin
  <2>2. QED
    BY <2>1 DEF BeginLost, BeginSkip, BeginSubmit, Unsent, BeginQuery, Withheld, rows, StatusMoves, IInv, TypeOK
<1>3. CASE \E w \in Workers : RetryPayment(w)
  <2> PICK w \in Workers : RetryPayment(w)
    BY <1>3
  <2> PICK q \in External : q = worker[w].payment /\ q \in Payments
    BY BusyStage, OutFor DEF RetryPayment, StatusAfterError, Stages
  <2>1. \/ UNCHANGED status
        \/ status[q] \in {"accepted", "submitted", "pending"} /\ status' = [status EXCEPT ![q] = "pending"]
    BY DEF RetryPayment, StatusAfterError
  <2>2. QED
    BY <2>1 DEF StatusMoves, IInv, TypeOK, SubmissionInv
<1>4. CASE \E w \in Workers : ApplyResult(w)
  <2> PICK w \in Workers : ApplyResult(w)
    BY <1>4
  <2>1. worker[w].stage = "answered" /\ worker[w] # Idle
    BY BusyStage DEF ApplyResult, Stages
  <2> PICK q \in External : q = worker[w].payment /\ q \in Payments
    BY <2>1, OutFor
  <2>2. HasToken(w, q) => status[q] \notin {"none", "pending_review"}
    BY <2>1, OutFor
  <2>3. UNCHANGED status
        \/ /\ HasToken(w, q) /\ status[q] \notin Terminal
           /\ \E s \in {"pending", "pending_review", "succeeded", "failed"} :
                status' = [status EXCEPT ![q] = s]
    BY DEF ApplyResult, ApplyConflict, ApplyPending, ApplyOutcome, Settle, Terminal, rows
  <2>4. QED
    BY <2>2, <2>3 DEF StatusMoves, IInv, TypeOK, Statuses, Unsettled, Terminal, SubmissionInv
<1>5. CASE UNCHANGED status
  BY <1>5 DEF StatusMoves
<1>6. QED
  BY <1>1, <1>2, <1>3, <1>4, <1>5
     DEF Next, WorkerStep, ProviderStep, RetryJob, LeaseLapses, CreditFunding, StandingChanges, Crash,
         SendSubmission, ProviderReplies, CallFails, Lease, ReceiveSubmission, LoseSubmission, Execute,
         Deliver, Reverse, rows, vars

(* A reported outcome is final.                                            *)
THEOREM FinalOutcome == Spec => OutcomeIsFinal
<1>1. IInv /\ [Next]_vars => [\A p \in Payments : status[p] \in Terminal => status'[p] = status[p]]_vars
  BY StepMoves DEF StatusMoves, Terminal
<1>2. QED
  BY <1>1, Invariant, PTL DEF Spec, OutcomeIsFinal

(* A payment in review keeps its status and its hold.                      *)
THEOREM ReviewHolds == Spec => ReviewRetainsFunds
<1>1. IInv /\ IInv' /\ [Next]_vars =>
        [\A p \in Payments : status[p] = "pending_review" =>
            status'[p] = "pending_review" /\ hold'[p] = "active"]_vars
  <2> SUFFICES ASSUME IInv, IInv', [Next]_vars, NEW p \in Payments, status[p] = "pending_review"
               PROVE  status'[p] = "pending_review" /\ hold'[p] = "active"
    OBVIOUS
  <2>1. status'[p] = "pending_review"
    BY StepMoves DEF StatusMoves
  <2>2. p \in External
    BY DEF IInv, RowsInv
  <2>3. QED
    BY <2>1, <2>2 DEF IInv, HoldFollowsStatus, Unsettled
<1>2. QED
  BY <1>1, Invariant, PTL DEF Spec, ReviewRetainsFunds

-----------------------------------------------------------------------------
(* Refinement: the values of the abstract variables.                       *)
Spendable  == [c \in Customers |-> Available(c)]
OutcomeOf  == [p \in Payments |-> PromiseOutcome(p)]
HandedOver == {p \in Payments : sends[p] > 0}
Credited   == journals \cap Fundings

LEMMA InitRefines == Init => Promise!Init
<1> SUFFICES ASSUME Init PROVE Promise!Init
  OBVIOUS
<1>1. ASSUME NEW c \in Customers PROVE Available(c) = 0
  <2>1. balance[c] = 0 /\ reserved[c] = 0
    BY DEF Init, LedgerInit, Account
  <2>2. QED
    BY <2>1 DEF Available
<1>2. \A p \in Payments : PromiseOutcome(p) = "none"
  BY DEF Init, PromiseOutcome, Unsettled
<1>3. HandedOver = {} /\ Credited = {}
  BY DEF Init, LedgerInit, HandedOver, Credited
<1>4. QED
  BY <1>1, <1>2, <1>3 DEF Promise!Init, HandedOver, Credited

(* A step that leaves these alone is a stutter of the promise.             *)
LEMMA Stutter ==
  ASSUME UNCHANGED <<balance, reserved, journals, sends>>,
         \A p \in Payments : PromiseOutcome(p)' = PromiseOutcome(p)
  PROVE  UNCHANGED Promise!promiseVars
BY DEF Promise!promiseVars, Available

LEMMA OutcomeAfter ==
  ASSUME TypeOK, NEW p \in Payments, NEW s \in Statuses, status' = [status EXCEPT ![p] = s]
  PROVE  /\ PromiseOutcome(p)' = CASE s = "none" -> "none"
                                   [] s \in Unsettled -> "held"
                                   [] s = "succeeded" -> "paid"
                                   [] s = "failed" -> "returned"
         /\ \A q \in Payments : q # p => PromiseOutcome(q)' = PromiseOutcome(q)
BY DEF TypeOK, PromiseOutcome

LEMMA FundingRefines ==
  ASSUME IInv, NEW f \in Fundings, CreditFunding(f) PROVE Promise!Credit(f)
<1>1. f \notin journals /\ journals' = journals \cup {f} /\ UNCHANGED <<reserved, status, sends>>
  BY DEF CreditFunding, PostJournal
<1>2. Credited' = Credited \cup {f} /\ f \notin Credited
  BY <1>1 DEF Credited
<1>3. FundedTo[f] \in Customers /\ FundedAmount[f] \in Nat
  BY FundingAssumption
<1>4. ASSUME NEW c \in Customers
      PROVE  Available(c)' = IF c = FundedTo[f] THEN Available(c) + FundedAmount[f] ELSE Available(c)
  <2>1. balance'[c] = IF c = FundedTo[f] THEN balance[c] + FundedAmount[f] ELSE balance[c]
    BY <1>3, HouseAssumption DEF CreditFunding, PostJournal, Posted, FundingEntries, Account
  <2>2. balance[c] \in Int /\ reserved[c] \in Int /\ reserved'[c] = reserved[c]
    BY <1>1 DEF IInv, TypeOK, LedgerTypeOK, Account
  <2>3. QED
    BY <1>3, <2>1, <2>2 DEF Available
<1>5. Spendable' = [Spendable EXCEPT ![FundedTo[f]] = @ + FundedAmount[f]]
  BY <1>3, <1>4 DEF Spendable
<1>6. OutcomeOf' = OutcomeOf /\ HandedOver' = HandedOver
  BY <1>1 DEF OutcomeOf, PromiseOutcome, HandedOver
<1>7. QED
  BY <1>2, <1>5, <1>6 DEF Promise!Credit, Spendable, OutcomeOf, HandedOver, Credited

(* A payment is taken when its outcome is open and its payer can afford it. *)
LEMMA CreateAffordable ==
  ASSUME IInv, NEW p \in Payments, CreatePayment(p)
  PROVE  /\ Payer[p] \in Customers
         /\ Promise!Charge(p) = Total(p) /\ Total(p) \in Nat
         /\ Promise!Affordable(p)
<1>1. Payer[p] \in Customers /\ Total(p) \in Nat
  BY PaymentAssumption, TotalType
<1>2. PromiseOutcome(p) = "none" /\ Available(Payer[p]) >= Total(p)
  BY DEF CreatePayment, PromiseOutcome, Unsettled
<1>3. Promise!Charge(p) = Total(p)
  BY DEF Promise!Charge, Total
<1>4. QED
  BY <1>1, <1>2, <1>3 DEF Promise!Affordable

LEMMA CreateInternalRefines ==
  ASSUME IInv, NEW p \in Payments, CreatePayment(p), CreateInternal(p) PROVE Promise!Transfer(p)
<1>1. Promise!Affordable(p) /\ Promise!Charge(p) = Total(p) /\ Kind[p] = "internal"
  BY CreateAffordable DEF CreateInternal
<1>2. /\ Payer[p] \in Customers /\ Payee[p] \in Customers /\ Payee[p] # Payer[p]
      /\ Total(p) \in Nat /\ Amount[p] \in Nat
  BY <1>1, PaymentAssumption, TotalType
<1>3. /\ status' = [status EXCEPT ![p] = "succeeded"]
      /\ reserved' = reserved /\ balance' = Posted(InternalEntries(p)) /\ journals' = journals \cup {p}
      /\ sends' = sends
  BY DEF CreatePayment, CreateInternal, PostJournal
<1>4. ASSUME NEW c \in Customers
      PROVE  Available(c)' = IF c = Payer[p] THEN Available(c) - Total(p)
                             ELSE IF c = Payee[p] THEN Available(c) + Amount[p] ELSE Available(c)
  <2>1. balance'[c] = IF c = Payer[p] THEN balance[c] - Total(p)
                      ELSE IF c = Payee[p] THEN balance[c] + Amount[p] ELSE balance[c]
    <3>1. c \in Account /\ c # Fees /\ balance[c] \in Int
      BY HouseAssumption DEF Account, IInv, TypeOK, LedgerTypeOK
    <3>2. QED
      BY <1>2, <1>3, <3>1 DEF Posted, InternalEntries
  <2>2. balance[c] \in Int /\ reserved[c] \in Int /\ reserved'[c] = reserved[c]
    BY <1>3 DEF IInv, TypeOK, LedgerTypeOK, Account
  <2>3. QED
    BY <1>2, <2>1, <2>2 DEF Available
<1>5. Spendable' = [Spendable EXCEPT ![Payer[p]] = @ - Total(p), ![Payee[p]] = @ + Amount[p]]
  BY <1>2, <1>4 DEF Spendable
<1>6. OutcomeOf' = [OutcomeOf EXCEPT ![p] = "paid"]
  <2>1. /\ PromiseOutcome(p)' = "paid"
        /\ \A q \in Payments : q # p => PromiseOutcome(q)' = PromiseOutcome(q)
    BY <1>3 DEF PromiseOutcome, IInv, TypeOK, Unsettled
  <2>2. QED
    BY <2>1 DEF OutcomeOf
<1>7. HandedOver' = HandedOver /\ Credited' = Credited
  BY <1>3, FundingAssumption DEF HandedOver, Credited
<1>8. QED
  BY <1>1, <1>5, <1>6, <1>7 DEF Promise!Transfer, Spendable, OutcomeOf, HandedOver, Credited

LEMMA CreateExternalRefines ==
  ASSUME IInv, NEW p \in Payments, CreatePayment(p), CreateExternal(p) PROVE Promise!Reserve(p)
<1>1. Promise!Affordable(p) /\ Promise!Charge(p) = Total(p) /\ Kind[p] # "internal"
  BY CreateAffordable DEF CreateExternal, External
<1>2. Payer[p] \in Customers /\ Total(p) \in Nat
  BY PaymentAssumption, TotalType
<1>3. /\ status' = [status EXCEPT ![p] = "accepted"]
      /\ reserved' = [reserved EXCEPT ![Payer[p]] = @ + Total(p)]
      /\ UNCHANGED <<balance, journals, sends>>
  BY DEF CreatePayment, CreateExternal, PlaceHold
<1>4. ASSUME NEW c \in Customers
      PROVE  Available(c)' = IF c = Payer[p] THEN Available(c) - Total(p) ELSE Available(c)
  <2>1. balance[c] \in Int /\ reserved[c] \in Int
    BY DEF IInv, TypeOK, LedgerTypeOK, Account
  <2>2. reserved'[c] = IF c = Payer[p] THEN reserved[c] + Total(p) ELSE reserved[c]
    BY <1>2, <1>3 DEF IInv, TypeOK, LedgerTypeOK
  <2>3. QED
    BY <1>2, <1>3, <2>1, <2>2 DEF Available
<1>5. Spendable' = [Spendable EXCEPT ![Payer[p]] = @ - Total(p)]
  BY <1>2, <1>4 DEF Spendable
<1>6. OutcomeOf' = [OutcomeOf EXCEPT ![p] = "held"]
  <2>1. /\ PromiseOutcome(p)' = "held"
        /\ \A q \in Payments : q # p => PromiseOutcome(q)' = PromiseOutcome(q)
    BY <1>3 DEF PromiseOutcome, IInv, TypeOK, Unsettled
  <2>2. QED
    BY <2>1 DEF OutcomeOf
<1>7. HandedOver' = HandedOver /\ Credited' = Credited
  BY <1>3 DEF HandedOver, Credited
<1>8. QED
  BY <1>1, <1>5, <1>6, <1>7 DEF Promise!Reserve, Spendable, OutcomeOf, HandedOver, Credited

LEMMA SendRefines ==
  ASSUME IInv, NEW w \in Workers, SendSubmission(w)
  PROVE  \E p \in Payments : Promise!HandOver(p)
<1>1. PICK p \in External : p = worker[w].payment /\ worker[w] # Idle /\ p \in Payments
  BY BusyStage, OutFor DEF SendSubmission, Stages
<1>2. /\ sends[p] = 0 /\ status[p] # "accepted" /\ worker[w].stage = "submit"
      /\ sends' = [sends EXCEPT ![p] = @ + 1] /\ UNCHANGED <<status, balance, reserved, journals>>
  BY <1>1 DEF SendSubmission, IInv, SubmissionInv, rows
<1>3. status[p] \notin {"none", "succeeded", "failed"}
  <2>1. status[p] # "none"
    BY <1>1, NoWorkYet
  <2>2. order[p] = "unknown"
    BY <1>1, <1>2 DEF IInv, SubmissionInv
  <2>3. QED
    BY <1>1, <2>1, <2>2 DEF IInv, OutcomeHasEvidence
<1>4. OutcomeOf[p] = "held"
  BY <1>1, <1>3 DEF OutcomeOf, PromiseOutcome, IInv, TypeOK, Statuses, Terminal
<1>5. HandedOver' = HandedOver \cup {p} /\ p \notin HandedOver
  <2>1. \A q \in Payments : sends'[q] = IF q = p THEN 1 ELSE sends[q]
    BY <1>1, <1>2 DEF IInv, TypeOK
  <2>2. QED
    BY <1>1, <1>2, <2>1 DEF HandedOver
<1>6. Spendable' = Spendable /\ OutcomeOf' = OutcomeOf /\ Credited' = Credited
  BY <1>2 DEF Spendable, Available, OutcomeOf, PromiseOutcome, Credited
<1>7. Promise!HandOver(p)
  BY <1>4, <1>5, <1>6 DEF Promise!HandOver, Spendable, OutcomeOf, HandedOver, Credited
<1>8. QED
  BY <1>1, <1>7

(* The status of an accepted payment moves without an outcome.             *)
LEMMA StillHeld ==
  ASSUME IInv, NEW p \in Payments, status[p] \in Unsettled, NEW s \in Unsettled,
         status' = [status EXCEPT ![p] = s], UNCHANGED <<balance, reserved, journals, sends>>
  PROVE  UNCHANGED Promise!promiseVars
<1>1. \A q \in Payments : PromiseOutcome(q)' = PromiseOutcome(q)
  BY DEF PromiseOutcome, IInv, TypeOK, Unsettled
<1>2. QED
  BY <1>1, Stutter

LEMMA SameStatus ==
  ASSUME UNCHANGED <<status, balance, reserved, journals, sends>>
  PROVE  UNCHANGED Promise!promiseVars
<1>1. \A q \in Payments : PromiseOutcome(q)' = PromiseOutcome(q)
  BY DEF PromiseOutcome
<1>2. QED
  BY <1>1, Stutter

LEMMA BeginRefines ==
  ASSUME IInv, NEW w \in Workers, Begin(w) PROVE UNCHANGED Promise!promiseVars
<1>1. PICK p \in External : p = worker[w].payment /\ p \in Payments
  BY BusyStage, OutFor DEF Begin, Stages
<1>2. UNCHANGED <<balance, reserved, journals, sends>>
  BY DEF Begin, BeginLost, BeginSkip, BeginSubmit, Unsent, BeginQuery, rows, ledgerVars
<1>3. \/ UNCHANGED status
      \/ /\ status[p] = "accepted"
         /\ \E s \in {"submitted", "pending_review"} : status' = [status EXCEPT ![p] = s]
  BY <1>1 DEF Begin, BeginLost, BeginSkip, BeginSubmit, Unsent, BeginQuery, Withheld, rows
<1>4. QED
  BY <1>1, <1>2, <1>3, StillHeld, SameStatus DEF Unsettled

LEMMA RetryRefines ==
  ASSUME IInv, NEW w \in Workers, RetryPayment(w) PROVE UNCHANGED Promise!promiseVars
<1>1. PICK p \in External : p = worker[w].payment /\ p \in Payments
  BY BusyStage, OutFor DEF RetryPayment, StatusAfterError, Stages
<1>2. UNCHANGED <<balance, reserved, journals, sends>>
  BY DEF RetryPayment, StatusAfterError, ledgerVars
<1>3. \/ UNCHANGED status
      \/ status[p] \in {"accepted", "submitted", "pending"} /\ status' = [status EXCEPT ![p] = "pending"]
  BY <1>1 DEF RetryPayment, StatusAfterError
<1>4. QED
  BY <1>1, <1>2, <1>3, StillHeld, SameStatus DEF Unsettled

(* The first outcome of a payment is its capture or its return.            *)
LEMMA SettleRefines ==
  ASSUME IInv, NEW p \in External, p \in Payments, NEW r \in Results,
         status[p] \in Unsettled, r.status \in Terminal, Settle(p, r),
         sends[p] = 1, UNCHANGED sends
  PROVE  Promise!Pay(p) \/ Promise!Return(p)
<1>1. OutcomeOf[p] = "held" /\ p \in HandedOver
  BY DEF OutcomeOf, PromiseOutcome, HandedOver, Unsettled
<1>2. Payer[p] \in Customers /\ Total(p) \in Nat /\ Promise!Charge(p) = Total(p)
  BY PaymentAssumption, TotalType DEF Promise!Charge, Total
<1>3. /\ reserved' = [reserved EXCEPT ![Payer[p]] = @ - Total(p)]
      /\ status' = [status EXCEPT ![p] = r.status]
      /\ r.status = "succeeded" => balance' = Posted(ExternalEntries(p)) /\ journals' = journals \cup {p}
      /\ r.status = "failed" => UNCHANGED <<balance, journals>>
  BY DEF Settle, EndHold, PostJournal, Terminal, Unsettled
<1>4. \A c \in Customers :
        /\ balance[c] \in Int /\ reserved[c] \in Int
        /\ reserved'[c] = IF c = Payer[p] THEN reserved[c] - Total(p) ELSE reserved[c]
  BY <1>2, <1>3 DEF IInv, TypeOK, LedgerTypeOK, Account
<1>5. HandedOver' = HandedOver
  BY DEF HandedOver
<1>6. Credited' = Credited
  BY <1>3, FundingAssumption DEF Credited, Terminal
<1>7. CASE r.status = "succeeded"
  <2>1. ASSUME NEW c \in Customers PROVE Available(c)' = Available(c)
    <3>1. balance'[c] = IF c = Payer[p] THEN balance[c] - Total(p) ELSE balance[c]
      <4>1. c \in Account /\ c # Clearing /\ balance[c] \in Int
        BY HouseAssumption DEF Account, IInv, TypeOK, LedgerTypeOK
      <4>2. QED
        BY <1>2, <1>3, <1>7, <4>1 DEF Posted, ExternalEntries
    <3>2. QED
      BY <1>2, <1>4, <3>1 DEF Available
  <2>2. Spendable' = Spendable
    BY <2>1 DEF Spendable
  <2>3. /\ PromiseOutcome(p)' = "paid"
        /\ \A q \in Payments : q # p => PromiseOutcome(q)' = PromiseOutcome(q)
    BY <1>3, <1>7 DEF PromiseOutcome, IInv, TypeOK, Unsettled
  <2>4. OutcomeOf' = [OutcomeOf EXCEPT ![p] = "paid"]
    BY <2>3 DEF OutcomeOf
  <2>5. QED
    BY <1>1, <1>5, <1>6, <2>2, <2>4 DEF Promise!Pay, Spendable, OutcomeOf, HandedOver, Credited
<1>8. CASE r.status = "failed"
  <2>1. ASSUME NEW c \in Customers
        PROVE  Available(c)' = IF c = Payer[p] THEN Available(c) + Total(p) ELSE Available(c)
    BY <1>2, <1>3, <1>4, <1>8 DEF Available
  <2>2. Spendable' = [Spendable EXCEPT ![Payer[p]] = @ + Total(p)]
    BY <1>2, <2>1 DEF Spendable
  <2>3. /\ PromiseOutcome(p)' = "returned"
        /\ \A q \in Payments : q # p => PromiseOutcome(q)' = PromiseOutcome(q)
    BY <1>3, <1>8 DEF PromiseOutcome, IInv, TypeOK, Unsettled
  <2>4. OutcomeOf' = [OutcomeOf EXCEPT ![p] = "returned"]
    BY <2>3 DEF OutcomeOf
  <2>5. QED
    BY <1>1, <1>2, <1>5, <1>6, <2>2, <2>4 DEF Promise!Return, Spendable, OutcomeOf, HandedOver, Credited
<1>9. QED
  BY <1>7, <1>8 DEF Terminal

LEMMA ApplyRefines ==
  ASSUME IInv, NEW w \in Workers, ApplyResult(w)
  PROVE  UNCHANGED Promise!promiseVars \/ \E p \in Payments : Promise!Pay(p) \/ Promise!Return(p)
<1>1. worker[w].stage = "answered" /\ worker[w] # Idle /\ UNCHANGED sends
  BY BusyStage DEF ApplyResult, Stages
<1>2. PICK p \in External : p = worker[w].payment /\ p \in Payments
  BY <1>1, OutFor
<1>3. PICK r \in Results : r = worker[w].result
  BY <1>1, RoundType DEF IInv
<1>4. HasToken(w, p) => status[p] \in Unsettled \cup Terminal
  BY <1>1, <1>2, OutFor DEF IInv, TypeOK, Statuses
<1>5. CASE UNCHANGED rows
  BY <1>1, <1>5, SameStatus DEF rows
<1>6. CASE HasToken(w, p) /\ (ApplyConflict(p, r) \/ ApplyPending(w, p, r))
  <2>1. UNCHANGED <<balance, reserved, journals>>
    BY <1>6 DEF ApplyConflict, ApplyPending, ledgerVars
  <2>2. UNCHANGED status \/ /\ status[p] \in Unsettled
                            /\ \E s \in {"pending", "pending_review"} : status' = [status EXCEPT ![p] = s]
    BY <1>4, <1>6 DEF ApplyConflict, ApplyPending
  <2>3. QED
    BY <1>1, <1>2, <2>1, <2>2, StillHeld, SameStatus DEF Unsettled
<1>7. CASE HasToken(w, p) /\ ApplyOutcome(w, p, r)
  <2>1. r.status \in Terminal /\ Settle(p, r)
    BY <1>7 DEF ApplyOutcome
  <2>2. CASE status[p] \in Terminal
    BY <1>1, <2>1, <2>2, SameStatus DEF Settle, ledgerVars
  <2>3. CASE status[p] \in Unsettled
    <3>1. order[p] # "unknown"
      BY <1>1, <1>2, <1>3, <2>1 DEF IInv, EvidenceInv, Terminal
    <3>2. sends[p] = 1
      BY <1>2, <3>1 DEF IInv, SubmissionInv
    <3>3. QED
      BY <1>1, <1>2, <2>1, <2>3, <3>2, SettleRefines
  <2>4. QED
    BY <1>4, <1>7, <2>2, <2>3
<1>8. QED
  BY <1>2, <1>3, <1>5, <1>6, <1>7 DEF ApplyResult

LEMMA StepRefines ==
  ASSUME IInv, [Next]_vars PROVE [Promise!Next]_(Promise!promiseVars)
<1>1. CASE UNCHANGED vars
  BY <1>1, SameStatus DEF vars, rows
<1>2. ASSUME NEW p \in Payments, CreatePayment(p) PROVE Promise!Next
  BY <1>2, CreateInternalRefines, CreateExternalRefines DEF CreatePayment, Promise!Next
<1>3. ASSUME NEW f \in Fundings, CreditFunding(f) PROVE Promise!Next
  BY <1>3, FundingRefines DEF Promise!Next
<1>4. ASSUME NEW w \in Workers, SendSubmission(w) PROVE Promise!Next
  BY <1>4, SendRefines DEF Promise!Next
<1>5. ASSUME NEW w \in Workers, ApplyResult(w) PROVE [Promise!Next]_(Promise!promiseVars)
  BY <1>5, ApplyRefines DEF Promise!Next
<1>6. ASSUME NEW w \in Workers, Begin(w) \/ RetryPayment(w) PROVE UNCHANGED Promise!promiseVars
  BY <1>6, BeginRefines, RetryRefines
<1>7. ASSUME UNCHANGED <<status, balance, reserved, journals, sends>> PROVE UNCHANGED Promise!promiseVars
  BY <1>7, SameStatus
<1>8. ASSUME NEW p \in Payments, RetryJob(p) \/ LeaseLapses(p) \/ ProviderStep(p)
      PROVE  UNCHANGED Promise!promiseVars
  BY <1>7, <1>8 DEF RetryJob, LeaseLapses, ProviderStep, ReceiveSubmission, LoseSubmission,
                    Execute, Deliver, Reverse, rows, ledgerVars
<1>9. ASSUME NEW c \in Customers, StandingChanges(c) PROVE UNCHANGED Promise!promiseVars
  BY <1>7, <1>9 DEF StandingChanges, rows
<1>10. ASSUME NEW w \in Workers, Crash(w) \/ ProviderReplies(w) \/ CallFails(w)
       PROVE  UNCHANGED Promise!promiseVars
  BY <1>7, <1>10 DEF Crash, ProviderReplies, CallFails, rows
<1>11. ASSUME NEW w \in Workers, NEW p \in Payments, Lease(w, p) PROVE UNCHANGED Promise!promiseVars
  BY <1>7, <1>11 DEF Lease, ledgerVars
<1>12. QED
  BY <1>1, <1>2, <1>3, <1>4, <1>5, <1>6, <1>8, <1>9, <1>10, <1>11 DEF Next, WorkerStep

(* The worker, its queue and its retries keep the promise to the customer. *)
THEOREM Refines == Spec => KeepsPromise
<1>1. Init => Promise!Init
  BY InitRefines
<1>2. IInv /\ [Next]_vars => [Promise!Next]_(Promise!promiseVars)
  BY StepRefines
<1>3. QED
  BY <1>1, <1>2, Invariant, PTL DEF Spec, KeepsPromise, Promise!Spec

-----------------------------------------------------------------------------
(* The balances.  Each is a sum over the payments and fundings that it     *)
(* depends on (Paid, Held, FundedBy).  A step changes one of those sets by *)
(* one element and posts that payment: the sums change by its total.       *)

RowsFinite == IsFiniteSet(journals) /\ IsFiniteSet({p \in Payments : hold[p] = "active"})

(* Nothing that balances depend on moves.                                 *)
MoneyStays ==
  /\ UNCHANGED <<balance, reserved, journals>>
  /\ \A q \in Payments : (status'[q] = "succeeded") = (status[q] = "succeeded")
  /\ \A q \in Payments : (hold'[q] = "active") = (hold[q] = "active")

(* Four steps move money: a funding, the creation of a payment, and the   *)
(* settlement of an external one.                                          *)
LEMMA OnlyMoneySteps ==
  ASSUME IInv, Next
  PROVE  \/ MoneyStays
         \/ \E f \in Fundings : CreditFunding(f)
         \/ \E p \in Payments : CreatePayment(p)
         \/ \E p \in Payments : /\ status[p] \notin Terminal /\ p \in External 
                                /\ \E r \in Results : r.status \in Terminal /\ Settle(p, r)
<1> USE DEF MoneyStays
<1>1. ASSUME NEW p \in Payments, CreatePayment(p) \/ RetryJob(p) \/ LeaseLapses(p) \/ ProviderStep(p)
      PROVE  MoneyStays \/ CreatePayment(p)
  BY <1>1 DEF RetryJob, LeaseLapses, ProviderStep, ReceiveSubmission, LoseSubmission, Execute, Deliver, Reverse, rows, ledgerVars
<1>2. ASSUME NEW c \in Customers, StandingChanges(c) PROVE MoneyStays
  BY <1>2 DEF StandingChanges, rows
<1>3. ASSUME NEW w \in Workers, Crash(w) \/ SendSubmission(w) \/ ProviderReplies(w) \/ CallFails(w)
      PROVE  MoneyStays
  BY <1>3 DEF Crash, SendSubmission, ProviderReplies, CallFails, rows
<1>4. ASSUME NEW w \in Workers, NEW p \in Payments, Lease(w, p) PROVE MoneyStays
  BY <1>4 DEF Lease, ledgerVars
<1>5. ASSUME NEW w \in Workers, Begin(w) PROVE MoneyStays
  <2> DEFINE p == worker[w].payment
  <2>1. p \in Payments /\ worker[w] # Idle /\ status \in [Payments -> Statuses]
    BY <1>5, RoundType DEF Begin, Idle, IInv, TypeOK
  <2> HIDE DEF p
  <2>2. CASE BeginLost(w, p) \/ BeginQuery(w, p)
    BY <2>2 DEF BeginLost, BeginQuery, rows
  <2>3. CASE BeginSkip(w, p)
    BY <2>1, <2>3 DEF BeginSkip, Withheld, ledgerVars
  <2>4. CASE BeginSubmit(w, p)
    BY <2>1, <2>4 DEF BeginSubmit, Unsent, ledgerVars
  <2> QED BY <1>5, <2>2, <2>3, <2>4 DEF Begin, p
<1>6. ASSUME NEW w \in Workers, RetryPayment(w) PROVE MoneyStays
  <2> DEFINE p == worker[w].payment
  <2>1. p \in Payments /\ worker[w] # Idle /\ status \in [Payments -> Statuses]
    BY <1>6, RoundType DEF RetryPayment, Idle, IInv, TypeOK
  <2> QED BY <1>6, <2>1 DEF RetryPayment, StatusAfterError, ledgerVars
<1>7. ASSUME NEW w \in Workers, ApplyResult(w)
      PROVE  \/ MoneyStays
             \/ \E p \in Payments : /\ status[p] \notin Terminal /\ p \in External 
                                    /\ \E r \in Results : r.status \in Terminal /\ Settle(p, r)
  <2> DEFINE p == worker[w].payment
             r == worker[w].result
  <2>1. p \in Payments /\ p \in External /\ r \in Results /\ status \in [Payments -> Statuses]
    BY <1>7, RoundType, OutFor DEF ApplyResult, Idle, IInv, TypeOK
  <2> HIDE DEF p, r
  <2>2. CASE UNCHANGED rows
    BY <2>2 DEF rows
  <2>3. CASE ApplyConflict(p, r)
    <3>1. status[p] \in Terminal \/ status[p] # "succeeded"
      BY DEF Terminal
    <3> QED BY <2>1, <2>3, <3>1 DEF ApplyConflict, ledgerVars, Terminal
  <2>4. CASE ApplyPending(w, p, r)
    BY <2>1, <2>4 DEF ApplyPending, ledgerVars, Terminal
  <2>5. CASE ApplyOutcome(w, p, r)
    BY <2>1, <2>5 DEF ApplyOutcome, Settle, ledgerVars
  <2> QED BY <1>7, <2>2, <2>3, <2>4, <2>5 DEF ApplyResult, p, r
<1> QED BY <1>1, <1>2, <1>3, <1>4, <1>5, <1>6, <1>7 DEF Next, WorkerStep

MoneyInv == RowsFinite /\ BalancesFollowOutcomes

LEMMA PricesType ==
  /\ TotalOf \in [Payments -> Nat] /\ Amount \in [Payments -> Nat] /\ Fee \in [Payments -> Nat]
  /\ FundedAmount \in [Fundings -> Nat]
  /\ \A p \in Payments : TotalOf[p] = Total(p)
BY PaymentAssumption, FundingAssumption, TotalType DEF TotalOf

LEMMA PaidFinite ==
  ASSUME IInv, RowsFinite
  PROVE  /\ \A S \in SUBSET Payments : IsFiniteSet(Paid(S))
         /\ \A S \in SUBSET Fundings : IsFiniteSet(S \cap journals)
         /\ \A c \in Customers : IsFiniteSet(Held(c))
<1>1. \A S \in SUBSET Payments : Paid(S) \in SUBSET journals
  BY DEF IInv, RowsInv, Paid
<1>2. \A c \in Customers : Held(c) \in SUBSET {p \in Payments : hold[p] = "active"}
  BY DEF Held, External
<1>3. \A S \in SUBSET Fundings : S \cap journals \in SUBSET journals
  OBVIOUS
<1> QED BY <1>1, <1>2, <1>3, FS_Subset DEF RowsFinite

LEMMA PaidGrows ==
  ASSUME IInv, RowsFinite, NEW p \in Payments, status[p] # "succeeded",
         status' = [status EXCEPT ![p] = "succeeded"],
         NEW S \in SUBSET Payments, NEW w \in [Payments -> Nat]
  PROVE  /\ SumFunctionOnSet(w, Paid(S)) \in Nat /\ w[p] \in Nat
         /\ SumFunctionOnSet(w, Paid(S)') =
              SumFunctionOnSet(w, Paid(S)) + (IF p \in S THEN w[p] ELSE 0)
<1>1. IsFiniteSet(Paid(S)) /\ p \notin Paid(S) /\ \A x \in Paid(S) \cup {p} : w[x] \in Nat
  BY PaidFinite DEF Paid
<1>2. SumFunctionOnSet(w, Paid(S)) \in Nat
  BY <1>1, SumNonNegative
<1>3. CASE p \in S
  <2>1. Paid(S)' = Paid(S) \cup {p}
    BY <1>3 DEF Paid, IInv, TypeOK
  <2>2. SumFunctionOnSet(w, Paid(S) \cup {p}) = w[p] + SumFunctionOnSet(w, Paid(S))
    BY <1>1, SumAdd
  <2> QED BY <1>1, <1>2, <1>3, <2>1, <2>2
<1>4. CASE p \notin S
  <2>1. Paid(S)' = Paid(S)
    BY <1>4 DEF Paid, IInv, TypeOK
  <2> QED BY <1>1, <1>2, <1>4, <2>1
<1> QED BY <1>3, <1>4

LEMMA FundedGrows ==
  ASSUME IInv, RowsFinite, NEW f \in Fundings, f \notin journals, journals' = journals \cup {f},
         NEW S \in SUBSET Fundings
  PROVE  /\ FundedBy(S) \in Nat /\ FundedAmount[f] \in Nat
         /\ FundedBy(S)' = FundedBy(S) + (IF f \in S THEN FundedAmount[f] ELSE 0)
<1>1. /\ IsFiniteSet(S \cap journals) /\ f \notin S \cap journals
      /\ \A x \in (S \cap journals) \cup {f} : FundedAmount[x] \in Nat
  BY PaidFinite, PricesType
<1>2. SumFunctionOnSet(FundedAmount, S \cap journals) \in Nat
  BY <1>1, SumNonNegative
<1>3. CASE f \in S
  <2>1. S \cap journals' = (S \cap journals) \cup {f}
    BY <1>3
  <2>2. SumFunctionOnSet(FundedAmount, (S \cap journals) \cup {f})
        = FundedAmount[f] + SumFunctionOnSet(FundedAmount, S \cap journals)
    BY <1>1, SumAdd
  <2> QED BY <1>1, <1>2, <1>3, <2>1, <2>2 DEF FundedBy
<1>4. CASE f \notin S
  <2>1. S \cap journals' = S \cap journals
    BY <1>4
  <2> QED BY <1>1, <1>2, <1>4, <2>1 DEF FundedBy
<1> QED BY <1>3, <1>4

(* Funding is not credited by the journal of a payment. *)
LEMMA FundedStays ==
  ASSUME NEW p \in Payments, journals' = journals \cup {p}, NEW S \in SUBSET Fundings
  PROVE  FundedBy(S)' = FundedBy(S)
<1>1. S \cap journals' = S \cap journals
  BY FundingAssumption
<1> QED BY <1>1 DEF FundedBy

LEMMA SumsAreNumbers ==
  ASSUME IInv, RowsFinite
  PROVE  /\ \A S \in SUBSET Payments, w \in [Payments -> Nat] : SumFunctionOnSet(w, Paid(S)) \in Nat
         /\ \A S \in SUBSET Fundings : FundedBy(S) \in Nat
         /\ \A c \in Customers : SumFunctionOnSet(TotalOf, Held(c)) \in Nat
<1>1. \A S \in SUBSET Payments, w \in [Payments -> Nat] : SumFunctionOnSet(w, Paid(S)) \in Nat
  BY PaidFinite, SumNonNegative DEF Paid
<1>2. \A S \in SUBSET Fundings : FundedBy(S) \in Nat
  BY PaidFinite, PricesType, SumNonNegative DEF FundedBy
<1>3. \A c \in Customers : SumFunctionOnSet(TotalOf, Held(c)) \in Nat
  BY PaidFinite, PricesType, SumNonNegative DEF Held, External
<1> QED BY <1>1, <1>2, <1>3

(* Who is who among the accounts. *)
LEMMA AccountsDiffer ==
  /\ Clearing # Fees /\ Clearing \in Account /\ Fees \in Account
  /\ \A c \in Customers : c # Clearing /\ c # Fees /\ c \in Account
BY HouseAssumption DEF Account, Clearing, Fees

LEMMA FundingBalances ==
  ASSUME IInv, MoneyInv, NEW f \in Fundings, CreditFunding(f)
  PROVE  MoneyInv'
<1>1. /\ f \notin journals /\ journals' = journals \cup {f} /\ UNCHANGED <<status, hold, reserved>>
      /\ balance' = Posted(FundingEntries(f))
  BY DEF CreditFunding, PostJournal
<1>2. RowsFinite'
  BY <1>1, FS_AddElement DEF MoneyInv, RowsFinite
<1>3. \A S \in SUBSET Payments : Paid(S)' = Paid(S)
  BY <1>1 DEF Paid
<1>4. \A c \in Customers : Held(c)' = Held(c)
  BY <1>1 DEF Held
<1>5. FundedTo[f] \in Customers /\ balance \in [Account -> Int] /\ FundedAmount[f] \in Nat
  BY FundingAssumption DEF IInv, TypeOK, LedgerTypeOK
<1>6. \A a \in Account : balance'[a] = balance[a] + (IF a = Clearing THEN -FundedAmount[f]
                                                   ELSE IF a = FundedTo[f] THEN FundedAmount[f] ELSE 0)
  BY <1>1, <1>5, AccountsDiffer DEF Posted, FundingEntries
<1>7. \A S \in SUBSET Fundings : /\ FundedBy(S) \in Nat
                                /\ FundedBy(S)' = FundedBy(S) + (IF f \in S THEN FundedAmount[f] ELSE 0)
  BY <1>1, FundedGrows DEF MoneyInv
<1>8. ASSUME NEW c \in Customers
      PROVE  (balance[c] = FundedBy(Funds(c)) - SumFunctionOnSet(TotalOf, Paid(PaysFrom(c)))
                          + SumFunctionOnSet(Amount, Paid(PaysTo(c))))'
  <2>1. /\ Funds(c) \in SUBSET Fundings /\ (f \in Funds(c)) = (FundedTo[f] = c)
        /\ PaysFrom(c) \in SUBSET Payments /\ PaysTo(c) \in SUBSET Payments
    BY DEF Funds, PaysFrom, PaysTo
  <2>2. /\ SumFunctionOnSet(TotalOf, Paid(PaysFrom(c))) \in Nat
        /\ SumFunctionOnSet(Amount, Paid(PaysTo(c))) \in Nat
    BY <2>1, SumsAreNumbers, PricesType DEF MoneyInv
  <2>3. balance[c] = FundedBy(Funds(c)) - SumFunctionOnSet(TotalOf, Paid(PaysFrom(c)))
                    + SumFunctionOnSet(Amount, Paid(PaysTo(c)))
    BY DEF MoneyInv, BalancesFollowOutcomes
  <2>4. balance'[c] = balance[c] + (IF FundedTo[f] = c THEN FundedAmount[f] ELSE 0)
    BY <1>6, AccountsDiffer
  <2>5. /\ Paid(PaysFrom(c))' = Paid(PaysFrom(c)) /\ Paid(PaysTo(c))' = Paid(PaysTo(c))
    BY <1>3, <2>1
  <2>6. FundedBy(Funds(c))' = FundedBy(Funds(c)) + (IF FundedTo[f] = c THEN FundedAmount[f] ELSE 0)
    BY <1>7, <2>1
  <2> QED BY <1>5, <1>7, <2>1, <2>2, <2>3, <2>4, <2>5, <2>6
<1>9. ASSUME NEW c \in Customers PROVE (reserved[c] = SumFunctionOnSet(TotalOf, Held(c)))'
  BY <1>1, <1>4 DEF MoneyInv, BalancesFollowOutcomes
<1>10. (/\ balance[Clearing] = SumFunctionOnSet(TotalOf, Paid(External)) - FundedBy(Fundings)
        /\ balance[Fees] = SumFunctionOnSet(Fee, Paid(Payments \ External)))'
  <2>1. /\ External \in SUBSET Payments /\ Payments \ External \in SUBSET Payments
        /\ Fundings \in SUBSET Fundings
    BY DEF External
  <2>2. SumFunctionOnSet(TotalOf, Paid(External)) \in Nat
    BY <2>1, SumsAreNumbers, PricesType DEF MoneyInv
  <2>3. /\ balance[Clearing] = SumFunctionOnSet(TotalOf, Paid(External)) - FundedBy(Fundings)
        /\ balance[Fees] = SumFunctionOnSet(Fee, Paid(Payments \ External))
    BY DEF MoneyInv, BalancesFollowOutcomes
  <2>4. balance'[Clearing] = balance[Clearing] - FundedAmount[f] /\ balance'[Fees] = balance[Fees]
    <3>1. balance[Clearing] \in Int /\ balance[Fees] \in Int
      BY <1>5, AccountsDiffer
    <3> QED BY <1>5, <1>6, <3>1, AccountsDiffer
  <2>5. Paid(External)' = Paid(External) /\ Paid(Payments \ External)' = Paid(Payments \ External)
    BY <1>3, <2>1
  <2>6. FundedBy(Fundings) \in Nat /\ FundedBy(Fundings)' = FundedBy(Fundings) + FundedAmount[f]
    BY <1>7, <2>1
  <2> QED BY <1>5, <2>2, <2>3, <2>4, <2>5, <2>6
<1> QED BY <1>2, <1>8, <1>9, <1>10 DEF MoneyInv, BalancesFollowOutcomes

(* The holds of the others stay as they are when one is placed or ended.   *)
LEMMA HeldMoves ==
  ASSUME IInv, RowsFinite, NEW p \in External, NEW s \in {"active", "captured", "released"},
         hold[p] = "active" <=> s # "active", hold' = [hold EXCEPT ![p] = s], NEW c \in Customers
  PROVE  /\ SumFunctionOnSet(TotalOf, Held(c)) \in Nat
         /\ SumFunctionOnSet(TotalOf, Held(c)') =
              IF Payer[p] # c THEN SumFunctionOnSet(TotalOf, Held(c))
              ELSE IF s = "active" THEN SumFunctionOnSet(TotalOf, Held(c)) + Total(p)
              ELSE SumFunctionOnSet(TotalOf, Held(c)) - Total(p)
<1>1. /\ p \in Payments /\ Total(p) \in Nat /\ TotalOf[p] = Total(p)
      /\ IsFiniteSet(Held(c)) /\ \A x \in Held(c) \cup {p} : TotalOf[x] \in Nat
  BY PaidFinite, PricesType, TotalType DEF Held, External
<1>2. SumFunctionOnSet(TotalOf, Held(c)) \in Nat
  BY <1>1, SumNonNegative
<1>3. CASE Payer[p] # c
  <2>1. Held(c)' = Held(c)
    BY <1>3 DEF Held, IInv, TypeOK
  <2> QED BY <1>2, <1>3, <2>1
<1>4. CASE Payer[p] = c /\ s = "active"
  <2>1. p \notin Held(c) /\ Held(c)' = Held(c) \cup {p}
    BY <1>1, <1>4 DEF Held, IInv, TypeOK
  <2>2. SumFunctionOnSet(TotalOf, Held(c) \cup {p}) = TotalOf[p] + SumFunctionOnSet(TotalOf, Held(c))
    BY <1>1, <2>1, SumAdd
  <2> QED BY <1>1, <1>2, <1>4, <2>1, <2>2
<1>5. CASE Payer[p] = c /\ s # "active"
  <2>1. p \in Held(c) /\ Held(c)' = Held(c) \ {p}
    BY <1>1, <1>5 DEF Held, IInv, TypeOK
  <2>2. SumFunctionOnSet(TotalOf, Held(c)) = TotalOf[p] + SumFunctionOnSet(TotalOf, Held(c) \ {p})
    BY <1>1, <2>1, SumTake
  <2>3. SumFunctionOnSet(TotalOf, Held(c) \ {p}) \in Nat
    BY <1>1, FS_Subset, SumNonNegative
  <2> QED BY <1>1, <1>2, <1>5, <2>1, <2>2, <2>3
<1> QED BY <1>3, <1>4, <1>5

(* A wallet is debited by its own payments and credited by others'.        *)
LEMMA InternalBalances ==
  ASSUME IInv, MoneyInv, NEW p \in Payments, status[p] = "none", CreateInternal(p)
  PROVE  MoneyInv'
<1>1. /\ journals' = journals \cup {p} /\ status' = [status EXCEPT ![p] = "succeeded"]
      /\ UNCHANGED <<hold, reserved>> /\ balance' = Posted(InternalEntries(p)) /\ p \notin External
  BY DEF CreateInternal, PostJournal, External
<1>2. RowsFinite'
  BY <1>1, FS_AddElement DEF MoneyInv, RowsFinite
<1>3. /\ Payer[p] \in Customers /\ Payee[p] \in Customers /\ Payee[p] # Payer[p]
      /\ Total(p) \in Nat /\ Amount[p] \in Nat /\ Fee[p] \in Nat /\ TotalOf[p] = Total(p)
      /\ balance \in [Account -> Int]
  <2>1. Payer[p] \in Customers /\ Payee[p] \in Customers /\ Payee[p] # Payer[p]
    BY PaymentAssumption DEF CreateInternal
  <2>2. Total(p) \in Nat /\ Amount[p] \in Nat /\ Fee[p] \in Nat /\ TotalOf[p] = Total(p)
    BY TotalType, PricesType
  <2> QED BY <2>1, <2>2 DEF IInv, TypeOK, LedgerTypeOK
<1>4. \A S \in SUBSET Payments, w \in [Payments -> Nat] :
        /\ SumFunctionOnSet(w, Paid(S)) \in Nat
        /\ SumFunctionOnSet(w, Paid(S)') = SumFunctionOnSet(w, Paid(S)) + (IF p \in S THEN w[p] ELSE 0)
  BY <1>1, PaidGrows DEF MoneyInv
<1>5. \A S \in SUBSET Fundings : FundedBy(S) \in Nat /\ FundedBy(S)' = FundedBy(S)
  BY <1>1, FundedStays, SumsAreNumbers DEF MoneyInv
<1>6. \A c \in Customers : Held(c)' = Held(c)
  BY <1>1 DEF Held
<1>7. \A a \in Account : balance[a] \in Int
        /\ balance'[a] = balance[a] + (IF a = Payer[p] THEN -Total(p) ELSE IF a = Payee[p] THEN Amount[p]
                                      ELSE IF a = Fees THEN Fee[p] ELSE 0)
  BY <1>1, <1>3, AccountsDiffer DEF Posted, InternalEntries
<1>8. ASSUME NEW c \in Customers
      PROVE  (balance[c] = FundedBy(Funds(c)) - SumFunctionOnSet(TotalOf, Paid(PaysFrom(c)))
                          + SumFunctionOnSet(Amount, Paid(PaysTo(c))))'
  <2>1. /\ PaysFrom(c) \in SUBSET Payments /\ (p \in PaysFrom(c)) = (Payer[p] = c)
        /\ PaysTo(c) \in SUBSET Payments /\ (p \in PaysTo(c)) = (Payee[p] = c)
        /\ Funds(c) \in SUBSET Fundings
    BY <1>1 DEF Funds, PaysFrom, PaysTo
  <2>2. balance[c] = FundedBy(Funds(c)) - SumFunctionOnSet(TotalOf, Paid(PaysFrom(c)))
                    + SumFunctionOnSet(Amount, Paid(PaysTo(c)))
    BY DEF MoneyInv, BalancesFollowOutcomes
  <2>3. balance'[c] = balance[c] - (IF Payer[p] = c THEN Total(p) ELSE 0)
                     + (IF Payee[p] = c THEN Amount[p] ELSE 0)
    BY <1>3, <1>7, AccountsDiffer
  <2>4. /\ SumFunctionOnSet(TotalOf, Paid(PaysFrom(c))) \in Nat
        /\ SumFunctionOnSet(TotalOf, Paid(PaysFrom(c))') =
             SumFunctionOnSet(TotalOf, Paid(PaysFrom(c))) + (IF Payer[p] = c THEN Total(p) ELSE 0)
    BY <1>3, <1>4, <2>1, PricesType
  <2>5. /\ SumFunctionOnSet(Amount, Paid(PaysTo(c))) \in Nat
        /\ SumFunctionOnSet(Amount, Paid(PaysTo(c))') =
             SumFunctionOnSet(Amount, Paid(PaysTo(c))) + (IF Payee[p] = c THEN Amount[p] ELSE 0)
    BY <1>3, <1>4, <2>1, PricesType
  <2>6. FundedBy(Funds(c)) \in Nat /\ FundedBy(Funds(c))' = FundedBy(Funds(c))
    BY <1>5, <2>1
  <2> QED BY <1>3, <2>2, <2>3, <2>4, <2>5, <2>6
<1>9. ASSUME NEW c \in Customers PROVE (reserved[c] = SumFunctionOnSet(TotalOf, Held(c)))'
  BY <1>1, <1>6 DEF MoneyInv, BalancesFollowOutcomes
<1>10. (/\ balance[Clearing] = SumFunctionOnSet(TotalOf, Paid(External)) - FundedBy(Fundings)
        /\ balance[Fees] = SumFunctionOnSet(Fee, Paid(Payments \ External)))'
  <2>1. /\ External \in SUBSET Payments /\ p \notin External
        /\ Payments \ External \in SUBSET Payments /\ p \in Payments \ External
        /\ Fundings \in SUBSET Fundings
    BY <1>1 DEF External
  <2>2. /\ balance[Clearing] = SumFunctionOnSet(TotalOf, Paid(External)) - FundedBy(Fundings)
        /\ balance[Fees] = SumFunctionOnSet(Fee, Paid(Payments \ External))
    BY DEF MoneyInv, BalancesFollowOutcomes
  <2>3. balance'[Clearing] = balance[Clearing] /\ balance'[Fees] = balance[Fees] + Fee[p]
    BY <1>3, <1>7, AccountsDiffer
  <2>4. /\ SumFunctionOnSet(TotalOf, Paid(External)) \in Nat
        /\ SumFunctionOnSet(TotalOf, Paid(External)') = SumFunctionOnSet(TotalOf, Paid(External))
    BY <1>4, <2>1, PricesType
  <2>5. /\ SumFunctionOnSet(Fee, Paid(Payments \ External)) \in Nat
        /\ SumFunctionOnSet(Fee, Paid(Payments \ External)')
             = SumFunctionOnSet(Fee, Paid(Payments \ External)) + Fee[p]
    BY <1>4, <2>1, PricesType
  <2>6. FundedBy(Fundings) \in Nat /\ FundedBy(Fundings)' = FundedBy(Fundings)
    BY <1>5, <2>1
  <2> QED BY <1>3, <2>2, <2>3, <2>4, <2>5, <2>6
<1> QED BY <1>2, <1>8, <1>9, <1>10 DEF MoneyInv, BalancesFollowOutcomes

(* An accepted external payment reserves its total.                        *)
LEMMA ExternalBalances ==
  ASSUME IInv, MoneyInv, NEW p \in Payments, status[p] = "none", CreateExternal(p)
  PROVE  MoneyInv'
<1>1. /\ p \in External /\ status' = [status EXCEPT ![p] = "accepted"]
      /\ hold' = [hold EXCEPT ![p] = "active"] /\ hold[p] = "none"
      /\ reserved' = [reserved EXCEPT ![Payer[p]] = @ + Total(p)]
      /\ UNCHANGED <<balance, journals>>
  BY DEF CreateExternal, PlaceHold, IInv, HoldFollowsStatus
<1>2. RowsFinite'
  <2>1. {q \in Payments : hold'[q] = "active"} = {q \in Payments : hold[q] = "active"} \cup {p}
    BY <1>1 DEF IInv, TypeOK
  <2> QED BY <1>1, <2>1, FS_AddElement DEF MoneyInv, RowsFinite
<1>3. /\ \A S \in SUBSET Payments : Paid(S)' = Paid(S)
      /\ \A S \in SUBSET Fundings : FundedBy(S)' = FundedBy(S)
  BY <1>1 DEF Paid, FundedBy, IInv, TypeOK
<1>4. /\ \A c \in Customers : PaysFrom(c) \in SUBSET Payments /\ PaysTo(c) \in SUBSET Payments
                               /\ Funds(c) \in SUBSET Fundings
      /\ External \in SUBSET Payments /\ Payments \ External \in SUBSET Payments
      /\ Fundings \in SUBSET Fundings
  BY DEF PaysFrom, PaysTo, Funds, External
<1>5. ASSUME NEW c \in Customers PROVE (reserved[c] = SumFunctionOnSet(TotalOf, Held(c)))'
  <2>1. /\ SumFunctionOnSet(TotalOf, Held(c)) \in Nat
        /\ SumFunctionOnSet(TotalOf, Held(c)') =
             IF Payer[p] # c THEN SumFunctionOnSet(TotalOf, Held(c))
             ELSE SumFunctionOnSet(TotalOf, Held(c)) + Total(p)
    BY <1>1, HeldMoves DEF MoneyInv
  <2>2. reserved'[c] = IF Payer[p] # c THEN reserved[c] ELSE reserved[c] + Total(p)
    BY <1>1 DEF IInv, TypeOK, LedgerTypeOK
  <2> QED BY <2>1, <2>2 DEF MoneyInv, BalancesFollowOutcomes
<1>6. ASSUME NEW c \in Customers
      PROVE  (balance[c] = FundedBy(Funds(c)) - SumFunctionOnSet(TotalOf, Paid(PaysFrom(c)))
                          + SumFunctionOnSet(Amount, Paid(PaysTo(c))))'
  BY <1>1, <1>3, <1>4 DEF MoneyInv, BalancesFollowOutcomes
<1>7. (/\ balance[Clearing] = SumFunctionOnSet(TotalOf, Paid(External)) - FundedBy(Fundings)
       /\ balance[Fees] = SumFunctionOnSet(Fee, Paid(Payments \ External)))'
  BY <1>1, <1>3, <1>4 DEF MoneyInv, BalancesFollowOutcomes
<1> QED BY <1>2, <1>5, <1>6, <1>7 DEF MoneyInv, BalancesFollowOutcomes

(* An outcome ends the hold, and a success posts what was held.            *)
LEMMA SettleBalances ==
  ASSUME IInv, MoneyInv, NEW p \in External, NEW r \in Results, r.status \in Terminal,
         status[p] \notin Terminal, Settle(p, r)
  PROVE  MoneyInv'
<1> DEFINE paid == IF r.status = "succeeded" THEN Total(p) ELSE 0
<1>1. /\ hold[p] = "active" /\ status' = [status EXCEPT ![p] = r.status]
      /\ hold' = [hold EXCEPT ![p] = IF r.status = "succeeded" THEN "captured" ELSE "released"]
      /\ reserved' = [reserved EXCEPT ![Payer[p]] = @ - Total(p)]
      /\ r.status = "succeeded" => /\ journals' = journals \cup {p}
                                   /\ balance' = Posted(ExternalEntries(p))
      /\ r.status # "succeeded" => UNCHANGED <<balance, journals>> /\ r.status = "failed"
  BY DEF Settle, EndHold, PostJournal, Terminal
<1>2. RowsFinite'
  <2>1. {q \in Payments : hold'[q] = "active"} \in SUBSET {q \in Payments : hold[q] = "active"}
    BY <1>1 DEF IInv, TypeOK, External
  <2>2. IsFiniteSet(journals')
    BY <1>1, FS_AddElement DEF MoneyInv, RowsFinite
  <2> QED BY <2>1, <2>2, FS_Subset DEF MoneyInv, RowsFinite
<1>3. /\ p \in Payments /\ Payer[p] \in Customers /\ Total(p) \in Nat /\ TotalOf[p] = Total(p)
      /\ balance \in [Account -> Int] /\ reserved \in [Customers -> Int] /\ status[p] # "succeeded"
  <2>1. p \in Payments /\ Payer[p] \in Customers
    BY PaymentAssumption DEF External
  <2>2. Total(p) \in Nat /\ TotalOf[p] = Total(p)
    BY <2>1, TotalType, PricesType
  <2> QED BY <2>1, <2>2 DEF IInv, TypeOK, LedgerTypeOK, Terminal
<1>4. \A S \in SUBSET Payments, w \in [Payments -> Nat] :
        /\ SumFunctionOnSet(w, Paid(S)) \in Nat
        /\ SumFunctionOnSet(w, Paid(S)') = SumFunctionOnSet(w, Paid(S))
              + (IF r.status = "succeeded" /\ p \in S THEN w[p] ELSE 0)
  <2>1. CASE r.status = "succeeded"
    <3>1. status' = [status EXCEPT ![p] = "succeeded"]
      BY <1>1, <2>1
    <3> QED BY <1>3, <2>1, <3>1, PaidGrows DEF MoneyInv
  <2>2. CASE r.status # "succeeded"
    <3>1. \A S \in SUBSET Payments : Paid(S)' = Paid(S)
      BY <1>1, <1>3, <2>2 DEF Paid, IInv, TypeOK
    <3> QED BY <2>2, <3>1, SumsAreNumbers DEF MoneyInv
  <2> QED BY <2>1, <2>2
<1>5. \A S \in SUBSET Fundings : FundedBy(S) \in Nat /\ FundedBy(S)' = FundedBy(S)
  <2>1. CASE r.status = "succeeded"
    BY <1>1, <1>3, <2>1, FundedStays, SumsAreNumbers DEF MoneyInv
  <2>2. CASE r.status # "succeeded"
    BY <1>1, <2>2, SumsAreNumbers DEF FundedBy, MoneyInv
  <2> QED BY <2>1, <2>2
<1>6. paid \in Nat /\ \A a \in Account : balance[a] \in Int
        /\ balance'[a] = balance[a] + (IF a = Payer[p] THEN -paid ELSE IF a = Clearing THEN paid ELSE 0)
  <2>1. CASE r.status = "succeeded"
    <3>1. /\ paid = Total(p) /\ balance' = Posted(ExternalEntries(p))
          /\ Payer[p] # Clearing
      BY <1>1, <1>3, <2>1, AccountsDiffer
    <3>2. DOMAIN ExternalEntries(p) = {Payer[p], Clearing}
      BY DEF ExternalEntries
    <3>3. ExternalEntries(p)[Clearing] = Total(p) /\ ExternalEntries(p)[Payer[p]] = -Total(p)
      BY <3>1 DEF ExternalEntries
    <3> HIDE DEF paid
    <3> QED BY <1>3, <3>1, <3>2, <3>3 DEF Posted
  <2>2. CASE r.status # "succeeded"
    <3>1. paid = 0
      BY <2>2
    <3> HIDE DEF paid
    <3> QED BY <1>1, <1>3, <2>2, <3>1
  <2> QED BY <2>1, <2>2
<1>7. ASSUME NEW c \in Customers
      PROVE  (balance[c] = FundedBy(Funds(c)) - SumFunctionOnSet(TotalOf, Paid(PaysFrom(c)))
                          + SumFunctionOnSet(Amount, Paid(PaysTo(c))))'
  <2>1. /\ PaysFrom(c) \in SUBSET Payments /\ (p \in PaysFrom(c)) = (Payer[p] = c)
        /\ PaysTo(c) \in SUBSET Payments /\ p \notin PaysTo(c)
        /\ Funds(c) \in SUBSET Fundings
    BY <1>3 DEF Funds, PaysFrom, PaysTo
  <2>2. balance[c] = FundedBy(Funds(c)) - SumFunctionOnSet(TotalOf, Paid(PaysFrom(c)))
                    + SumFunctionOnSet(Amount, Paid(PaysTo(c)))
    BY DEF MoneyInv, BalancesFollowOutcomes
  <2>3. balance[c] \in Int /\ balance'[c] = balance[c] - (IF Payer[p] = c THEN paid ELSE 0)
    <3> HIDE DEF paid
    <3> QED BY <1>3, <1>6, AccountsDiffer
  <2>4. /\ SumFunctionOnSet(TotalOf, Paid(PaysFrom(c))) \in Nat
        /\ SumFunctionOnSet(TotalOf, Paid(PaysFrom(c))') =
             SumFunctionOnSet(TotalOf, Paid(PaysFrom(c))) + (IF Payer[p] = c THEN paid ELSE 0)
    BY <1>3, <1>4, <2>1, PricesType
  <2>5. /\ SumFunctionOnSet(Amount, Paid(PaysTo(c))) \in Nat
        /\ SumFunctionOnSet(Amount, Paid(PaysTo(c))') = SumFunctionOnSet(Amount, Paid(PaysTo(c)))
    BY <1>3, <1>4, <2>1, PricesType
  <2>6. FundedBy(Funds(c)) \in Nat /\ FundedBy(Funds(c))' = FundedBy(Funds(c))
    BY <1>5, <2>1
  <2> HIDE DEF paid
  <2> QED BY <1>6, <2>2, <2>3, <2>4, <2>5, <2>6
<1>8. ASSUME NEW c \in Customers PROVE (reserved[c] = SumFunctionOnSet(TotalOf, Held(c)))'
  <2>1. /\ SumFunctionOnSet(TotalOf, Held(c)) \in Nat
        /\ SumFunctionOnSet(TotalOf, Held(c)') =
             IF Payer[p] # c THEN SumFunctionOnSet(TotalOf, Held(c))
             ELSE SumFunctionOnSet(TotalOf, Held(c)) - Total(p)
    BY <1>1, HeldMoves DEF MoneyInv
  <2>2. reserved'[c] = IF Payer[p] # c THEN reserved[c] ELSE reserved[c] - Total(p)
    BY <1>1, <1>3
  <2> QED BY <2>1, <2>2 DEF MoneyInv, BalancesFollowOutcomes
<1>9. (/\ balance[Clearing] = SumFunctionOnSet(TotalOf, Paid(External)) - FundedBy(Fundings)
       /\ balance[Fees] = SumFunctionOnSet(Fee, Paid(Payments \ External)))'
  <2>1. /\ External \in SUBSET Payments
        /\ Payments \ External \in SUBSET Payments /\ p \notin Payments \ External
        /\ Fundings \in SUBSET Fundings
    BY DEF External
  <2>2. /\ balance[Clearing] = SumFunctionOnSet(TotalOf, Paid(External)) - FundedBy(Fundings)
        /\ balance[Fees] = SumFunctionOnSet(Fee, Paid(Payments \ External))
    BY DEF MoneyInv, BalancesFollowOutcomes
  <2>3. /\ balance[Clearing] \in Int /\ balance'[Clearing] = balance[Clearing] + paid
        /\ balance[Fees] \in Int /\ balance'[Fees] = balance[Fees]
    <3> HIDE DEF paid
    <3> QED BY <1>3, <1>6, AccountsDiffer
  <2>4. /\ SumFunctionOnSet(TotalOf, Paid(External)) \in Nat
        /\ SumFunctionOnSet(TotalOf, Paid(External)') = SumFunctionOnSet(TotalOf, Paid(External)) + paid
    BY <1>3, <1>4, <2>1, PricesType
  <2>5. SumFunctionOnSet(Fee, Paid(Payments \ External)')
         = SumFunctionOnSet(Fee, Paid(Payments \ External))
    BY <1>3, <1>4, <2>1, PricesType
  <2>6. FundedBy(Fundings) \in Nat /\ FundedBy(Fundings)' = FundedBy(Fundings)
    BY <1>5, <2>1
  <2> HIDE DEF paid
  <2> QED BY <1>6, <2>2, <2>3, <2>4, <2>5, <2>6
<1> QED BY <1>2, <1>7, <1>8, <1>9 DEF MoneyInv, BalancesFollowOutcomes

LEMMA MoneyStaysInv == ASSUME IInv, MoneyInv, MoneyStays PROVE MoneyInv'
<1>1. /\ \A S \in SUBSET Payments : Paid(S)' = Paid(S)
      /\ \A S \in SUBSET Fundings : FundedBy(S)' = FundedBy(S)
      /\ \A c \in Customers : Held(c)' = Held(c)
      /\ {q \in Payments : hold'[q] = "active"} = {q \in Payments : hold[q] = "active"}
  BY DEF MoneyStays, Paid, FundedBy, Held, External
<1>2. /\ \A c \in Customers : PaysFrom(c) \in SUBSET Payments /\ PaysTo(c) \in SUBSET Payments
                               /\ Funds(c) \in SUBSET Fundings
      /\ External \in SUBSET Payments /\ Payments \ External \in SUBSET Payments
      /\ Fundings \in SUBSET Fundings
  BY DEF PaysFrom, PaysTo, Funds, External
<1> QED BY <1>1, <1>2 DEF MoneyInv, RowsFinite, BalancesFollowOutcomes, MoneyStays

LEMMA InitMoney == Init => MoneyInv
<1> SUFFICES ASSUME Init PROVE MoneyInv
  OBVIOUS
<1>1. RowsFinite
  <2>1. {p \in Payments : hold[p] = "active"} = {}
    BY DEF Init
  <2> QED BY <2>1, FS_EmptySet DEF Init, LedgerInit, RowsFinite
<1>2. /\ \A S \in SUBSET Payments : Paid(S) = {}
      /\ \A S \in SUBSET Fundings : S \cap journals = {}
      /\ \A c \in Customers : Held(c) = {}
  BY DEF Init, LedgerInit, Paid, Held, External
<1>3. /\ \A w : \A S \in SUBSET Payments : SumFunctionOnSet(w, Paid(S)) = 0
      /\ \A S \in SUBSET Fundings : FundedBy(S) = 0
      /\ \A c \in Customers : SumFunctionOnSet(TotalOf, Held(c)) = 0
  BY <1>2, SumEmpty DEF FundedBy
<1>4. /\ \A c \in Customers : PaysFrom(c) \in SUBSET Payments /\ PaysTo(c) \in SUBSET Payments
                               /\ Funds(c) \in SUBSET Fundings
      /\ External \in SUBSET Payments /\ Payments \ External \in SUBSET Payments
      /\ Fundings \in SUBSET Fundings
  BY DEF PaysFrom, PaysTo, Funds, External
<1>5. \A c \in Customers : balance[c] = 0 /\ reserved[c] = 0
  BY AccountsDiffer DEF Init, LedgerInit
<1>6. balance[Clearing] = 0 /\ balance[Fees] = 0
  BY AccountsDiffer DEF Init, LedgerInit
<1> QED BY <1>1, <1>3, <1>4, <1>5, <1>6 DEF MoneyInv, BalancesFollowOutcomes

(* At every moment every wallet, the clearing account and the fee account  *)
(* hold what the outcomes of the payments say, and every reservation is    *)
(* the sum of the holds that are active: whatever workers crashed, answers *)
(* came late or calls were repeated, money is neither made nor lost.       *)
THEOREM Balances == Spec => []BalancesFollowOutcomes
<1>1. IInv /\ MoneyInv /\ [Next]_vars => MoneyInv'
  <2> SUFFICES ASSUME IInv, MoneyInv, [Next]_vars PROVE MoneyInv'
    OBVIOUS
  <2>1. CASE UNCHANGED vars
    BY <2>1, MoneyStaysInv DEF vars, rows, MoneyStays
  <2>2. CASE Next
    <3>1. ASSUME NEW p \in Payments, CreatePayment(p) PROVE MoneyInv'
      BY <3>1, InternalBalances, ExternalBalances DEF CreatePayment
    <3> QED BY <2>2, <3>1, OnlyMoneySteps, MoneyStaysInv, FundingBalances, SettleBalances
  <2> QED BY <2>1, <2>2
<1>2. MoneyInv => BalancesFollowOutcomes
  BY DEF MoneyInv
<1> QED BY <1>1, <1>2, InitMoney, Invariant, PTL DEF Spec
=============================================================================
