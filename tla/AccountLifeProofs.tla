-------------------------- MODULE AccountLifeProofs -------------------------
(***************************************************************************)
(* Proofs about AccountLife for any number of reminders, workers, files,   *)
(* tabs, cases, postings and importers, any calendar, and any agenda.      *)
(***************************************************************************)
EXTENDS AccountLife, Sums

-----------------------------------------------------------------------------
(* The funding account and its closure.                                    *)

FundingTypes ==
  /\ funding \in {"none", "requested", "pending", "active", "disabled"}
  /\ round \in [Workers -> Rounds]
  /\ opened \in BOOLEAN
  /\ provisions \in Nat
  /\ readyNotice \in BOOLEAN
  /\ standing \in {"active", "restricted", "closed"}

(* A row that still waits for its first lease was never sent.              *)
NeverSent ==
  funding \in {"none", "requested"} =>
    provisions = 0 /\ ~readyNotice /\ \A w \in Workers : round[w] = "idle"

(* One worker at most is about to ask for the account, and none did.       *)
SentOnce ==
  \A w \in Workers : round[w] = "provision" =>
    provisions = 0 /\ \A x \in Workers : round[x] = "provision" => x = w

(* Who says "ready" heard it of an account the gateway has opened.         *)
ReadyIsOpened == (\E w \in Workers : round[w] = "ready") \/ funding = "active" => opened

(* Only a closure disables, and it leaves nothing enabled.                 *)
DisabledByClosure ==
  /\ funding = "disabled" => standing = "closed"
  /\ standing = "closed" => funding \in {"none", "disabled"}

FundingInv ==
  /\ FundingTypes /\ NeverSent /\ SentOnce /\ ReadyIsOpened /\ DisabledByClosure
  /\ provisions <= 1
  /\ readyNotice /\ standing # "closed" => funding = "active"

LEMMA InitFunding == Init => FundingInv
<1> SUFFICES ASSUME Init PROVE FundingInv
  OBVIOUS
<1>1. /\ funding = "none" /\ round = [w \in Workers |-> "idle"] /\ opened = FALSE /\ provisions = 0
      /\ readyNotice = FALSE /\ standing = "active"
  BY DEF Init, FundingInit, NoRound
<1>2. round \in [Workers -> Rounds] /\ \A w \in Workers : round[w] = "idle"
  BY <1>1 DEF Rounds
<1>3. FundingTypes
  BY <1>1, <1>2 DEF FundingTypes
<1>4. NeverSent /\ SentOnce /\ ReadyIsOpened /\ DisabledByClosure
  BY <1>1, <1>2 DEF NeverSent, SentOnce, ReadyIsOpened, DisabledByClosure
<1> QED BY <1>1, <1>3, <1>4 DEF FundingInv

LEMMA WorkerFunding == ASSUME FundingInv, NEW w \in Workers, Provisions(w) PROVE FundingInv'
<1>1. standing' = standing
  BY DEF Provisions, accountVars
<1>2. CASE LeaseFunding(w)
  <2>1. round' = [round EXCEPT ![w] = IF funding = "requested" THEN "provision" ELSE "query"]
        /\ funding \in {"requested", "pending"} /\ funding' = "pending"
        /\ UNCHANGED <<opened, provisions, readyNotice>> /\ round[w] = "idle"
    BY <1>2 DEF LeaseFunding, CallFor, NoRound
  <2>2. /\ round'[w] = IF funding = "requested" THEN "provision" ELSE "query"
        /\ \A x \in Workers : x # w => round'[x] = round[x]
    BY <2>1 DEF FundingInv, FundingTypes
  <2>3. round' \in [Workers -> Rounds]
    BY <2>1 DEF FundingInv, FundingTypes, Rounds
  <2> QED
    BY <1>1, <2>1, <2>2, <2>3
       DEF FundingInv, FundingTypes, NeverSent, SentOnce, ReadyIsOpened, DisabledByClosure
<1>3. CASE GatewayReceives(w)
  <2>1. /\ round' = [round EXCEPT ![w] = "query"] /\ round[w] = "provision"
        /\ opened' \in {opened, TRUE} /\ provisions' = provisions + 1
        /\ UNCHANGED <<funding, readyNotice>>
    BY <1>3 DEF GatewayReceives
  <2>2. round'[w] = "query" /\ \A x \in Workers : x # w => round'[x] = round[x]
    BY <2>1 DEF FundingInv, FundingTypes
  <2>3. round' \in [Workers -> Rounds]
    BY <2>1 DEF FundingInv, FundingTypes, Rounds
  <2>6. opened' \in BOOLEAN /\ (opened => opened')
    BY <2>1 DEF FundingInv, FundingTypes
  <2>4. provisions = 0 /\ \A x \in Workers : x # w => round[x] # "provision"
    BY <2>1 DEF FundingInv, SentOnce
  <2>5. funding \notin {"none", "requested"}
    BY <2>1 DEF FundingInv, NeverSent
  <2> QED
    BY <1>1, <2>1, <2>2, <2>3, <2>4, <2>5, <2>6
       DEF FundingInv, FundingTypes, NeverSent, SentOnce, ReadyIsOpened, DisabledByClosure
<1>4. CASE GatewayConfirms(w)
  <2>1. /\ round' = [round EXCEPT ![w] = "ready"] /\ round[w] = "query" /\ opened
        /\ UNCHANGED <<funding, opened, provisions, readyNotice>>
    BY <1>4 DEF GatewayConfirms
  <2>2. round'[w] = "ready" /\ \A x \in Workers : x # w => round'[x] = round[x]
    BY <2>1 DEF FundingInv, FundingTypes
  <2>3. round' \in [Workers -> Rounds]
    BY <2>1 DEF FundingInv, FundingTypes, Rounds
  <2>4. funding \notin {"none", "requested"}
    BY <2>1 DEF FundingInv, NeverSent
  <2> QED
    BY <1>1, <2>1, <2>2, <2>3, <2>4
       DEF FundingInv, FundingTypes, NeverSent, SentOnce, ReadyIsOpened, DisabledByClosure
<1>5. CASE RoundEnds(w)
  <2>1. /\ round' = [round EXCEPT ![w] = "idle"]
        /\ UNCHANGED <<funding, opened, provisions, readyNotice>>
    BY <1>5 DEF RoundEnds, NoRound
  <2>2. round'[w] = "idle" /\ \A x \in Workers : x # w => round'[x] = round[x]
    BY <2>1 DEF FundingInv, FundingTypes
  <2>3. round' \in [Workers -> Rounds]
    BY <2>1 DEF FundingInv, FundingTypes, Rounds
  <2> QED
    BY <1>1, <2>1, <2>2, <2>3
       DEF FundingInv, FundingTypes, NeverSent, SentOnce, ReadyIsOpened, DisabledByClosure
<1>6. CASE RecordReady(w)
  <2>1. /\ round' = [round EXCEPT ![w] = "idle"] /\ round[w] = "ready" /\ readyNotice' = TRUE
        /\ funding' = IF funding = "pending" THEN "active" ELSE funding
        /\ UNCHANGED <<opened, provisions>>
    BY <1>6 DEF RecordReady, NoRound, StateRecorded
  <2>2. round'[w] = "idle" /\ \A x \in Workers : x # w => round'[x] = round[x]
    BY <2>1 DEF FundingInv, FundingTypes
  <2>3. round' \in [Workers -> Rounds]
    BY <2>1 DEF FundingInv, FundingTypes, Rounds
  <2>4. funding \notin {"none", "requested"} /\ opened
    BY <2>1 DEF FundingInv, NeverSent, ReadyIsOpened
  <2> QED
    BY <1>1, <2>1, <2>2, <2>3, <2>4
       DEF FundingInv, FundingTypes, NeverSent, SentOnce, ReadyIsOpened, DisabledByClosure
<1> QED BY <1>2, <1>3, <1>4, <1>5, <1>6 DEF Provisions, FundingWorker

(* Steps of the other parts do not touch the funding account.              *)
LEMMA StandingFunding ==
  ASSUME FundingInv, UNCHANGED fundingVars,
         \/ standing' = standing
         \/ standing \in {"active", "restricted"} /\ standing' \in {"active", "restricted"}
  PROVE  FundingInv'
BY DEF fundingVars, FundingInv, FundingTypes, NeverSent, SentOnce, ReadyIsOpened, DisabledByClosure

LEMMA StepFunding == FundingInv /\ [Next]_vars => FundingInv'
<1> SUFFICES ASSUME FundingInv, [Next]_vars PROVE FundingInv'
  OBVIOUS
<1>1. CASE FundingStep
  BY <1>1 DEF FundingStep, accountVars, RequestFundingAccount, FundingLeaseLapses, Eligible, Active,
              FundingInv, FundingTypes, NeverSent, SentOnce, ReadyIsOpened, DisabledByClosure
<1>2. CASE CloseAccount
  BY <1>2 DEF CloseAccount, FundingInv, FundingTypes, NeverSent, SentOnce, ReadyIsOpened, DisabledByClosure
<1>3. CASE StandingChanges
  BY <1>3, StandingFunding DEF StandingChanges, InForce, Active, FundingInv, FundingTypes
<1>4. CASE \E w \in Workers : Provisions(w)
  BY <1>4, WorkerFunding
<1>5. CASE UNCHANGED <<fundingVars, standing>>
  BY <1>5, StandingFunding
<1>6. UNCHANGED vars \/ Next
  OBVIOUS
<1> QED
  BY <1>1, <1>2, <1>3, <1>4, <1>5, <1>6
     DEF Next, vars, accountVars, ReminderStep, Remind, CreditArrives, CreditFunding, WalletEmptied, DocumentStep,
         IdentityStep, Approves, SupportStep, PostingStep, ReadingStep, Imports

(* The gateway opens one account per customer, an active row has it behind *)
(* it, and a customer in force is told so only when it is true, whichever  *)
(* worker's lease lapses, however late answers come, also across closure.  *)
THEOREM OneAccount == Spec => []OneFundingAccount
<1>1. FundingInv => OneFundingAccount
  BY DEF FundingInv, ReadyIsOpened, OneFundingAccount, InForce
<1> QED BY <1>1, InitFunding, StepFunding, PTL DEF Spec, Safety

-----------------------------------------------------------------------------
(* What a closed account leaves behind.                                    *)

(* Rows of reminders are records with a status.                            *)
HasStatus(row) == row = [f \in DOMAIN row |-> row[f]] /\ "status" \in DOMAIN row

ReminderRows ==
  /\ reminder = [r \in Reminders |-> reminder[r]]
  /\ \A r \in Reminders : HasStatus(reminder[r])

Settled ==
  standing = "closed" => ~wallet /\ (\A r \in Reminders : reminder[r].status \notin Live)
                                 /\ (\A c \in Cases : ~Unresolved(c))

ClosureInv == ReminderRows /\ Settled

LEMMA InitClosure == Init => ClosureInv
<1> SUFFICES ASSUME Init PROVE ClosureInv
  OBVIOUS
<1>1. reminder = [r \in Reminders |-> NoReminder] /\ standing = "active"
  BY DEF Init, ReminderInit
<1>2. ReminderRows
  BY <1>1 DEF ReminderRows, HasStatus, NoReminder
<1>3. Settled
  BY <1>1 DEF Settled
<1> QED BY <1>2, <1>3 DEF ClosureInv

LEMMA ReminderSteps ==
  ASSUME ReminderRows
  PROVE  /\ DeleteSavedBill => ReminderRows'
         /\ \A r \in Reminders : \A o, ofBill : CreateReminder(r, o, ofBill) => ReminderRows'
         /\ \A r \in Reminders : \A status : ReminderState(r, status) => ReminderRows'
         /\ \A r \in Reminders : WorkReminder(r) => ReminderRows'
         /\ reminder' = AllCancelled => ReminderRows' /\ \A r \in Reminders : reminder'[r].status \notin Live
<1>1. ASSUME NEW r \in Reminders
      PROVE  HasStatus(Cancelled(r)) /\ Cancelled(r).status \notin Live
  BY DEF ReminderRows, HasStatus, Cancelled, Live
<1>2. ASSUME NEW r \in Reminders, NEW row, HasStatus(row), reminder' = [reminder EXCEPT ![r] = row]
      PROVE  ReminderRows'
  <2>1. reminder'[r] = row /\ (\A x \in Reminders : x # r => reminder'[x] = reminder[x])
        /\ reminder' = [x \in Reminders |-> reminder'[x]]
    BY <1>2 DEF ReminderRows
  <2> QED BY <1>2, <2>1 DEF ReminderRows
<1>3. ASSUME DeleteSavedBill PROVE ReminderRows'
  <2>1. reminder' = [r \in Reminders |-> reminder'[r]]
        /\ \A r \in Reminders : reminder'[r] = Cancelled(r) \/ reminder'[r] = reminder[r]
    BY <1>3 DEF DeleteSavedBill
  <2> QED BY <1>1, <2>1 DEF ReminderRows
<1>4. ASSUME NEW r \in Reminders, NEW o, NEW ofBill, CreateReminder(r, o, ofBill) PROVE ReminderRows'
  <2> DEFINE row == [status |-> "active", due |-> o.due, first |-> o.due, anchor |-> DayOfMonth(o.due),
                     cadence |-> o.cadence, ends |-> o.ends, ofBill |-> ofBill]
  <2>1. reminder' = [reminder EXCEPT ![r] = row]
    BY <1>4 DEF CreateReminder
  <2>2. HasStatus(row)
    BY DEF HasStatus
  <2> HIDE DEF row
  <2> QED BY <1>2, <2>1, <2>2
<1>5. ASSUME NEW r \in Reminders, NEW status, ReminderState(r, status) PROVE ReminderRows'
  <2> DEFINE row == [reminder[r] EXCEPT !.status = status]
  <2>1. reminder' = [reminder EXCEPT ![r].status = status]
    BY <1>5 DEF ReminderState
  <2>2. reminder' = [reminder EXCEPT ![r] = row]
    BY <2>1
  <2>3. HasStatus(row)
    BY DEF ReminderRows, HasStatus
  <2> HIDE DEF row
  <2> QED BY <1>2, <2>2, <2>3
<1>6. ASSUME NEW r \in Reminders, WorkReminder(r) PROVE ReminderRows'
  <2> DEFINE row == Advanced(reminder[r])
  <2>1. reminder' = [reminder EXCEPT ![r] = row]
    BY <1>6 DEF WorkReminder
  <2>2. HasStatus(row)
    BY DEF ReminderRows, HasStatus, Advanced
  <2> HIDE DEF row
  <2> QED BY <1>2, <2>1, <2>2
<1>7. ASSUME reminder' = AllCancelled
      PROVE  ReminderRows' /\ \A r \in Reminders : reminder'[r].status \notin Live
  <2>1. reminder' = [r \in Reminders |-> reminder'[r]] /\ \A r \in Reminders : reminder'[r] = Cancelled(r)
    BY <1>7 DEF AllCancelled
  <2> QED BY <1>1, <2>1 DEF ReminderRows
<1> QED BY <1>3, <1>4, <1>5, <1>6, <1>7

LEMMA StepClosure == ClosureInv /\ [Next]_vars => ClosureInv'
<1> SUFFICES ASSUME ClosureInv, [Next]_vars PROVE ClosureInv'
  OBVIOUS
<1>1. CASE ReminderStep
  <2>1. standing' = standing /\ wallet' = wallet /\ supportCase' = supportCase
    BY <1>1 DEF ReminderStep, accountVars
  <2>2. CASE InForce /\ (\/ DeleteSavedBill
                         \/ \E r \in Reminders, o \in Offered, ofBill \in BOOLEAN : CreateReminder(r, o, ofBill)
                         \/ \E r \in Reminders, status \in {"active", "paused", "cancelled"} : ReminderState(r, status))
    BY <2>1, <2>2, ReminderSteps DEF ClosureInv, Settled, InForce
  <2>3. CASE TimePasses
    BY <2>1, <2>3 DEF TimePasses, ClosureInv, Settled, ReminderRows, Unresolved
  <2> QED BY <1>1, <2>2, <2>3 DEF ReminderStep
<1>2. CASE \E r \in Reminders : Remind(r)
  BY <1>2, ReminderSteps DEF Remind, accountVars, ClosureInv, Settled, InForce
<1>3. CASE CloseAccount
  BY <1>3, ReminderSteps DEF CloseAccount, ClosureInv, Settled, Unresolved
<1>4. ASSUME UNCHANGED reminder PROVE ReminderRows'
  BY <1>4 DEF ClosureInv, ReminderRows
<1>5. CASE CreditFunding
  BY <1>4, <1>5 DEF CreditFunding, reminderVars, InForce, ClosureInv, Settled
<1>6. CASE WalletEmptied
  BY <1>4, <1>6 DEF WalletEmptied, reminderVars, Eligible, Active, ClosureInv, Settled
<1>7. CASE StandingChanges
  BY <1>4, <1>7 DEF StandingChanges, reminderVars, InForce, Active, ClosureInv, Settled
<1>8. CASE \E c \in Cases : SupportStep(c)
  BY <1>4, <1>8 DEF SupportStep, reminderVars, accountVars, InForce, ClosureInv, Settled
<1>9. CASE UNCHANGED <<reminder, standing, wallet, supportCase>>
  BY <1>4, <1>9 DEF ClosureInv, Settled, Unresolved
<1>10. UNCHANGED vars \/ Next
  OBVIOUS
<1> QED
  BY <1>1, <1>2, <1>3, <1>5, <1>6, <1>7, <1>8, <1>9, <1>10
     DEF Next, vars, accountVars, reminderVars, FundingStep, Provisions, CreditArrives, DocumentStep,
         IdentityStep, Approves, PostingStep, ReadingStep, Imports

(* After its closure nothing of the account acts, waits or holds money,    *)
(* whatever credits, workers, staff and the scheduler had under way.       *)
THEOREM NothingLeft == Spec => []ClosedLeavesNothing
<1>1. FundingInv /\ ClosureInv => ClosedLeavesNothing
  BY DEF FundingInv, DisabledByClosure, ClosureInv, Settled, ClosedLeavesNothing
<1> QED BY <1>1, InitFunding, StepFunding, InitClosure, StepClosure, PTL DEF Spec, Safety

-----------------------------------------------------------------------------
(* The identity: its draft in several tabs, its cases and their snapshots. *)

(* A tab that has loaded the current version has loaded its content.       *)
TabsLookBack ==
  \A t \in Tabs : /\ seen[t].version <= draft.version
                  /\ seen[t].version = draft.version => seen[t].content = draft.content

DraftHasContent == draft.version > 0 => draft.content \in Content

IdentityInv == IdentityTypeOK /\ TabsLookBack /\ DraftHasContent /\ ReviewedAsSubmitted

DraftRow == [version : Nat, content : Content \cup {NoContent}, submitted : BOOLEAN,
             ofCase : KYCCases \cup {"none"}]

LEMMA NoContentIsNone == NoContent \notin Content
BY DEF NoContent, Content

LEMMA InitIdentity == Init => IdentityInv
<1> SUFFICES ASSUME Init PROVE IdentityInv
  OBVIOUS
<1>1. /\ draft = NoDraft /\ seen = [t \in Tabs |-> NoDraft] /\ kyc = [c \in KYCCases |-> "none"]
      /\ snapshot = [c \in KYCCases |-> NoContent] /\ evidence = [c \in KYCCases |-> {}]
      /\ verified = NoIdentity /\ meant = [c \in KYCCases |-> NoContent]
  BY DEF Init, IdentityInit
<1>2. NoDraft \in DraftRow /\ NoDraft.version = 0
  BY DEF NoDraft, DraftRow
<1>3. IdentityTypeOK
  BY <1>1, <1>2 DEF IdentityTypeOK, DraftRow, Open
<1>4. TabsLookBack /\ DraftHasContent
  BY <1>1, <1>2 DEF TabsLookBack, DraftHasContent
<1>5. ReviewedAsSubmitted
  BY <1>1 DEF ReviewedAsSubmitted, Open
<1> QED BY <1>3, <1>4, <1>5 DEF IdentityInv

LEMMA LoadDraftReviews == ASSUME IdentityInv, NEW t \in Tabs, LoadDraft(t) PROVE IdentityInv'
<1>1. /\ seen' = [seen EXCEPT ![t] = draft]
      /\ UNCHANGED <<draft, kyc, snapshot, evidence, verified, meant>>
  BY DEF LoadDraft
<1>2. draft \in DraftRow /\ seen \in [Tabs -> DraftRow]
  BY DEF IdentityInv, IdentityTypeOK, DraftRow
<1>3. seen' \in [Tabs -> DraftRow] /\ seen'[t] = draft /\ \A x \in Tabs : x # t => seen'[x] = seen[x]
  BY <1>1, <1>2
<1>4. IdentityTypeOK'
  BY <1>1, <1>2, <1>3 DEF IdentityInv, IdentityTypeOK, DraftRow
<1>5. TabsLookBack'
  BY <1>1, <1>2, <1>3 DEF IdentityInv, TabsLookBack, DraftRow
<1>6. DraftHasContent' /\ ReviewedAsSubmitted'
  BY <1>1 DEF IdentityInv, DraftHasContent, ReviewedAsSubmitted
<1> QED BY <1>4, <1>5, <1>6 DEF IdentityInv

LEMMA SaveReviews ==
  ASSUME IdentityInv, NEW t \in Tabs, NEW content \in Drafts, SaveIdentityDraft(t, content) PROVE IdentityInv'
<1>1. /\ draft' = [version |-> draft.version + 1, content |-> content, submitted |-> FALSE, ofCase |-> "none"]
      /\ UNCHANGED <<seen, kyc, snapshot, evidence, verified, meant>>
  BY DEF SaveIdentityDraft
<1>2. draft \in DraftRow /\ seen \in [Tabs -> DraftRow] /\ content \in Content
  BY IdentityAssumption DEF IdentityInv, IdentityTypeOK, DraftRow
<1>3. draft' \in DraftRow /\ draft'.version = draft.version + 1 /\ draft'.content = content /\ draft.version \in Nat
  BY <1>1, <1>2 DEF DraftRow
<1>4. IdentityTypeOK'
  BY <1>1, <1>3 DEF IdentityInv, IdentityTypeOK, DraftRow
<1>5. TabsLookBack'
  BY <1>1, <1>2, <1>3 DEF IdentityInv, TabsLookBack, DraftRow
<1>6. DraftHasContent' /\ ReviewedAsSubmitted'
  BY <1>1, <1>2, <1>3 DEF IdentityInv, DraftHasContent, ReviewedAsSubmitted
<1> QED BY <1>4, <1>5, <1>6 DEF IdentityInv

(* What is submitted is the draft, and the draft is what the tab showed.   *)
LEMMA SubmitReviews ==
  ASSUME IdentityInv, NEW t \in Tabs, NEW c \in KYCCases, SubmitIdentity(t, c) PROVE IdentityInv'
<1>1. /\ draft.version > 0 /\ seen[t].version = draft.version /\ ~UnderReview /\ kyc[c] = "none"
      /\ kyc' = [kyc EXCEPT ![c] = "submitted"]
      /\ evidence' = [evidence EXCEPT ![c] = draft.content.uploads]
      /\ snapshot' = [snapshot EXCEPT ![c] = draft.content]
      /\ draft' = [draft EXCEPT !.submitted = TRUE, !.ofCase = c, !.version = @ + 1]
      /\ meant' = [meant EXCEPT ![c] = seen[t].content]
      /\ UNCHANGED <<seen, verified>>
  BY DEF SubmitIdentity, LooksAtDraft
<1>2. draft \in DraftRow /\ seen \in [Tabs -> DraftRow]
  BY DEF IdentityInv, IdentityTypeOK, DraftRow
<1>3. draft' \in DraftRow /\ draft'.version = draft.version + 1 /\ draft'.content = draft.content
      /\ draft.version \in Nat
  <2>1. draft.version \in Nat /\ draft.content \in Content \cup {NoContent}
    BY <1>2 DEF DraftRow
  <2>2. draft' = [version |-> draft.version + 1, content |-> draft.content, submitted |-> TRUE, ofCase |-> c]
    BY <1>1, <1>2 DEF DraftRow
  <2> QED BY <2>1, <2>2 DEF DraftRow
<1>4. seen[t].content = draft.content /\ draft.content \in Content
  BY <1>1 DEF IdentityInv, TabsLookBack, DraftHasContent
<1>5. draft.content.uploads \in SUBSET Uploads
  BY <1>4 DEF Content
<1>6. /\ kyc \in [KYCCases -> {"none", "approved", "declined"} \cup Open]
      /\ snapshot \in [KYCCases -> Content \cup {NoContent}]
      /\ evidence \in [KYCCases -> SUBSET Uploads]
      /\ verified \in {NoIdentity} \cup [ofCase : KYCCases, name : Names]
      /\ meant \in [KYCCases -> Content \cup {NoContent}]
  BY DEF IdentityInv, IdentityTypeOK
<1>7. /\ kyc'[c] = "submitted" /\ evidence'[c] = draft.content.uploads
      /\ snapshot'[c] = draft.content /\ meant'[c] = draft.content
      /\ \A d \in KYCCases : d # c => /\ kyc'[d] = kyc[d] /\ evidence'[d] = evidence[d]
                                      /\ snapshot'[d] = snapshot[d] /\ meant'[d] = meant[d]
  BY <1>1, <1>4, <1>6
<1>8. IdentityTypeOK'
  <2>1. kyc' \in [KYCCases -> {"none", "approved", "declined"} \cup Open]
    BY <1>1, <1>6 DEF Open
  <2>2. /\ snapshot' \in [KYCCases -> Content \cup {NoContent}]
        /\ evidence' \in [KYCCases -> SUBSET Uploads]
        /\ meant' \in [KYCCases -> Content \cup {NoContent}]
    BY <1>1, <1>4, <1>5, <1>6
  <2> QED BY <1>1, <1>2, <1>3, <1>6, <2>1, <2>2 DEF IdentityTypeOK, DraftRow
<1>9. TabsLookBack'
  BY <1>1, <1>2, <1>3 DEF IdentityInv, TabsLookBack, DraftRow
<1>10. DraftHasContent'
  BY <1>3, <1>4 DEF DraftHasContent
<1>11. ReviewedAsSubmitted'
  <2>1. \A d \in KYCCases : snapshot'[d] # NoContent => snapshot'[d] = meant'[d] /\ evidence'[d] = meant'[d].uploads
    BY <1>7 DEF IdentityInv, ReviewedAsSubmitted
  <2>2. \A d, e \in KYCCases : kyc'[d] \in Open /\ kyc'[e] \in Open => d = e
    BY <1>1, <1>7 DEF UnderReview
  <2>3. verified # NoIdentity => verified.ofCase \in KYCCases /\ verified.ofCase # c
    BY <1>1, <1>6 DEF IdentityInv, ReviewedAsSubmitted
  <2> QED BY <1>1, <1>7, <2>1, <2>2, <2>3 DEF IdentityInv, ReviewedAsSubmitted
<1> QED BY <1>8, <1>9, <1>10, <1>11 DEF IdentityInv

(* Steps of a case: what it holds stays.                                   *)
LEMMA CaseReviews ==
  ASSUME IdentityInv, NEW c \in KYCCases, NEW status \in {"none", "approved", "declined"} \cup Open,
         kyc' = [kyc EXCEPT ![c] = status], kyc[c] # "approved",
         status \in Open => kyc[c] \in Open \/ ~UnderReview,
         UNCHANGED <<draft, seen, snapshot, evidence, meant>>,
         \/ UNCHANGED verified
         \/ status = "approved" /\ verified' = VerifiedBy(c)
  PROVE  IdentityInv'
<1>1. /\ kyc \in [KYCCases -> {"none", "approved", "declined"} \cup Open]
      /\ snapshot \in [KYCCases -> Content \cup {NoContent}]
      /\ verified \in {NoIdentity} \cup [ofCase : KYCCases, name : Names]
  BY DEF IdentityInv, IdentityTypeOK
<1>2. /\ kyc' \in [KYCCases -> {"none", "approved", "declined"} \cup Open]
      /\ kyc'[c] = status /\ \A d \in KYCCases : d # c => kyc'[d] = kyc[d]
  BY <1>1
<1>3. \/ verified' = verified
      \/ /\ status = "approved" /\ snapshot[c] \in Content
         /\ verified' = [ofCase |-> c, name |-> snapshot[c].name]
  BY <1>1 DEF VerifiedBy
<1>4. snapshot[c] \in Content => snapshot[c].name \in Names /\ snapshot[c] # NoContent
  BY NoContentIsNone DEF Content
<1>5. verified' \in {NoIdentity} \cup [ofCase : KYCCases, name : Names]
  BY <1>1, <1>3, <1>4
<1>6. IdentityTypeOK' /\ TabsLookBack' /\ DraftHasContent'
  BY <1>2, <1>5 DEF IdentityInv, IdentityTypeOK, TabsLookBack, DraftHasContent
<1>7. \A d \in KYCCases : snapshot[d] # NoContent => snapshot[d] = meant[d] /\ evidence[d] = meant[d].uploads
  BY DEF IdentityInv, ReviewedAsSubmitted
<1>8. \A d, e \in KYCCases : kyc'[d] \in Open /\ kyc'[e] \in Open => d = e
  <2>1. \A d, e \in KYCCases : kyc[d] \in Open /\ kyc[e] \in Open => d = e
    BY DEF IdentityInv, ReviewedAsSubmitted
  <2> QED BY <1>2, <2>1 DEF UnderReview
<1>9. verified' # NoIdentity => kyc'[verified'.ofCase] = "approved" /\ verified'.name = meant[verified'.ofCase].name
  <2>1. CASE verified' = verified
    <3>1. verified # NoIdentity => /\ verified.ofCase \in KYCCases /\ kyc[verified.ofCase] = "approved"
                                   /\ verified.name = meant[verified.ofCase].name
      BY <1>1 DEF IdentityInv, ReviewedAsSubmitted
    <3> QED BY <1>2, <2>1, <3>1
  <2>2. CASE status = "approved" /\ snapshot[c] \in Content /\ verified' = [ofCase |-> c, name |-> snapshot[c].name]
    BY <1>2, <1>4, <1>7, <2>2
  <2> QED BY <1>3, <2>1, <2>2
<1>10. ReviewedAsSubmitted'
  BY <1>7, <1>8, <1>9 DEF ReviewedAsSubmitted
<1> QED BY <1>6, <1>10 DEF IdentityInv

LEMMA StepIdentity == IdentityInv /\ [Next]_vars => IdentityInv'
<1> SUFFICES ASSUME IdentityInv, [Next]_vars PROVE IdentityInv'
  OBVIOUS
<1>1. CASE UNCHANGED identityVars
  BY <1>1 DEF identityVars, IdentityInv, IdentityTypeOK, TabsLookBack, DraftHasContent, ReviewedAsSubmitted
<1>2. ASSUME NEW c \in KYCCases, KYCSubmit(c) PROVE IdentityInv'
  BY <1>2, CaseReviews DEF KYCSubmit, Open
<1>3. ASSUME NEW c \in KYCCases, NEW status, ReturnCase(c, status) PROVE IdentityInv'
  BY <1>3, CaseReviews DEF ReturnCase, Open
<1>4. ASSUME NEW c \in KYCCases, ApproveCase(c) PROVE IdentityInv'
  BY <1>4, CaseReviews DEF ApproveCase, Open
<1>5. CASE IdentityStep
  BY <1>2, <1>3, <1>5, LoadDraftReviews, SaveReviews, SubmitReviews DEF IdentityStep
<1>6. CASE \E c \in KYCCases : Approves(c)
  BY <1>4, <1>6 DEF Approves
<1>7. UNCHANGED vars \/ Next
  OBVIOUS
<1> QED
  BY <1>1, <1>5, <1>6, <1>7
     DEF Next, vars, ReminderStep, Remind, FundingStep, Provisions, CreditArrives, CreditFunding, WalletEmptied,
         DocumentStep, SupportStep, PostingStep, ReadingStep, Imports, StandingChanges, CloseAccount

(* Staff review what the customer's tab showed when he submitted it, one   *)
(* case at a time, and the recorded identity is that of an approved case,  *)
(* however many tabs save drafts and in whatever order.                    *)
THEOREM StaffReviewWhatWasShown == Spec => []ReviewedAsSubmitted
<1>1. IdentityInv => ReviewedAsSubmitted
  BY DEF IdentityInv
<1> QED BY <1>1, InitIdentity, StepIdentity, PTL DEF Spec, Safety

-----------------------------------------------------------------------------
(* Private files: their rows, their objects and the calls between them.    *)

FileTypes ==
  /\ document \in [Uploads -> {"none", "clean", "deleted"}]
  /\ stage \in [Uploads -> {"new", "checked", "stored", "cleanup", "kept", "deleting", "over"}]

(* A row is written after its object, and no call removes the object of a  *)
(* row whose upload was answered.                                          *)
ObjectFirst(u) ==
  /\ stage[u] \in {"new", "checked", "stored"} => document[u] = "none"
  /\ stage[u] \in {"stored", "kept"} => u \in object
  /\ document[u] = "clean" /\ u \notin answerLost => stage[u] = "kept"

(* A file that a case refers to, or that was given with a support case, is *)
(* never deleted.                                                          *)
Retained(u) ==
  /\ (\E c \in KYCCases : u \in evidence[c]) => document[u] = "clean"
  /\ u \in SupportUploads => document[u] # "deleted"

FileInv == FileTypes /\ \A u \in Uploads : ObjectFirst(u) /\ Retained(u)

LEMMA InitFiles == Init => FileInv
<1> SUFFICES ASSUME Init PROVE FileInv
  OBVIOUS
<1>1. /\ document = [u \in Uploads |-> "none"] /\ stage = [u \in Uploads |-> "new"]
      /\ evidence = [c \in KYCCases |-> {}]
  BY DEF Init, DocumentInit, IdentityInit
<1> QED BY <1>1 DEF FileInv, FileTypes, ObjectFirst, Retained

(* A call moves one file on; the other files stay.                         *)
LEMMA FileStep ==
  ASSUME FileInv, NEW u \in Uploads, NEW next, NEW row \in {"none", "clean", "deleted"},
         next \in {"checked", "stored", "cleanup", "kept", "deleting", "over"},
         stage' = [stage EXCEPT ![u] = next],
         document' = [document EXCEPT ![u] = row],
         \A x \in Uploads : x # u => (x \in object' <=> x \in object) /\ (x \in answerLost' <=> x \in answerLost),
         UNCHANGED evidence,
         ObjectFirst(u)', Retained(u)'
  PROVE  FileInv'
<1>1. FileTypes'
  BY DEF FileInv, FileTypes
<1>2. \A x \in Uploads : x # u => stage'[x] = stage[x] /\ document'[x] = document[x]
  BY DEF FileInv, FileTypes
<1>3. ASSUME NEW x \in Uploads, x # u PROVE ObjectFirst(x)' /\ Retained(x)'
  BY <1>2, <1>3 DEF FileInv, ObjectFirst, Retained
<1> QED BY <1>1, <1>3 DEF FileInv

LEMMA CallFiles ==
  ASSUME FileInv, NEW u \in Uploads, UNCHANGED evidence,
         \/ CheckUpload(u) \/ PutObject(u) \/ PutFails(u) \/ Publish(u) \/ PublishFails(u)
         \/ PublishAnswerLost(u) \/ RemoveObject(u) \/ UploadDies(u) \/ DeleteUpload(u, Connected(u))
  PROVE  FileInv'
<1>1. /\ document[u] \in {"none", "clean", "deleted"} /\ document = [document EXCEPT ![u] = document[u]]
      /\ document \in [Uploads -> {"none", "clean", "deleted"}]
      /\ \A v : [stage EXCEPT ![u] = v][u] = v
      /\ \A v : [document EXCEPT ![u] = v][u] = v
      /\ ObjectFirst(u) /\ Retained(u)
  BY DEF FileInv, FileTypes
<1>2. CASE CheckUpload(u)
  BY <1>1, <1>2, FileStep DEF CheckUpload, Stage, ObjectFirst, Retained
<1>3. CASE PutObject(u)
  BY <1>1, <1>3, FileStep DEF PutObject, Stage, ObjectFirst, Retained
<1>4. CASE PutFails(u)
  BY <1>1, <1>4, FileStep DEF PutFails, Stage, ObjectFirst, Retained
<1>5. CASE Publish(u)
  BY <1>1, <1>5, FileStep DEF Publish, Stage, ObjectFirst, Retained
<1>6. CASE PublishFails(u)
  BY <1>1, <1>6, FileStep DEF PublishFails, Stage, ObjectFirst, Retained
<1>7. CASE PublishAnswerLost(u)
  BY <1>1, <1>7, FileStep DEF PublishAnswerLost, Stage, ObjectFirst, Retained
<1>8. CASE RemoveObject(u)
  <2>1. /\ stage[u] \in {"cleanup", "deleting"} /\ stage' = [stage EXCEPT ![u] = "over"]
        /\ UNCHANGED <<document, answerLost>>
        /\ \A x \in Uploads : x # u => (x \in object' <=> x \in object)
    BY <1>8 DEF RemoveObject, Stage
  <2>2. stage'[u] = "over" /\ document' = [document EXCEPT ![u] = document[u]]
    BY <1>1, <2>1
  <2>3. ObjectFirst(u)' /\ Retained(u)'
    BY <1>1, <2>1, <2>2 DEF ObjectFirst, Retained
  <2> QED BY <1>1, <2>1, <2>2, <2>3, FileStep
<1>9. CASE UploadDies(u)
  <2>1. /\ stage[u] \in {"checked", "stored", "cleanup", "deleting"} /\ stage' = [stage EXCEPT ![u] = "over"]
        /\ UNCHANGED <<document, object, answerLost>>
    BY <1>9 DEF UploadDies
  <2>2. stage'[u] = "over" /\ document' = [document EXCEPT ![u] = document[u]]
    BY <1>1, <2>1
  <2>3. ObjectFirst(u)' /\ Retained(u)'
    BY <1>1, <2>1, <2>2 DEF ObjectFirst, Retained
  <2> QED BY <1>1, <2>1, <2>2, <2>3, FileStep
<1>10. CASE DeleteUpload(u, Connected(u))
  BY <1>1, <1>10, FileStep DEF DeleteUpload, Connected, ObjectFirst, Retained
<1> QED BY <1>2, <1>3, <1>4, <1>5, <1>6, <1>7, <1>8, <1>9, <1>10

(* A case refers to the files of a row, which the submission has seen.     *)
LEMMA SubmitFiles ==
  ASSUME FileInv, IdentityTypeOK, NEW t \in Tabs, NEW c \in KYCCases, SubmitIdentity(t, c), UNCHANGED documentVars
  PROVE  FileInv'
<1>1. /\ evidence' = [evidence EXCEPT ![c] = draft.content.uploads]
      /\ evidence \in [KYCCases -> SUBSET Uploads]
      /\ \A u \in draft.content.uploads : document[u] = "clean"
  BY DEF SubmitIdentity, IdentityTypeOK
<1>2. evidence'[c] = draft.content.uploads /\ \A d \in KYCCases : d # c => evidence'[d] = evidence[d]
  BY <1>1
<1>3. UNCHANGED <<document, object, stage, answerLost>>
  BY DEF documentVars
<1>4. FileTypes' /\ \A u \in Uploads : ObjectFirst(u)'
  BY <1>3 DEF FileInv, FileTypes, ObjectFirst
<1>5. \A u \in Uploads : Retained(u)'
  BY <1>1, <1>2, <1>3 DEF FileInv, Retained
<1> QED BY <1>4, <1>5 DEF FileInv

LEMMA StepFiles == FileInv /\ IdentityInv /\ [Next]_vars => FileInv'
<1> SUFFICES ASSUME FileInv, IdentityTypeOK, [Next]_vars PROVE FileInv'
  BY DEF IdentityInv
<1>1. CASE UNCHANGED <<documentVars, evidence>>
  BY <1>1 DEF documentVars, FileInv, FileTypes, ObjectFirst, Retained
<1>2. CASE \E u \in Uploads : DocumentStep(u)
  BY <1>2, CallFiles DEF DocumentStep, identityVars
<1>3. CASE IdentityStep
  <2>1. UNCHANGED documentVars
    BY <1>3 DEF IdentityStep
  <2>2. UNCHANGED evidence \/ \E t \in Tabs, c \in KYCCases : SubmitIdentity(t, c)
    BY <1>3 DEF IdentityStep, LoadDraft, SaveIdentityDraft, KYCSubmit, ReturnCase
  <2> QED BY <1>1, <2>1, <2>2, SubmitFiles
<1>4. CASE \E c \in KYCCases : Approves(c)
  BY <1>1, <1>4 DEF Approves, ApproveCase
<1>5. UNCHANGED vars \/ Next
  OBVIOUS
<1> QED
  BY <1>1, <1>2, <1>3, <1>4, <1>5
     DEF Next, vars, identityVars, ReminderStep, Remind, FundingStep, Provisions, CreditArrives, CreditFunding,
         WalletEmptied, SupportStep, PostingStep, ReadingStep, Imports, StandingChanges, CloseAccount

(* A file that a case rests on keeps its row and its object, whoever       *)
(* deletes, drafts anew, decides or crashes, except where the answer to    *)
(* its commit was lost.                                                    *)
THEOREM Evidence == Spec => []EvidenceKept
<1>1. FileInv => EvidenceKept
  BY DEF FileInv, FileTypes, ObjectFirst, Retained, EvidenceKept
<1>2. Init => FileInv /\ IdentityInv
  BY InitFiles, InitIdentity
<1>3. (FileInv /\ IdentityInv) /\ [Next]_vars => (FileInv /\ IdentityInv)'
  BY StepFiles, StepIdentity
<1> QED BY <1>1, <1>2, <1>3, PTL DEF Spec, Safety

-----------------------------------------------------------------------------
(* The calendar: how the dates of a schedule follow one another.           *)
LEMMA MonthLengths == ASSUME NEW m \in Nat PROVE MonthLength(m) \in 28..31
BY DEF MonthLength

(* The months begin one after the other.                                   *)
LEMMA MonthsBegin ==
  /\ MonthStart \in [0..Months -> Nat] /\ MonthStart[0] = 0
  /\ \A m \in 0..Months - 1 : MonthStart[m + 1] = MonthStart[m] + MonthLength(m)
<1> USE CalendarAssumption
<1> DEFINE Begin(g, n) == [m \in 0..n |-> IF m = 0 THEN 0 ELSE g[m - 1] + MonthLength(m - 1)]
           Bad == {n \in 0..Months : ~ \E g : g = Begin(g, n) /\ g \in [0..n -> Nat]}
<1>1. Bad = {}
  <2> SUFFICES ASSUME Bad # {} PROVE FALSE
    OBVIOUS
  <2>1. PICK n \in Bad : \A m \in Bad : n <= m
    <3>1. Bad \in SUBSET Nat
      OBVIOUS
    <3> HIDE DEF Bad
    <3> QED BY <3>1, LeastNumber
  <2>2. CASE n = 0
    <3> DEFINE g == [m \in 0..0 |-> 0]
    <3>1. g = Begin(g, 0) /\ g \in [0..0 -> Nat]
      OBVIOUS
    <3> QED BY <2>1, <2>2, <3>1
  <2>3. CASE n # 0
    <3>1. n - 1 \in 0..Months /\ n \in 1..Months /\ n - 1 \notin Bad
      <4>1. n \in 1..Months
        BY <2>1, <2>3
      <4> HIDE DEF Bad
      <4> QED BY <2>1, <4>1
    <3>2. PICK g : g = Begin(g, n - 1) /\ g \in [0..n - 1 -> Nat]
      BY <3>1
    <3> DEFINE h == [m \in 0..n |-> IF m = n THEN g[n - 1] + MonthLength(n - 1) ELSE g[m]]
    <3>3. g[n - 1] \in Nat /\ MonthLength(n - 1) \in Nat
      <4>1. n - 1 \in 0..n - 1 /\ n - 1 \in Nat
        BY <3>1
      <4>2. MonthLength(n - 1) \in 28..31
        BY <4>1, MonthLengths
      <4>3. g \in [0..n - 1 -> Nat]
        BY <3>2
      <4> HIDE DEF Begin
      <4> QED BY <4>1, <4>2, <4>3
    <3>4. h \in [0..n -> Nat]
      BY <3>1, <3>2, <3>3
    <3>5. \A m \in 0..n : h[m] = IF m = 0 THEN 0 ELSE h[m - 1] + MonthLength(m - 1)
      <4>1. \A m \in 0..n - 1 : g[m] = IF m = 0 THEN 0 ELSE g[m - 1] + MonthLength(m - 1)
        BY <3>2
      <4>2. h[n] = h[n - 1] + MonthLength(n - 1)
        BY <3>1
      <4>3. \A m \in 0..n - 1 : h[m] = g[m] /\ (m # 0 => h[m - 1] = g[m - 1])
        BY <3>1
      <4> HIDE DEF h
      <4> QED BY <3>1, <4>1, <4>2, <4>3
    <3>6. h = Begin(h, n)
      BY <3>4, <3>5
    <3> HIDE DEF h, Begin
    <3> QED BY <2>1, <3>4, <3>6
  <2> QED BY <2>2, <2>3
<1>2. PICK f : f = Begin(f, Months) /\ f \in [0..Months -> Nat]
  <2>1. Months \in 0..Months /\ Months \notin Bad
    BY <1>1
  <2> HIDE DEF Begin
  <2> QED BY <2>1
<1> DEFINE start == CHOOSE g : g = Begin(g, Months)
<1>3. start = Begin(start, Months)
  BY <1>2
<1>4. MonthStart = [m \in 0..Months |-> start[m]]
  BY DEF MonthStart
<1> HIDE DEF start
<1>5. \A m \in 0..Months : start[m] = IF m = 0 THEN 0 ELSE start[m - 1] + MonthLength(m - 1)
  BY <1>3
<1> DEFINE Off == {m \in 0..Months : start[m] \notin Nat}
<1>6. Off = {}
  <2> SUFFICES ASSUME Off # {} PROVE FALSE
    OBVIOUS
  <2>1. PICK n \in Off : \A m \in Off : n <= m
    <3>1. Off \in SUBSET Nat
      OBVIOUS
    <3> HIDE DEF Off
    <3> QED BY <3>1, LeastNumber
  <2>2. n # 0 /\ n \in 0..Months
    BY <1>5, <2>1
  <2>3. start[n - 1] \in Nat /\ MonthLength(n - 1) \in Nat
    BY <2>1, <2>2, MonthLengths
  <2> QED BY <1>5, <2>1, <2>2, <2>3
<1>7. \A m \in 0..Months : start[m] \in Nat
  BY <1>6
<1>8. \A m \in 0..Months - 1 : start[m + 1] = start[m] + MonthLength(m)
  BY <1>5
<1> QED BY <1>4, <1>5, <1>7, <1>8

LEMMA MonthsInOrder == \A m, n \in 0..Months : m < n => MonthStart[m] < MonthStart[n]
<1> USE CalendarAssumption
<1> SUFFICES ASSUME NEW m \in 0..Months PROVE \A n \in 0..Months : m < n => MonthStart[m] < MonthStart[n]
  OBVIOUS
<1> DEFINE Bad == {n \in 0..Months : m < n /\ ~(MonthStart[m] < MonthStart[n])}
<1>1. ASSUME Bad # {} PROVE FALSE
  <2>1. PICK n \in Bad : \A k \in Bad : n <= k
    <3>1. Bad \in SUBSET Nat
      OBVIOUS
    <3> HIDE DEF Bad
    <3> QED BY <1>1, <3>1, LeastNumber
  <2>2. n - 1 \in 0..Months - 1 /\ m <= n - 1 /\ (n - 1) + 1 = n
    BY <2>1
  <2>3. MonthStart[n] = MonthStart[n - 1] + MonthLength(n - 1) /\ MonthStart[n - 1] \in Nat
    BY <2>2, MonthsBegin
  <2>4. MonthLength(n - 1) \in 28..31 /\ MonthStart[n] \in Nat /\ MonthStart[m] \in Nat
    BY <2>2, MonthLengths, MonthsBegin
  <2>5. m = n - 1 \/ MonthStart[m] < MonthStart[n - 1]
    BY <2>1, <2>2
  <2> QED BY <2>1, <2>3, <2>4, <2>5
<1> QED BY <1>1

(* An instant of the calendar is on a day of a month, at an hour.          *)
Reached(t) == t \in Nat /\ Day(t) < MonthStart[Months]

LEMMA InstantIs ==
  ASSUME NEW t \in Nat
  PROVE  Day(t) \in Nat /\ HourOfDay(t) \in 0..23 /\ t = Day(t) * 24 + HourOfDay(t) - 1
BY DEF Day, HourOfDay

LEMMA MonthOf ==
  ASSUME NEW t, NEW m \in 0..Months - 1, Day(t) \in Int, MonthStart[m] <= Day(t), Day(t) < MonthStart[m + 1]
  PROVE  Month(t) = m
<1> USE CalendarAssumption
<1>1. \A n \in 0..Months - 1 : MonthStart[n] <= Day(t) /\ Day(t) < MonthStart[n + 1] => n = m
  <2> SUFFICES ASSUME NEW n \in 0..Months - 1, MonthStart[n] <= Day(t), Day(t) < MonthStart[n + 1], n # m
               PROVE  FALSE
    OBVIOUS
  <2>1. /\ MonthStart[m] \in Nat /\ MonthStart[n] \in Nat /\ MonthStart[m + 1] \in Nat /\ MonthStart[n + 1] \in Nat
    BY MonthsBegin
  <2>2. CASE n < m
    <3>1. n + 1 = m \/ MonthStart[n + 1] < MonthStart[m]
      BY <2>2, MonthsInOrder
    <3> QED BY <2>1, <3>1
  <2>3. CASE m < n
    <3>1. m + 1 = n \/ MonthStart[m + 1] < MonthStart[n]
      BY <2>3, MonthsInOrder
    <3> QED BY <2>1, <3>1
  <2> QED BY <2>2, <2>3
<1> QED BY <1>1 DEF Month

LEMMA MonthIs ==
  ASSUME NEW t, Reached(t)
  PROVE  /\ Month(t) \in 0..Months - 1
         /\ MonthStart[Month(t)] <= Day(t) /\ Day(t) < MonthStart[Month(t) + 1]
         /\ DayOfMonth(t) \in 1..MonthLength(Month(t))
<1> USE CalendarAssumption
<1> DEFINE Later == {m \in 0..Months - 1 : Day(t) < MonthStart[m + 1]}
<1>1. Day(t) \in Nat /\ t \in Nat
  BY InstantIs DEF Reached
<1>2. Later \in SUBSET Nat /\ Months - 1 \in Later
  BY DEF Reached
<1> HIDE DEF Later
<1>3. PICK m \in Later : \A n \in Later : m <= n
  BY <1>2, LeastNumber
<1>4. m \in 0..Months - 1 /\ Day(t) < MonthStart[m + 1]
  BY <1>3 DEF Later
<1>5. MonthStart[m] <= Day(t)
  <2>1. CASE m = 0
    BY <1>1, <2>1, MonthsBegin
  <2>2. CASE m # 0
    <3>1. m - 1 \in 0..Months - 1 /\ (m - 1) + 1 = m /\ m - 1 \notin Later
      BY <1>3, <1>4, <2>2
    <3>2. ~(Day(t) < MonthStart[m]) /\ MonthStart[m] \in Nat
      BY <3>1, MonthsBegin DEF Later
    <3> QED BY <1>1, <3>2
  <2> QED BY <2>1, <2>2
<1>6. Month(t) = m
  BY <1>1, <1>4, <1>5, MonthOf
<1>7. /\ MonthStart[m + 1] = MonthStart[m] + MonthLength(m) /\ MonthStart[m] \in Nat /\ MonthLength(m) \in 28..31
  BY <1>4, MonthsBegin, MonthLengths
<1> QED BY <1>1, <1>4, <1>5, <1>6, <1>7 DEF DayOfMonth

(* A day of a month, at an hour, is where it says.                         *)
LEMMA AtIs ==
  ASSUME NEW m \in 0..Months - 1, NEW d \in 1..MonthLength(m), NEW h \in 0..23, At(m, d, h) \in Nat
  PROVE  /\ Month(At(m, d, h)) = m /\ HourOfDay(At(m, d, h)) = h
         /\ Day(At(m, d, h)) = MonthStart[m] + d - 1
<1> USE CalendarAssumption
<1> DEFINE t == At(m, d, h)
           n == MonthStart[m] + d - 1
<1>1. /\ MonthStart[m + 1] = MonthStart[m] + MonthLength(m) /\ MonthStart[m] \in Nat /\ MonthLength(m) \in 28..31
  BY MonthsBegin, MonthLengths
<1>2. n \in Nat /\ MonthStart[m] <= n /\ n < MonthStart[m + 1]
  BY <1>1
<1>3. t = n * 24 + h - 1
  BY DEF At
<1> HIDE DEF n, t
<1>4. (t + 1) \div 24 = n /\ (t + 1) % 24 = h
  BY <1>2, <1>3
<1>5. Day(t) = n /\ HourOfDay(t) = h
  BY <1>4 DEF Day, HourOfDay
<1>6. Month(t) = m
  BY <1>2, <1>5, MonthOf
<1> QED BY <1>5, <1>6 DEF t, n

(* The k-th date of a monthly schedule falls k months later, on the same   *)
(* day or the month's last, at the same hour.                              *)
LEMMA MonthlyDate ==
  ASSUME NEW first, Reached(first), NEW k \in Periods(first, "monthly")
  PROVE  LET t == Occurrence(first, "monthly", k)
         IN /\ t \in Nat /\ Month(t) = Month(first) + k /\ HourOfDay(t) = HourOfDay(first)
            /\ MonthStart[Month(t)] <= Day(t)
<1> USE CalendarAssumption
<1> DEFINE m == Month(first) + k
           d == InMonth(DayOfMonth(first), m)
           h == HourOfDay(first)
           t == At(m, d, h)
<1>1. /\ first \in Nat /\ Month(first) \in 0..Months - 1 /\ h \in 0..23 /\ Day(first) \in Nat
      /\ DayOfMonth(first) \in 1..MonthLength(Month(first)) /\ first = Day(first) * 24 + h - 1
  BY MonthIs, InstantIs DEF Reached
<1>2. k \in Nat /\ m \in 0..Months - 1
  BY <1>1 DEF Periods
<1>3. MonthLength(m) \in 28..31 /\ MonthLength(Month(first)) \in 28..31
  BY <1>1, <1>2, MonthLengths
<1>4. d \in 1..MonthLength(m)
  BY <1>1, <1>3 DEF InMonth
<1>5. MonthStart[m] \in Nat /\ MonthStart[Month(first)] \in Nat
  <2>1. m \in 0..Months /\ Month(first) \in 0..Months
    BY <1>1, <1>2
  <2> HIDE DEF m
  <2> QED BY <2>1, MonthsBegin
<1>6. t = (MonthStart[m] + d - 1) * 24 + h - 1
  BY DEF At
<1>7. t \in Nat
  <2>1. CASE k = 0
    <3>1. m = Month(first)
      BY <1>1, <2>1
    <3>2. d = DayOfMonth(first)
      BY <1>1, <1>3, <3>1 DEF InMonth
    <3>3. MonthStart[m] + d - 1 = Day(first)
      BY <1>1, <1>5, <3>1, <3>2 DEF DayOfMonth
    <3>4. t = first
      BY <1>1, <1>6, <3>3
    <3> QED BY <1>1, <3>4
  <2>2. CASE k # 0
    <3>1. Month(first) < m /\ Month(first) \in 0..Months /\ m \in 0..Months
      BY <1>1, <1>2, <2>2
    <3>2. MonthStart[Month(first)] < MonthStart[m]
      BY <3>1, MonthsInOrder
    <3> HIDE DEF m, d, h, t
    <3> QED BY <1>1, <1>3, <1>4, <1>5, <1>6, <3>2
  <2> QED BY <2>1, <2>2
<1>8. Month(t) = m /\ HourOfDay(t) = h /\ Day(t) = MonthStart[m] + d - 1
  BY <1>1, <1>2, <1>4, <1>7, AtIs
<1>9. Occurrence(first, "monthly", k) = t
  BY DEF Occurrence
<1> HIDE DEF m, d, h, t
<1>10. MonthStart[m] <= Day(t)
  BY <1>3, <1>4, <1>5, <1>8
<1> QED BY <1>7, <1>8, <1>9, <1>10 DEF m, h

LEMMA FirstDate ==
  ASSUME NEW first, Reached(first), NEW cadence \in Cadences
  PROVE  0 \in Periods(first, cadence) /\ Occurrence(first, cadence, 0) = first
<1> USE CalendarAssumption
<1>1. /\ first \in Nat /\ Month(first) \in 0..Months - 1 /\ Day(first) \in Nat /\ HourOfDay(first) \in 0..23
      /\ DayOfMonth(first) \in 1..MonthLength(Month(first)) /\ first = Day(first) * 24 + HourOfDay(first) - 1
  BY MonthIs, InstantIs DEF Reached
<1>2. MonthStart[Month(first)] \in Nat /\ MonthStart[Months] \in Nat /\ MonthLength(Month(first)) \in 28..31
  BY <1>1, MonthsBegin, MonthLengths
<1>3. CASE cadence = "once"
  BY <1>3 DEF Periods, Occurrence
<1>4. CASE cadence = "weekly"
  <2>1. MonthStart[Months] * 24 - first \in Nat
    BY <1>1, <1>2 DEF Reached
  <2>2. (MonthStart[Months] * 24 - first) \div Week \in Nat
    BY <2>1 DEF Week
  <2> QED BY <1>1, <1>4, <2>2 DEF Periods, Occurrence, Week
<1>5. CASE cadence = "monthly"
  <2>1. Month(first) + 0 = Month(first) /\ InMonth(DayOfMonth(first), Month(first)) = DayOfMonth(first)
    BY <1>1, <1>2 DEF InMonth
  <2>2. At(Month(first), DayOfMonth(first), HourOfDay(first)) = Day(first) * 24 + HourOfDay(first) - 1
    <3>1. MonthStart[Month(first)] + DayOfMonth(first) - 1 = Day(first)
      BY <1>1, <1>2 DEF DayOfMonth
    <3> QED BY <3>1 DEF At
  <2>3. Occurrence(first, "monthly", 0) = first
    BY <1>1, <2>1, <2>2 DEF Occurrence
  <2>4. 0 \in Periods(first, "monthly")
    BY <1>1 DEF Periods
  <2> QED BY <1>5, <2>3, <2>4
<1> QED BY <1>3, <1>4, <1>5 DEF Cadences

LEMMA DatesAreInstants ==
  ASSUME NEW first, Reached(first), NEW cadence \in Cadences
  PROVE  Schedule(first, cadence) \subseteq Nat
<1> SUFFICES ASSUME NEW k \in Periods(first, cadence) PROVE Occurrence(first, cadence, k) \in Nat
  BY DEF Schedule
<1>1. CASE cadence = "once"
  BY <1>1 DEF Occurrence, Reached
<1>2. CASE cadence = "weekly"
  BY <1>2 DEF Occurrence, Periods, Week, Reached
<1>3. CASE cadence = "monthly"
  BY <1>3, MonthlyDate
<1> QED BY <1>1, <1>2, <1>3 DEF Cadences

(* The step of the code leads from each date of a schedule to the next,    *)
(* on the day the customer chose, however often it was clamped.            *)
LEMMA NextDate ==
  ASSUME NEW first, Reached(first), NEW cadence \in Cadences,
         NEW t \in Schedule(first, cadence), Day(t) < MonthStart[Months - 1]
  PROVE  NextDue(t, cadence, DayOfMonth(first)) \in Schedule(first, cadence) \cup {NoTime}
<1> USE CalendarAssumption
<1>1. PICK k \in Periods(first, cadence) : t = Occurrence(first, cadence, k)
  BY DEF Schedule
<1>2. /\ first \in Nat /\ Month(first) \in 0..Months - 1
      /\ MonthStart[Months] \in Nat /\ MonthStart[Months - 1] \in Nat
      /\ MonthStart[Months] >= MonthStart[Months - 1] + 28
  <2>1. Months - 1 \in 0..Months - 1 /\ (Months - 1) + 1 = Months /\ Months - 1 \in Nat
    OBVIOUS
  <2>2. MonthStart[Months] = MonthStart[Months - 1] + MonthLength(Months - 1) /\ MonthLength(Months - 1) \in 28..31
    BY <2>1, MonthsBegin, MonthLengths
  <2>3. MonthStart[Months - 1] \in Nat
    <3>1. Months - 1 \in 0..Months
      BY <2>1
    <3> QED BY <3>1, MonthsBegin
  <2>4. first \in Nat /\ Month(first) \in 0..Months - 1
    BY MonthIs DEF Reached
  <2> QED BY <2>2, <2>3, <2>4
<1>3. CASE cadence = "once"
  BY <1>3 DEF NextDue
<1>4. CASE cadence = "weekly"
  <2>1. k \in Nat /\ t = first + k * 168
    BY <1>1, <1>4 DEF Periods, Occurrence, Week
  <2>2. t \in Nat /\ t + 1 < MonthStart[Months - 1] * 24
    <3>1. t \in Nat
      BY <1>2, <2>1
    <3>2. Day(t) \in Nat /\ HourOfDay(t) \in 0..23 /\ t = Day(t) * 24 + HourOfDay(t) - 1
      BY <3>1, InstantIs
    <3>3. Day(t) <= MonthStart[Months - 1] - 1
      BY <1>2, <3>2
    <3> QED BY <1>2, <3>1, <3>2, <3>3
  <2>3. (k + 1) * 168 <= MonthStart[Months] * 24 - first
    BY <1>2, <2>1, <2>2
  <2>4. k + 1 <= (MonthStart[Months] * 24 - first) \div 168
    BY <1>2, <2>1, <2>3
  <2>5. k + 1 \in Periods(first, cadence)
    BY <1>2, <1>4, <2>1, <2>4 DEF Periods, Week
  <2>6. NextDue(t, cadence, DayOfMonth(first)) = Occurrence(first, cadence, k + 1)
    BY <1>2, <1>4, <2>1 DEF NextDue, Occurrence, Week
  <2> QED BY <2>5, <2>6 DEF Schedule
<1>5. CASE cadence = "monthly"
  <2>1. /\ t \in Nat /\ Month(t) = Month(first) + k /\ HourOfDay(t) = HourOfDay(first)
        /\ MonthStart[Month(t)] <= Day(t)
    BY <1>1, <1>5, MonthlyDate
  <2>2. k \in Nat /\ Month(t) \in 0..Months - 1
    BY <1>2, <1>5, <2>1 DEF Periods
  <2>3. Month(t) < Months - 1
    <3>1. Day(t) \in Nat
      BY <2>1, InstantIs
    <3>2. Months - 1 \in 0..Months /\ Month(t) \in 0..Months
      BY <2>2
    <3>3. MonthStart[Month(t)] \in Nat
      BY <3>2, MonthsBegin
    <3>4. CASE Month(t) = Months - 1
      BY <1>2, <2>1, <3>1, <3>4
    <3> QED BY <2>2, <3>4
  <2>4. k + 1 \in Periods(first, "monthly")
    BY <1>2, <2>1, <2>2, <2>3 DEF Periods
  <2>5. Month(t) + 1 = Month(first) + (k + 1)
    BY <1>2, <2>1, <2>2
  <2>6. NextDue(t, "monthly", DayOfMonth(first)) = Occurrence(first, "monthly", k + 1)
    BY <2>1, <2>5 DEF NextDue, Occurrence
  <2> QED BY <1>5, <2>4, <2>6 DEF Schedule
<1> QED BY <1>3, <1>4, <1>5 DEF Cadences

(* Stepping on until a time has an end.                                    *)
LEMMA SteppingEnds ==
  ASSUME NEW c, NEW a, NEW time \in Nat
  PROVE  \E g : g = [due \in Nat |-> LET next == NextDue(due, c, a)
                                    IN IF next \in due + 1..time THEN g[next] ELSE next]
<1> DEFINE From(n) == {d \in Nat : time - n <= d}
           Steps(g, D) == [d \in D |-> IF NextDue(d, c, a) \in d + 1..time THEN g[NextDue(d, c, a)]
                                        ELSE NextDue(d, c, a)]
           Bad == {n \in Nat : ~ \E g : g = Steps(g, From(n))}
<1>1. Bad = {}
  <2> SUFFICES ASSUME Bad # {} PROVE FALSE
    OBVIOUS
  <2>1. PICK n \in Bad : \A m \in Bad : n <= m
    <3>1. Bad \in SUBSET Nat
      OBVIOUS
    <3> HIDE DEF Bad
    <3> QED BY <3>1, LeastNumber
  <2>2. n \in Nat /\ ~ \E g : g = Steps(g, From(n))
    BY <2>1
  <2>3. CASE n = 0
    <3> DEFINE g == [d \in From(n) |-> NextDue(d, c, a)]
    <3>1. \A d \in From(n) : NextDue(d, c, a) \notin d + 1..time
      BY <2>3
    <3>2. g = Steps(g, From(n))
      BY <3>1
    <3> QED BY <2>2, <3>2
  <2>4. CASE n # 0
    <3>1. n - 1 \in Nat /\ n - 1 \notin Bad
      <4>1. n - 1 \in Nat /\ ~(n <= n - 1)
        BY <2>2, <2>4
      <4> HIDE DEF Bad
      <4> QED BY <2>1, <4>1
    <3>2. PICK g : g = Steps(g, From(n - 1))
      BY <3>1
    <3> DEFINE h == [d \in From(n) |-> IF d \in From(n - 1) THEN g[d]
                                       ELSE IF NextDue(d, c, a) \in d + 1..time THEN g[NextDue(d, c, a)]
                                       ELSE NextDue(d, c, a)]
    <3>3. From(n - 1) \subseteq From(n)
      BY <2>2
    <3>4. \A d \in From(n) : NextDue(d, c, a) \in d + 1..time => NextDue(d, c, a) \in From(n - 1)
      BY <2>2
    <3>5. \A d \in From(n - 1) : g[d] = IF NextDue(d, c, a) \in d + 1..time THEN g[NextDue(d, c, a)]
                                       ELSE NextDue(d, c, a)
      BY <3>2
    <3>6. \A d \in From(n - 1) : h[d] = g[d]
      BY <3>3
    <3> HIDE DEF From
    <3>7. \A d \in From(n) : h[d] = IF NextDue(d, c, a) \in d + 1..time THEN h[NextDue(d, c, a)]
                                   ELSE NextDue(d, c, a)
      <4> SUFFICES ASSUME NEW d \in From(n)
                   PROVE  h[d] = IF NextDue(d, c, a) \in d + 1..time THEN h[NextDue(d, c, a)]
                                 ELSE NextDue(d, c, a)
        OBVIOUS
      <4>1. h[d] = IF NextDue(d, c, a) \in d + 1..time THEN g[NextDue(d, c, a)] ELSE NextDue(d, c, a)
        BY <3>5
      <4>2. NextDue(d, c, a) \in d + 1..time => h[NextDue(d, c, a)] = g[NextDue(d, c, a)]
        BY <3>4, <3>6
      <4> HIDE DEF h
      <4> QED BY <4>1, <4>2
    <3>8. h = Steps(h, From(n))
      <4>1. h = [d \in From(n) |-> h[d]]
        OBVIOUS
      <4> HIDE DEF h
      <4> QED BY <3>7, <4>1
    <3> QED BY <2>2, <3>8
  <2> QED BY <2>3, <2>4
<1>2. From(time) = Nat
  OBVIOUS
<1>3. PICK g : g = Steps(g, Nat)
  <2>1. time \notin Bad
    BY <1>1
  <2>2. \E g : g = Steps(g, From(time))
    BY <2>1
  <2> HIDE DEF Steps, From
  <2> QED BY <1>2, <2>2
<1> QED BY <1>3

(* From a date of the schedule that is past, it leads to a date of it.     *)
LEMMA DueAfterIsDate ==
  ASSUME NEW row, Reached(row.first), row.cadence \in Cadences, row.anchor = DayOfMonth(row.first),
         row.due \in Schedule(row.first, row.cadence),
         NEW time \in Nat, Day(time) < MonthStart[Months - 1], row.due <= time
  PROVE  DueAfter(row, time) \in Schedule(row.first, row.cadence) \cup {NoTime}
<1> DEFINE dates == Schedule(row.first, row.cadence)
           Step(d) == NextDue(d, row.cadence, row.anchor)
           after == CHOOSE g : g = [due \in Nat |-> LET next == NextDue(due, row.cadence, row.anchor)
                                                  IN IF next \in due + 1..time THEN g[next] ELSE next]
           Bad == {n \in Nat : \E t \in dates : n = time - t /\ after[t] \notin dates \cup {NoTime}}
<1>1. after = [due \in Nat |-> LET next == NextDue(due, row.cadence, row.anchor)
                               IN IF next \in due + 1..time THEN after[next] ELSE next]
  BY SteppingEnds
<1>2. DueAfter(row, time) = after[row.due]
  BY DEF DueAfter
<1> HIDE DEF after
<1>3. \A d \in Nat : after[d] = IF Step(d) \in d + 1..time THEN after[Step(d)] ELSE Step(d)
  BY <1>1
<1>4. dates \subseteq Nat
  BY DatesAreInstants
<1>5. ASSUME NEW t \in dates, t <= time
      PROVE  Step(t) \in dates \cup {NoTime}
  <2>1. Day(t) <= Day(time) /\ Day(t) \in Nat /\ Day(time) \in Nat
    BY <1>4, <1>5 DEF Day
  <2>2. MonthStart[Months - 1] \in Nat
    BY CalendarAssumption, MonthsBegin
  <2>3. Day(t) < MonthStart[Months - 1]
    BY <2>1, <2>2
  <2> QED BY <2>3, NextDate
<1> HIDE DEF dates, Step
<1>6. Bad = {}
  <2> SUFFICES ASSUME Bad # {} PROVE FALSE
    OBVIOUS
  <2>1. PICK n \in Bad : \A m \in Bad : n <= m
    <3>1. Bad \in SUBSET Nat
      OBVIOUS
    <3> HIDE DEF Bad
    <3> QED BY <3>1, LeastNumber
  <2>2. PICK t \in dates : n = time - t /\ after[t] \notin dates \cup {NoTime}
    BY <2>1
  <2>3. t \in Nat /\ t <= time /\ n \in Nat
    BY <1>4, <2>1, <2>2
  <2>4. Step(t) \in dates \cup {NoTime}
    BY <1>5, <2>3
  <2>5. Step(t) \in t + 1..time /\ after[t] = after[Step(t)]
    BY <1>3, <2>2, <2>3, <2>4
  <2>6. Step(t) \in dates
    BY <2>3, <2>4, <2>5 DEF NoTime
  <2>7. time - Step(t) \in Nat /\ time - Step(t) < n
    BY <2>2, <2>3, <2>5
  <2>8. time - Step(t) \in Bad
    BY <2>2, <2>5, <2>6, <2>7
  <2> HIDE DEF Bad
  <2> QED BY <2>1, <2>3, <2>7, <2>8
<1>7. row.due \in dates
  BY DEF dates
<1>8. after[row.due] \in dates \cup {NoTime}
  <2>1. time - row.due \in Nat
    <3>1. row.due \in Nat
      BY <1>4, <1>7
    <3> QED BY <3>1
  <2>2. time - row.due \notin Bad
    BY <1>6
  <2> QED BY <1>7, <2>1, <2>2
<1> QED BY <1>2, <1>8 DEF dates

-----------------------------------------------------------------------------
(* Reminders keep to their schedules.                                      *)
OfSchedule(row, d) ==
  d \in Schedule(row.first, row.cadence) /\ (row.ends # NoTime => d <= row.ends)

ScheduledRow(row, notified) ==
  /\ row \in Row /\ Reached(row.first) /\ row.anchor = DayOfMonth(row.first)
  /\ OfSchedule(row, row.due)
  /\ \A d \in notified : OfSchedule(row, d)

ScheduleInv ==
  /\ now \in {0} \cup Clock
  /\ reminder = [r \in Reminders |-> reminder[r]]
  /\ occurrence \in [Reminders -> SUBSET Nat]
  /\ \A r \in Reminders :
       /\ \/ reminder[r] = NoReminder /\ occurrence[r] = {}
          \/ ScheduledRow(reminder[r], occurrence[r])
       /\ \A d \in occurrence[r] : d <= now

LEMMA InitSchedule == Init => ScheduleInv
BY DEF Init, ReminderInit, ScheduleInv

LEMMA ClockIs ==
  ASSUME NEW t \in {0} \cup Clock \cup {o.due : o \in Offered}
  PROVE  /\ t \in Nat /\ Day(t) < MonthStart[Months - 1] /\ Reached(t)
<1>1. t \in Nat /\ Day(t) < MonthStart[Months - 1] /\ Day(t) \in Nat
  BY ReminderAssumption, InstantIs
<1>2. MonthStart[Months - 1] \in Nat /\ MonthStart[Months] \in Nat /\ MonthStart[Months - 1] < MonthStart[Months]
  <2>1. Months - 1 \in 0..Months /\ Months \in 0..Months /\ Months - 1 < Months
    BY CalendarAssumption
  <2> QED BY <2>1, MonthsBegin, MonthsInOrder
<1> QED BY <1>1, <1>2 DEF Reached

(* Whatever only changes the status of a row keeps it on its schedule.     *)
LEMMA StatusKeepsRow ==
  ASSUME NEW row, NEW notified, ScheduledRow(row, notified),
         NEW status \in {"active", "paused", "cancelled", "completed"}
  PROVE  ScheduledRow([row EXCEPT !.status = status], notified)
<1> DEFINE new == [row EXCEPT !.status = status]
<1>1. row \in Row
  BY DEF ScheduledRow
<1>2. /\ new \in Row /\ new.due = row.due /\ new.first = row.first /\ new.anchor = row.anchor
      /\ new.cadence = row.cadence /\ new.ends = row.ends
  BY <1>1 DEF Row
<1> HIDE DEF new
<1>3. ScheduledRow(new, notified)
  BY <1>2 DEF ScheduledRow, OfSchedule
<1> QED BY <1>3 DEF new

LEMMA CancelsRow ==
  ASSUME ScheduleInv, NEW r \in Reminders
  PROVE  \/ Cancelled(r) = NoReminder /\ occurrence[r] = {}
         \/ ScheduledRow(Cancelled(r), occurrence[r])
<1>1. CASE reminder[r].status \in Live
  <2>1. ScheduledRow(reminder[r], occurrence[r])
    BY <1>1 DEF ScheduleInv, NoReminder, Live
  <2>2. Cancelled(r) = [reminder[r] EXCEPT !.status = "cancelled"]
    BY <1>1 DEF Cancelled
  <2>3. "cancelled" \in {"active", "paused", "cancelled", "completed"}
    OBVIOUS
  <2>4. ScheduledRow([reminder[r] EXCEPT !.status = "cancelled"], occurrence[r])
    BY <2>1, <2>3, StatusKeepsRow
  <2> QED BY <2>2, <2>4
<1>2. CASE reminder[r].status \notin Live
  BY <1>2 DEF Cancelled, ScheduleInv
<1> QED BY <1>1, <1>2

(* One row changes, or none.                                               *)
LEMMA RowChanges ==
  ASSUME ScheduleInv, now' = now, NEW r \in Reminders, NEW row, NEW notified \in SUBSET Nat,
         reminder' = [reminder EXCEPT ![r] = row], occurrence' = [occurrence EXCEPT ![r] = notified],
         ScheduledRow(row, notified), \A d \in notified : d <= now
  PROVE  ScheduleInv'
<1>1. /\ reminder'[r] = row /\ occurrence'[r] = notified
      /\ \A x \in Reminders : x # r => reminder'[x] = reminder[x] /\ occurrence'[x] = occurrence[x]
      /\ reminder' = [x \in Reminders |-> reminder'[x]] /\ occurrence' \in [Reminders -> SUBSET Nat]
  BY DEF ScheduleInv
<1> QED BY <1>1 DEF ScheduleInv

LEMMA CreatesRow ==
  ASSUME ScheduleInv, NEW r \in Reminders, NEW o \in Offered, NEW ofBill \in BOOLEAN, CreateReminder(r, o, ofBill)
  PROVE  ScheduleInv'
<1> DEFINE row == [status |-> "active", due |-> o.due, first |-> o.due, anchor |-> DayOfMonth(o.due),
                   cadence |-> o.cadence, ends |-> o.ends, ofBill |-> ofBill]
<1>1. /\ now' = now /\ reminder' = [reminder EXCEPT ![r] = row] /\ occurrence' = occurrence
      /\ reminder[r] = NoReminder
  BY DEF CreateReminder
<1>2. occurrence[r] = {}
  BY <1>1 DEF ScheduleInv, ScheduledRow, Row, NoReminder
<1>3. occurrence' = [occurrence EXCEPT ![r] = {}]
  BY <1>1, <1>2 DEF ScheduleInv
<1>4. Reached(o.due) /\ o.cadence \in Cadences /\ o.due \in Nat /\ o.ends \in Nat \cup {NoTime}
      /\ (o.ends = NoTime \/ o.due <= o.ends)
  BY ClockIs, ReminderAssumption
<1>5. DayOfMonth(o.due) \in 1..31
  <2>1. Month(o.due) \in Nat /\ DayOfMonth(o.due) \in 1..MonthLength(Month(o.due))
    BY <1>4, MonthIs, CalendarAssumption
  <2> QED BY <2>1, MonthLengths
<1>6. o.due \in Schedule(o.due, o.cadence)
  BY <1>4, FirstDate DEF Schedule
<1>7. /\ row.due = o.due /\ row.first = o.due /\ row.anchor = DayOfMonth(o.due)
      /\ row.cadence = o.cadence /\ row.ends = o.ends /\ row \in Row
  BY <1>4, <1>5 DEF Row
<1> HIDE DEF row
<1>8. ScheduledRow(row, {})
  BY <1>4, <1>6, <1>7 DEF ScheduledRow, OfSchedule
<1> QED BY <1>1, <1>3, <1>8, RowChanges

LEMMA WorksRow ==
  ASSUME ScheduleInv, NEW r \in Reminders, WorkReminder(r)
  PROVE  ScheduleInv'
<1> DEFINE row == reminder[r]
           next == DueAfter(row, now)
           new == Advanced(row)
           notified == occurrence[r] \cup {row.due}
<1>1. /\ row.status = "active" /\ row.due <= now /\ now' = now
      /\ occurrence' = [occurrence EXCEPT ![r] = notified]
      /\ reminder' = [reminder EXCEPT ![r] = new]
  BY DEF WorkReminder
<1>2. ScheduledRow(row, occurrence[r])
  BY <1>1 DEF ScheduleInv, NoReminder
<1>3. /\ row \in Row /\ row.cadence \in Cadences /\ row.due \in Nat /\ row.ends \in Nat \cup {NoTime}
      /\ Reached(row.first) /\ row.anchor = DayOfMonth(row.first)
      /\ OfSchedule(row, row.due)
  BY <1>2 DEF ScheduledRow, Row
<1>4. now \in Nat /\ Day(now) < MonthStart[Months - 1]
  BY ClockIs DEF ScheduleInv
<1>5. next \in Schedule(row.first, row.cadence) \cup {NoTime}
  BY <1>1, <1>3, <1>4, DueAfterIsDate DEF OfSchedule
<1>6. Schedule(row.first, row.cadence) \subseteq Nat
  BY <1>3, DatesAreInstants
<1> DEFINE due == IF Finished(row, next) = "completed" THEN row.due ELSE next
<1>7. OfSchedule(row, due) /\ due \in Nat /\ Finished(row, next) \in {"active", "completed"}
  BY <1>3, <1>5, <1>6 DEF Finished, OfSchedule
<1>8. new = [row EXCEPT !.due = due, !.status = Finished(row, next)]
  BY DEF Advanced
<1> HIDE DEF row, next, due, new
<1>9. /\ new \in Row /\ new.due = due /\ new.first = row.first /\ new.anchor = row.anchor
      /\ new.cadence = row.cadence /\ new.ends = row.ends
  BY <1>3, <1>7, <1>8 DEF Row
<1>10. ScheduledRow(new, notified)
  BY <1>2, <1>3, <1>7, <1>9 DEF ScheduledRow, OfSchedule
<1>11. notified \in SUBSET Nat /\ \A d \in notified : d <= now
  BY <1>1, <1>3 DEF ScheduleInv
<1> QED BY <1>1, <1>10, <1>11, RowChanges

LEMMA StepSchedule == ScheduleInv /\ [Next]_vars => ScheduleInv'
<1> SUFFICES ASSUME ScheduleInv, [Next]_vars PROVE ScheduleInv'
  OBVIOUS
<1>1. CASE UNCHANGED reminderVars
  BY <1>1 DEF reminderVars, ScheduleInv
<1>2. ASSUME NEW r \in Reminders, Remind(r) PROVE ScheduleInv'
  BY <1>2, WorksRow DEF Remind
<1>3. CASE CloseAccount
  <2>1. reminder' = [r \in Reminders |-> Cancelled(r)] /\ UNCHANGED <<now, occurrence>>
    BY <1>3 DEF CloseAccount, AllCancelled
  <2>2. \A r \in Reminders : reminder'[r] = Cancelled(r)
    BY <2>1
  <2> QED BY <2>1, <2>2, CancelsRow DEF ScheduleInv
<1>4. CASE ReminderStep
  <2>1. CASE DeleteSavedBill
    <3>1. /\ UNCHANGED <<now, occurrence>> /\ reminder' = [r \in Reminders |-> reminder'[r]]
          /\ \A r \in Reminders : reminder'[r] \in {Cancelled(r), reminder[r]}
      BY <2>1 DEF DeleteSavedBill
    <3> QED BY <3>1, CancelsRow DEF ScheduleInv
  <2>2. ASSUME NEW r \in Reminders, NEW o \in Offered, NEW ofBill \in BOOLEAN, CreateReminder(r, o, ofBill)
        PROVE  ScheduleInv'
    BY <2>2, CreatesRow
  <2>3. ASSUME NEW r \in Reminders, NEW status \in {"active", "paused", "cancelled"}, ReminderState(r, status)
        PROVE  ScheduleInv'
    <3>1. /\ now' = now /\ occurrence' = occurrence /\ reminder[r].status \in Live
          /\ reminder' = [reminder EXCEPT ![r] = [reminder[r] EXCEPT !.status = status]]
      BY <2>3 DEF ReminderState
    <3>2. ScheduledRow(reminder[r], occurrence[r]) /\ occurrence[r] \in SUBSET Nat
          /\ (\A d \in occurrence[r] : d <= now) /\ occurrence' = [occurrence EXCEPT ![r] = occurrence[r]]
      BY <3>1 DEF ScheduleInv, NoReminder, Live
    <3>3. ScheduledRow([reminder[r] EXCEPT !.status = status], occurrence[r])
      BY <3>2, StatusKeepsRow
    <3> DEFINE new == [reminder[r] EXCEPT !.status = status]
    <3> HIDE DEF new
    <3> QED BY <3>1, <3>2, <3>3, RowChanges DEF new
  <2>4. CASE TimePasses
    <3>1. now' \in Clock /\ now' > now /\ UNCHANGED <<reminder, occurrence>>
      BY <2>4 DEF TimePasses
    <3>2. now' \in Nat /\ now \in Nat
      BY <3>1, ClockIs DEF ScheduleInv
    <3>3. \A r \in Reminders : \A d \in occurrence[r] : d \in Nat /\ d <= now'
      BY <3>1, <3>2 DEF ScheduleInv
    <3> QED BY <3>1, <3>3 DEF ScheduleInv
  <2> QED BY <1>4, <2>1, <2>2, <2>3, <2>4 DEF ReminderStep
<1>5. UNCHANGED vars \/ Next
  OBVIOUS
<1> QED
  BY <1>1, <1>2, <1>3, <1>4, <1>5
     DEF Next, vars, FundingStep, Provisions, CreditArrives, CreditFunding, WalletEmptied, DocumentStep,
         IdentityStep, Approves, SupportStep, PostingStep, ReadingStep, Imports, StandingChanges

(* Every notice, and every date a reminder waits for, is a date of the     *)
(* schedule that was asked for, whatever was paused or skipped and however *)
(* often the day of the month was clamped; none is early or past its end.  *)
THEOREM RemindersKeepTheirSchedules == Spec => []OnSchedule
<1>1. ScheduleInv => OnSchedule
  <2> SUFFICES ASSUME ScheduleInv, NEW r \in Reminders, reminder[r].status # "none",
                      NEW d \in occurrence[r] \cup {reminder[r].due}
               PROVE  /\ d \in Schedule(reminder[r].first, reminder[r].cadence)
                      /\ reminder[r].ends # NoTime => d <= reminder[r].ends
                      /\ d \in occurrence[r] => d <= now
    BY DEF OnSchedule
  <2>1. ScheduledRow(reminder[r], occurrence[r])
    BY DEF ScheduleInv, NoReminder
  <2> QED BY <2>1 DEF ScheduleInv, ScheduledRow, OfSchedule
<1> QED BY <1>1, InitSchedule, StepSchedule, PTL DEF Spec, Safety

-----------------------------------------------------------------------------
(* What is shown of the ledger.                                            *)

RecordMoves ==
  \E p \in Postings : Accepts(p) \/ Begins(p) \/ Posts(p) \/ Commits(p) \/ RollsBack(p)

ImportMoves ==
  \E i \in Importers :
    \/ \E f \in Files : ImportBegins(i, f)
    \/ \E p \in Postings : Compares(i, p)
    \/ ImportCommits(i) \/ ImportFails(i)

RecordNext ==
  \/ MinutePasses \/ RecordMoves
  \/ StatementEnds \/ (\E from, to \in 0..Minutes + 1 : StatementOpens(from, to))
  \/ FirstPage \/ NextPage \/ ImportMoves

(* A step of the account is one of its records or leaves them alone.       *)
LEMMA RecordSteps == [Next]_vars => [RecordNext]_recordVars
BY DEF Next, vars, accountVars, ReminderStep, Remind, FundingStep, Provisions, CreditArrives, CreditFunding,
       WalletEmptied, DocumentStep, IdentityStep, Approves, SupportStep, PostingStep, ReadingStep, Imports,
       StandingChanges, CloseAccount, RecordNext, RecordMoves, ImportMoves

PostingTypes ==
  /\ minute \in 0..Minutes
  /\ lastEntry \in 0..EntryIds
  /\ posting \in [Postings -> [state : {"idle", "accepted", "running", "posted", "committed"},
                               began : 0..Minutes, entry : 0..EntryIds]]

(* Entries are numbered in the order in which their transactions commit:   *)
(* the lock of the wallet is held from the one to the other.               *)
Numbered == In({"posted", "committed"})

EntriesInOrder ==
  /\ \A p \in Numbered : posting[p].entry \in 1..lastEntry
  /\ \A p, q \in Numbered : posting[p].entry = posting[q].entry => p = q
  /\ \A p, q \in In({"posted"}) : p = q
  /\ \A p \in In({"posted"}), q \in Committed : posting[q].entry < posting[p].entry

PostingInv == PostingTypes /\ EntriesInOrder

LEMMA Bounds ==
  /\ Minutes \in Nat /\ EntryIds \in Nat /\ PageSize \in Nat \ {0} /\ Worth \in [Postings -> Int]
BY RecordsAssumption

LEMMA InitPosting == Init => PostingInv
BY Bounds DEF Init, RecordInit, Idle, PostingInv, PostingTypes, EntriesInOrder, Numbered, In, Committed

LEMMA WaitsAre ==
  ASSUME NEW p \in Postings
  PROVE  /\ Waits(p) \in [state : {"idle", "accepted"}, began : {0}, entry : {0}]
BY DEF Waits, Idle

(* What is committed stays, and is added to at the end.                    *)
CommittedGrows ==
  /\ Committed \subseteq Committed'
  /\ \A p \in Committed : posting'[p] = posting[p]
  /\ \A p \in Committed' \ Committed :
       /\ p \in Running /\ posting'[p].began = posting[p].began
       /\ \A q \in Committed : posting[q].entry < posting'[p].entry

(* A transaction that is under way was so before, or begins now.           *)
RunningBegan ==
  \A p \in Running' : \/ p \in Running /\ posting'[p].began = posting[p].began
                      \/ posting'[p].began = minute

LEMMA StepPosting ==
  ASSUME PostingInv, [RecordNext]_recordVars
  PROVE  PostingInv' /\ CommittedGrows /\ RunningBegan /\ minute <= minute'
<1> USE Bounds
<1>1. CASE UNCHANGED <<posting, lastEntry>> /\ (UNCHANGED minute \/ MinutePasses)
  <2>1. minute' \in 0..Minutes /\ minute <= minute'
    BY <1>1 DEF MinutePasses, PostingInv, PostingTypes
  <2> QED BY <1>1, <2>1 DEF PostingInv, PostingTypes, EntriesInOrder, Numbered, In, Committed, Running,
                           CommittedGrows, RunningBegan
<1>2. ASSUME NEW p \in Postings, Accepts(p) \/ Begins(p) \/ Posts(p) \/ Commits(p) \/ RollsBack(p)
      PROVE  PostingInv' /\ CommittedGrows /\ RunningBegan /\ minute <= minute'
  <2>1. CASE Accepts(p)
    BY <2>1 DEF Accepts, PostingInv, PostingTypes, EntriesInOrder, Numbered, In, Committed, Running,
                CommittedGrows, RunningBegan
  <2>2. CASE Begins(p)
    <3>1. posting[p].state \in {"idle", "accepted"}
      BY <2>2, WaitsAre DEF Begins
    <3>2. PostingTypes' /\ minute' = minute
      BY <2>2 DEF Begins, PostingInv, PostingTypes
    <3>3. /\ posting'[p].state = "running" /\ posting'[p].began = minute
          /\ \A q \in Postings \ {p} : posting'[q] = posting[q]
      BY <2>2 DEF Begins, PostingInv, PostingTypes
    <3>4. In({"posted", "committed"})' = In({"posted", "committed"})
          /\ In({"posted"})' = In({"posted"}) /\ In({"committed"})' = In({"committed"})
          /\ \A q \in In({"posted", "committed"}) : posting'[q] = posting[q]
      BY <3>1, <3>3 DEF In
    <3>5. EntriesInOrder'
      <4>1. lastEntry' = lastEntry /\ Committed' = Committed /\ Numbered' = Numbered
            /\ Committed \subseteq Numbered /\ In({"posted"}) \subseteq Numbered
        BY <2>2, <3>4 DEF Begins, Numbered, Committed, In
      <4> QED BY <3>4, <4>1 DEF PostingInv, EntriesInOrder, Numbered
    <3>6. CommittedGrows
      BY <3>4 DEF CommittedGrows, Committed, In
    <3>7. RunningBegan
      BY <3>3 DEF RunningBegan, Running, In
    <3>8. minute \in Int
      BY DEF PostingInv, PostingTypes
    <3> QED BY <3>2, <3>5, <3>6, <3>7, <3>8 DEF PostingInv
  <2>3. CASE Posts(p)
    <3>1. /\ PostingTypes' /\ minute' = minute /\ lastEntry' = lastEntry + 1
          /\ posting'[p].state = "posted" /\ posting'[p].began = posting[p].began
          /\ posting'[p].entry = lastEntry' /\ posting[p].state = "running"
          /\ \A q \in Postings \ {p} : posting'[q] = posting[q]
      <4>1. lastEntry + 1 \in 0..EntryIds /\ lastEntry' = lastEntry + 1
        BY <2>3 DEF Posts, PostingInv, PostingTypes
      <4>2. /\ posting' = [posting EXCEPT ![p].state = "posted", ![p].entry = lastEntry']
            /\ minute' = minute /\ posting[p].state = "running"
        BY <2>3 DEF Posts
      <4> QED BY <4>1, <4>2 DEF PostingInv, PostingTypes
    <3>2. /\ In({"posted"}) = {} /\ In({"posted"})' = {p} /\ In({"committed"})' = In({"committed"})
          /\ In({"posted", "committed"})' = In({"committed"}) \cup {p} /\ p \notin In({"committed"})
      <4>1. \A q \in Postings : posting[q].state # "posted"
        BY <2>3 DEF Posts, WalletFree, In
      <4> QED BY <3>1, <4>1 DEF In
    <3>3. \A q \in In({"committed"}) : q \in Numbered /\ q \in Postings \ {p} /\ posting'[q] = posting[q]
      BY <3>1, <3>2 DEF In, Numbered
    <3>4. \A q \in In({"committed"}) : posting[q].entry < lastEntry' /\ posting[q].entry \in 1..lastEntry'
      BY <3>1, <3>3 DEF PostingInv, PostingTypes, EntriesInOrder
    <3>5. lastEntry' \in 1..lastEntry'
      BY <3>1 DEF PostingInv, PostingTypes
    <3>6. EntriesInOrder'
      BY <3>1, <3>2, <3>3, <3>4, <3>5 DEF PostingInv, EntriesInOrder, Numbered, Committed
    <3>7. CommittedGrows
      BY <3>2, <3>3 DEF CommittedGrows, Committed
    <3>8. RunningBegan
      BY <3>1 DEF RunningBegan, Running, In
    <3>9. minute \in Int
      BY DEF PostingInv, PostingTypes
    <3> QED BY <3>1, <3>6, <3>7, <3>8, <3>9 DEF PostingInv
  <2>4. CASE Commits(p)
    BY <2>4 DEF Commits, PostingInv, PostingTypes, EntriesInOrder, Numbered, In, Committed, Running,
                CommittedGrows, RunningBegan
  <2>5. CASE RollsBack(p)
    <3>1. posting' = [posting EXCEPT ![p] = Waits(p)] /\ UNCHANGED <<minute, lastEntry>>
          /\ posting[p].state \in {"running", "posted"}
      BY <2>5 DEF RollsBack, Running, In
    <3> QED BY <3>1, WaitsAre DEF PostingInv, PostingTypes, EntriesInOrder, Numbered, In, Committed, Running,
                            CommittedGrows, RunningBegan
  <2> QED BY <1>2, <2>1, <2>2, <2>3, <2>4, <2>5
<1> QED
  BY <1>1, <1>2 DEF RecordNext, RecordMoves, ImportMoves, recordVars, postingVars, MinutePasses, StatementEnds,
     StatementOpens, FirstPage, NextPage, ImportBegins, Compares, ImportCommits, ImportFails

LEMMA CommittedFinite == ASSUME PostingInv PROVE IsFiniteSet(Committed)
<1> DEFINE number == [p \in Committed |-> posting[p].entry]
<1>1. Committed \subseteq Numbered /\ lastEntry \in Int
  BY Bounds DEF Committed, Numbered, In, PostingInv, PostingTypes
<1>2. number \in Injection(Committed, 1..lastEntry)
  BY <1>1 DEF Injection, IsInjective, PostingInv, EntriesInOrder
<1>3. IsFiniteSet(1..lastEntry)
  BY <1>1, FS_Interval
<1> QED BY <1>2, <1>3, FS_Injection

(* Statements.                                                             *)
LEMMA SumIsSum == ASSUME NEW P PROVE Sum(P) = SumFunctionOnSet(Worth, P)
BY DEF Sum, MapThenSumSet, SumFunctionOnSet, FoldFunctionOnSet

LEMMA SumsAre == ASSUME NEW P \in SUBSET Postings, IsFiniteSet(P) PROVE Sum(P) \in Int
BY Bounds, SumIsSum, SumInt

StatementTypes ==
  statement \in [stage : {"none", "reading", "issued"}, from : 0..Minutes + 1, to : 0..Minutes + 1,
                 seen : SUBSET Postings, opening : Int, closing : Int, settled : BOOLEAN]

SettledStatement ==
  statement.stage # "none" /\ statement.settled = TRUE =>
    /\ statement.to <= minute
    /\ Before(Running, statement.to) = {}
    /\ Before(Committed, statement.to) = Before(statement.seen, statement.to)

StatementInv ==
  /\ StatementTypes /\ SettledStatement
  /\ statement.stage # "none" => statement.seen \subseteq Committed
  /\ statement.stage = "reading" =>
       statement.from < statement.to /\ statement.opening = Sum(Before(statement.seen, statement.from))
  /\ statement.stage = "issued" => statement.closing = Sum(Before(statement.seen, statement.to))

LEMMA InitStatement == Init => StatementInv
BY Bounds DEF Init, RecordInit, NoStatement, StatementInv, StatementTypes, SettledStatement

LEMMA OpensStatement ==
  ASSUME PostingInv, NEW from \in 0..Minutes + 1, NEW to \in 0..Minutes + 1, StatementOpens(from, to)
  PROVE  StatementInv'
<1> DEFINE past == to <= minute /\ Before(Running, to) = {}
<1>1. /\ statement' = [stage |-> "reading", from |-> from, to |-> to, seen |-> Committed,
                        opening |-> Sum(Before(Committed, from)), closing |-> 0, settled |-> past]
      /\ from < to /\ posting' = posting /\ minute' = minute
  BY DEF StatementOpens, postingVars
<1>2. Committed \in SUBSET Postings /\ Before(Committed, from) \in SUBSET Postings
      /\ Before(Committed, from) \subseteq Committed
  BY DEF Committed, In, Before
<1>3. Sum(Before(Committed, from)) \in Int
  BY <1>2, CommittedFinite, SumsAre, FS_Subset
<1>4. past \in BOOLEAN
  OBVIOUS
<1> HIDE DEF past
<1>5. StatementTypes'
  BY <1>1, <1>2, <1>3, <1>4 DEF StatementTypes
<1>6. /\ Committed' = Committed /\ \A P, t : Before(P, t)' = Before(P, t)
      /\ Before(Running, to)' = Before(Running, to)
      /\ Before(Committed, from)' = Before(Committed, from)
      /\ Before(Committed, to)' = Before(Committed, to)
  BY <1>1 DEF Committed, Running, In, Before
<1>7. SettledStatement'
  BY <1>1, <1>6 DEF SettledStatement, past, Before
<1> QED BY <1>1, <1>5, <1>6, <1>7 DEF StatementInv, Before

LEMMA EndsStatement ==
  ASSUME PostingInv, StatementInv, StatementEnds
  PROVE  StatementInv'
<1> DEFINE closes == statement.opening + Sum(Listed)
           seen1 == statement.seen
<1>1. /\ posting' = posting /\ minute' = minute
      /\ statement.stage = "reading"
      /\ \/ statement' = NoStatement
         \/ statement' = [statement EXCEPT !.stage = "issued", !.closing = closes, !.from = 0, !.opening = 0]
  BY DEF StatementEnds, postingVars
<1>2. Committed' = Committed /\ Before(Running, statement.to)' = Before(Running, statement'.to)
      /\ \A P, t : Before(P, t) = {p \in P : posting[p].began < t}
  BY <1>1 DEF Committed, In, Before, Running
<1>3. CASE statement' = NoStatement
  BY <1>3, Bounds DEF NoStatement, StatementInv, StatementTypes, SettledStatement
<1>4. CASE statement' = [statement EXCEPT !.stage = "issued", !.closing = closes, !.from = 0, !.opening = 0]
  <2>1. /\ Before(seen1, statement.to) = Before(seen1, statement.from) \cup Listed
        /\ Before(seen1, statement.from) \cap Listed = {}
        /\ Listed \in SUBSET Committed /\ Before(seen1, statement.from) \in SUBSET Committed
        /\ Committed \in SUBSET Postings
    <3>1. /\ statement.from \in Int /\ statement.to \in Int /\ statement.from < statement.to
          /\ seen1 \subseteq Committed /\ \A p \in Committed : p \in Postings /\ posting[p].began \in Int
      BY <1>1, Bounds DEF StatementInv, StatementTypes, PostingInv, PostingTypes, Committed, In
    <3> QED BY <3>1 DEF Listed, Snapshot, Before
  <2>2. IsFiniteSet(Listed) /\ IsFiniteSet(Before(seen1, statement.from))
    BY <2>1, CommittedFinite, FS_Subset
  <2>3. \A p \in Before(seen1, statement.from) \cup Listed : Worth[p] \in Int
    BY <2>1, Bounds
  <2>4. Sum(Before(seen1, statement.to)) = Sum(Before(seen1, statement.from)) + Sum(Listed)
    BY <2>1, <2>2, <2>3, SumIsSum, SumUnion
  <2>5. closes = Sum(Before(seen1, statement.to)) /\ closes \in Int
    BY <1>1, <2>1, <2>2, <2>4, SumsAre DEF StatementInv
  <2> HIDE DEF closes, seen1
  <2>6. /\ statement'.stage = "issued" /\ statement'.closing = closes /\ statement'.to = statement.to
        /\ statement'.seen = statement.seen /\ statement'.settled = statement.settled
    BY <1>4 DEF StatementInv, StatementTypes
  <2>8. StatementTypes'
    <3>1. 0 \in 0..Minutes + 1
      BY Bounds
    <3> DEFINE Times == 0..Minutes + 1
    <3>2. statement \in [stage : {"none", "reading", "issued"}, from : Times, to : Times,
                         seen : SUBSET Postings, opening : Int, closing : Int, settled : BOOLEAN]
      BY DEF StatementInv, StatementTypes
    <3>3. 0 \in Times /\ "issued" \in {"none", "reading", "issued"} /\ 0 \in Int /\ closes \in Int
      BY <2>5, <3>1
    <3> HIDE DEF Times
    <3>4. statement' \in [stage : {"none", "reading", "issued"}, from : Times, to : Times,
                          seen : SUBSET Postings, opening : Int, closing : Int, settled : BOOLEAN]
      BY <1>4, <3>2, <3>3
    <3> QED BY <3>4 DEF StatementTypes, Times
  <2>7. SettledStatement'
    BY <1>1, <2>6 DEF StatementInv, SettledStatement, Before, Committed, Running, In
  <2> QED BY <1>1, <1>2, <2>5, <2>6, <2>7, <2>8 DEF StatementInv, Before, seen1
<1> QED BY <1>1, <1>3, <1>4

(* A statement that was settled stays so: whoever commits was under way,   *)
(* and whoever begins does so no earlier than now.                         *)
LEMMA KeepsStatement ==
  ASSUME PostingInv, PostingInv', StatementInv, CommittedGrows, RunningBegan, minute <= minute', UNCHANGED statement
  PROVE  StatementInv'
<1>1. statement.to \in Int /\ minute \in Int /\ minute' \in Int /\ statement.from \in Int
  BY Bounds DEF StatementInv, StatementTypes, PostingInv, PostingTypes
<1>2. ASSUME statement.stage # "none"
      PROVE  \A t : Before(statement.seen, t)' = Before(statement.seen, t)
  BY <1>2 DEF StatementInv, CommittedGrows, Before
<1>3. ASSUME statement.stage # "none", statement.settled = TRUE
      PROVE  /\ Before(Running, statement.to)' = {}
             /\ Before(Committed, statement.to)' = Before(statement.seen, statement.to)'
  <2>1. /\ statement.to <= minute
        /\ \A p \in Running : ~(posting[p].began < statement.to)
        /\ Before(Committed, statement.to) = Before(statement.seen, statement.to)
    BY <1>3 DEF StatementInv, SettledStatement, Before
  <2>2. \A p \in Running' : ~(posting'[p].began < statement.to)
    BY <1>1, <2>1 DEF RunningBegan
  <2>3. \A p \in Committed' : \/ p \in Committed /\ posting'[p] = posting[p]
                              \/ ~(posting'[p].began < statement.to)
    BY <2>1 DEF CommittedGrows
  <2>4. statement.seen \subseteq Committed
    BY <1>3 DEF StatementInv
  <2> QED BY <2>1, <2>2, <2>3, <2>4 DEF Before, CommittedGrows
<1>4. SettledStatement'
  <2>1. ASSUME statement.stage # "none", statement.settled = TRUE
        PROVE  statement.to <= minute'
    BY <1>1, <2>1 DEF StatementInv, SettledStatement
  <2>2. statement' = statement
    OBVIOUS
  <2> QED BY <1>3, <2>1, <2>2 DEF SettledStatement
<1>5. statement.stage # "none" =>
        /\ Before(statement.seen, statement.from)' = Before(statement.seen, statement.from)
        /\ Before(statement.seen, statement.to)' = Before(statement.seen, statement.to)
  BY <1>2 DEF Before
<1>6. /\ StatementTypes'
      /\ statement.stage # "none" => statement.seen \subseteq Committed'
  BY DEF StatementInv, StatementTypes, CommittedGrows
<1>7. statement.stage = "reading" =>
        statement.from < statement.to /\ statement.opening = Sum(Before(statement.seen, statement.from))
  BY DEF StatementInv
<1>8. statement.stage = "issued" => statement.closing = Sum(Before(statement.seen, statement.to))
  BY DEF StatementInv
<1>9. statement.stage = "reading" => (statement.opening = Sum(Before(statement.seen, statement.from)))'
  BY <1>5, <1>7
<1>10. statement.stage = "issued" => (statement.closing = Sum(Before(statement.seen, statement.to)))'
  BY <1>5, <1>8
<1> QED BY <1>4, <1>6, <1>7, <1>9, <1>10 DEF StatementInv

LEMMA StepStatement ==
  ASSUME PostingInv, PostingInv', StatementInv, [RecordNext]_recordVars,
         CommittedGrows, RunningBegan, minute <= minute'
  PROVE  StatementInv'
BY OpensStatement, EndsStatement, KeepsStatement
   DEF RecordNext, RecordMoves, ImportMoves, recordVars, MinutePasses, Accepts, Begins, Posts, Commits, RollsBack,
       FirstPage, NextPage, ImportBegins, Compares, ImportCommits, ImportFails

LEMMA IssuedStatements == PostingInv /\ StatementInv => StatementsHold
<1> SUFFICES ASSUME StatementInv, statement.stage = "issued"
             PROVE  StatementsHold
  BY DEF StatementsHold
<1>1. statement.closing = Sum(Before(statement.seen, statement.to))
  BY DEF StatementInv
<1>2. statement.settled = TRUE => Before(Committed, statement.to) = Before(statement.seen, statement.to)
  BY DEF StatementInv, SettledStatement
<1>3. statement.settled \in BOOLEAN
  BY DEF StatementInv, StatementTypes
<1>4. CASE statement.settled = TRUE
  BY <1>1, <1>2, <1>4 DEF StatementsHold
<1>5. CASE statement.settled = FALSE
  BY <1>1, <1>5 DEF StatementsHold
<1> QED BY <1>3, <1>4, <1>5

-----------------------------------------------------------------------------
(* Pages.  The entries of a walk are those committed when it began, and    *)
(* what was shown so far is all of them from the last page's last upwards. *)
OnTheWay ==
  /\ walk.shown = {p \in walk.atFirst : posting[p].entry >= walk.before}
  /\ \E p \in walk.atFirst : posting[p].entry = walk.before
  /\ \A p \in Committed \ walk.atFirst, q \in walk.atFirst : posting[q].entry < posting[p].entry

WalkInv ==
  walk.stage # "none" =>
    /\ walk.atFirst \subseteq Committed
    /\ walk.stage = "paging" => OnTheWay
    /\ walk.stage # "paging" => walk.shown = walk.atFirst

LEMMA InitWalk == Init => WalkInv
BY DEF Init, RecordInit, NoWalk, WalkInv

LEMMA NumbersAre ==
  ASSUME PostingInv
  PROVE  /\ \A p \in Committed : posting[p].entry \in Nat \ {0}
         /\ \A p, q \in Committed : posting[p].entry = posting[q].entry => p = q
<1>1. Committed \subseteq Numbered /\ lastEntry \in Int
  BY Bounds DEF Committed, Numbered, In, PostingInv, PostingTypes
<1> QED BY <1>1 DEF PostingInv, EntriesInOrder

(* A page is the newest of what is older, and all of it if it is not full. *)
LEMMA PageIs ==
  ASSUME PostingInv, NEW before
  PROVE  /\ Page(before) \subseteq Older(before) /\ Older(before) \subseteq Committed
         /\ \A p \in Page(before), q \in Older(before) :
              posting[p].entry < posting[q].entry => q \in Page(before)
         /\ Cardinality(Page(before)) < PageSize => Page(before) = Older(before)
         /\ ~(Cardinality(Page(before)) < PageSize) => Page(before) # {}
<1> DEFINE O == Older(before)
           Above(p) == {q \in O : posting[q].entry > posting[p].entry}
<1>1. /\ O \subseteq Committed /\ IsFiniteSet(O)
      /\ Page(before) = {p \in O : Cardinality(Above(p)) < PageSize}
  <2>1. O \subseteq Committed
    BY DEF Older
  <2> QED BY <2>1, CommittedFinite, FS_Subset DEF Page
<1>2. \A p \in O : posting[p].entry \in Nat
  BY <1>1, NumbersAre
<1> HIDE DEF O
<1>7. \A p \in O : p \in Page(before) <=> Cardinality(Above(p)) < PageSize
  BY <1>1
<1>3. \A p : IsFiniteSet(Above(p)) /\ Cardinality(Above(p)) \in Nat
  BY <1>1, FS_Subset, FS_CardinalityType
<1>4. ASSUME NEW p \in Page(before), NEW q \in O, posting[p].entry < posting[q].entry
      PROVE  q \in Page(before)
  <2>1. Above(q) \subseteq Above(p)
    BY <1>1, <1>2, <1>4
  <2>2. Cardinality(Above(q)) <= Cardinality(Above(p))
    BY <1>3, <2>1, FS_Subset
  <2>3. p \in O /\ Cardinality(Above(p)) < PageSize
    <3>1. p \in O
      BY <1>1, <1>4
    <3> HIDE DEF Above
    <3> QED BY <1>4, <1>7, <3>1
  <2>4. Cardinality(Above(q)) < PageSize
    <3> HIDE DEF Above
    <3> QED BY <1>3, <2>2, <2>3, Bounds
  <2> QED BY <1>4, <1>7, <2>4
<1>5. ASSUME Cardinality(Page(before)) < PageSize, Page(before) # O PROVE FALSE
  <2> DEFINE rest == O \ Page(before)
             depths == {lastEntry - posting[p].entry : p \in rest}
  <2>1. rest # {} /\ rest \subseteq O
    BY <1>1, <1>5
  <2>2. \A p \in rest : posting[p].entry \in 1..lastEntry /\ lastEntry \in Nat
    <3>1. \A p \in Committed : p \in Numbered
      BY DEF Committed, Numbered, In
    <3> QED BY <1>1, <2>1, <3>1, Bounds DEF PostingInv, PostingTypes, EntriesInOrder
  <2>3. depths \in SUBSET Nat /\ depths # {}
    BY <2>1, <2>2
  <2>4. PICK d \in depths : \A e \in depths : d <= e
    BY <2>3, LeastNumber
  <2>5. PICK p \in rest : \A q \in rest : posting[q].entry <= posting[p].entry
    <3>1. PICK p \in rest : d = lastEntry - posting[p].entry
      BY <2>4
    <3>2. ASSUME NEW q \in rest PROVE posting[q].entry <= posting[p].entry
      <4>1. lastEntry - posting[q].entry \in depths
        OBVIOUS
      <4>2. d <= lastEntry - posting[q].entry
        BY <2>4, <4>1
      <4> QED BY <2>2, <3>1, <4>2
    <3> QED BY <3>2
  <2>6. Above(p) \subseteq Page(before)
    BY <1>2, <2>1, <2>5
  <2>7. IsFiniteSet(Page(before)) /\ Cardinality(Page(before)) \in Nat
    BY <1>1, FS_Subset, FS_CardinalityType
  <2>8. Cardinality(Above(p)) <= Cardinality(Page(before))
    BY <2>6, <2>7, FS_Subset
  <2>9. ~(Cardinality(Above(p)) < PageSize)
    BY <1>7, <2>1
  <2> HIDE DEF Above
  <2> QED BY <1>3, <1>5, <2>7, <2>8, <2>9, Bounds
<1>6. ASSUME Page(before) = {} PROVE Cardinality(Page(before)) < PageSize
  BY <1>6, Bounds, FS_EmptySet
<1> QED BY <1>1, <1>4, <1>5, <1>6 DEF O

LEMMA LeastEntry ==
  ASSUME PostingInv, NEW P \in SUBSET Committed, P # {}
  PROVE  \E p \in P : /\ Min({posting[q].entry : q \in P}) = posting[p].entry
                       /\ \A q \in P : posting[p].entry <= posting[q].entry
<1> DEFINE entries == {posting[q].entry : q \in P}
<1>1. entries \in SUBSET Nat /\ entries # {}
  BY NumbersAre
<1>2. \E n \in entries : \A m \in entries : n <= m
  BY <1>1, LeastNumber
<1>3. Min(entries) \in entries /\ \A m \in entries : Min(entries) <= m
  BY <1>2 DEF Min
<1>4. PICK p \in P : Min(entries) = posting[p].entry
  BY <1>3
<1> QED BY <1>3, <1>4

(* One page more, the first or another.                                    *)
LEMMA Turns ==
  ASSUME PostingInv, UNCHANGED postingVars, NEW limit, NEW sofar, NEW whole \in SUBSET Committed,
         walk' = Turned(limit, sofar, whole),
         Older(limit) \cap whole = Older(limit),
         sofar = whole \ Older(limit),
         \A p \in Older(limit), q \in sofar : posting[p].entry < posting[q].entry,
         \A p \in Committed \ whole, q \in whole : posting[q].entry < posting[p].entry
  PROVE  WalkInv'
<1> DEFINE page == Page(limit)
<1>1. /\ page \subseteq Older(limit) /\ Older(limit) \subseteq whole /\ page \subseteq Committed
      /\ \A p \in page, q \in Older(limit) : posting[p].entry < posting[q].entry => q \in page
      /\ Cardinality(page) < PageSize => page = Older(limit)
      /\ ~(Cardinality(page) < PageSize) => page # {}
  BY PageIs
<1> DEFINE ending == IF Cardinality(page) < PageSize THEN "done" ELSE "paging"
           both == sofar \cup page
           least == IF page = {} THEN limit ELSE Min({posting[p].entry : p \in page})
<1>2. /\ walk' = [stage |-> ending, before |-> least, shown |-> both, atFirst |-> whole]
      /\ posting' = posting
  BY DEF Turned, postingVars
<1>7. /\ both = sofar \cup page
      /\ ending = IF Cardinality(page) < PageSize THEN "done" ELSE "paging"
      /\ page # {} => least = Min({posting[p].entry : p \in page})
  OBVIOUS
<1> HIDE DEF page, both, ending, least
<1>3. Committed' = Committed
  BY <1>2 DEF Committed, In
<1>6. /\ walk'.stage = ending /\ walk'.before = least
      /\ walk'.shown = both /\ walk'.atFirst = whole
  BY <1>2
<1>4. CASE Cardinality(page) < PageSize
  <2>1. walk'.stage = "done" /\ walk'.shown = whole /\ walk'.atFirst = whole
    BY <1>1, <1>4, <1>6, <1>7
  <2> QED BY <1>3, <2>1 DEF WalkInv
<1>5. CASE ~(Cardinality(page) < PageSize)
  <2>1. PICK last \in page : /\ Min({posting[p].entry : p \in page}) = posting[last].entry
                             /\ \A q \in page : posting[last].entry <= posting[q].entry
    BY <1>1, <1>5, LeastEntry
  <2>2. walk'.stage = "paging" /\ walk'.before = posting[last].entry
        /\ walk'.shown = sofar \cup page /\ walk'.atFirst = whole
    BY <1>1, <1>5, <1>6, <1>7, <2>1
  <2>3. \A p \in whole : p \in Committed /\ posting[p].entry \in Nat
    BY NumbersAre
  <2>4. ASSUME NEW p \in whole
        PROVE  p \in sofar \cup page <=> posting[p].entry >= posting[last].entry
    <3>1. CASE p \in sofar
      BY <1>1, <2>1, <2>3, <3>1
    <3>2. CASE p \in page
      BY <1>1, <2>1, <2>3, <3>2
    <3>3. CASE p \notin sofar \cup page
      <4>1. p \in Older(limit) /\ last \in Committed /\ p \in Committed
        BY <1>1, <2>1, <2>3, <3>3
      <4>2. ~(posting[last].entry < posting[p].entry)
        BY <1>1, <2>1, <3>3, <4>1
      <4>3. posting[p].entry # posting[last].entry
        BY <2>1, <3>3, <4>1, NumbersAre
      <4> QED BY <1>1, <2>3, <3>3, <4>2, <4>3
    <3> QED BY <3>1, <3>2, <3>3
  <2>5. sofar \cup page = {p \in whole : posting[p].entry >= posting[last].entry}
    BY <1>1, <2>4
  <2> QED BY <1>1, <1>2, <1>3, <2>1, <2>2, <2>5 DEF WalkInv, OnTheWay
<1> QED BY <1>4, <1>5

LEMMA StepWalk ==
  ASSUME PostingInv, WalkInv, [RecordNext]_recordVars, CommittedGrows
  PROVE  WalkInv'
<1>1. CASE FirstPage
  <2>1. /\ walk' = Turned(0, {}, Committed) /\ UNCHANGED postingVars
        /\ Older(0) = Committed
    BY <1>1 DEF FirstPage, Older
  <2> QED BY <2>1, Turns
<1>2. CASE NextPage
  <2>1. /\ walk' = Turned(walk.before, walk.shown, walk.atFirst) /\ UNCHANGED postingVars
        /\ walk.atFirst \in SUBSET Committed /\ OnTheWay
    BY <1>2 DEF NextPage, WalkInv
  <2>2. /\ walk.before \in Nat \ {0}
        /\ \A p \in Committed : posting[p].entry \in Nat
    BY <2>1, NumbersAre DEF OnTheWay
  <2>3. Older(walk.before) = {p \in Committed : posting[p].entry < walk.before}
    BY <2>2 DEF Older
  <2>4. Older(walk.before) \subseteq walk.atFirst
    BY <2>1, <2>2, <2>3 DEF OnTheWay
  <2>5. walk.shown = walk.atFirst \ Older(walk.before)
    BY <2>1, <2>2, <2>3 DEF OnTheWay
  <2>6. \A p \in Older(walk.before), q \in walk.shown : posting[p].entry < posting[q].entry
    BY <2>1, <2>2, <2>3 DEF OnTheWay
  <2>7. \A p \in Committed \ walk.atFirst, q \in walk.atFirst : posting[q].entry < posting[p].entry
    BY <2>1 DEF OnTheWay
  <2> QED BY <2>1, <2>4, <2>5, <2>6, <2>7, Turns
<1>3. CASE UNCHANGED walk
  <2>1. CASE walk.stage = "paging"
    <3>1. walk.atFirst \subseteq Committed /\ OnTheWay
      BY <2>1 DEF WalkInv
    <3>2. \A p \in walk.atFirst : posting'[p] = posting[p]
      BY <3>1 DEF CommittedGrows
    <3>3. OnTheWay'
      BY <1>3, <3>1, <3>2 DEF OnTheWay, CommittedGrows
    <3> QED BY <1>3, <2>1, <3>1, <3>3 DEF WalkInv, CommittedGrows
  <2>2. CASE walk.stage # "paging"
    BY <1>3, <2>2 DEF WalkInv, CommittedGrows
  <2> QED BY <2>1, <2>2
<1> QED
  BY <1>1, <1>2, <1>3
     DEF RecordNext, RecordMoves, ImportMoves, recordVars, MinutePasses, Accepts, Begins, Posts, Commits, RollsBack,
         StatementEnds, StatementOpens, ImportBegins, Compares, ImportCommits, ImportFails

-----------------------------------------------------------------------------
(* Imports of finance.                                                     *)
Compared == UNION {[D -> Reasons] : D \in SUBSET Postings}

MatchedArePosted(results) == \A p \in DOMAIN results : results[p] = "matched" => p \in Committed

(* A file under way was not imported, and is with one importer only.       *)
UnderWay(i) ==
  LET f == importing[i].file
      done == importing[i].compared
  IN /\ imported[f] = NoResults
     /\ DOMAIN done \subseteq DOMAIN Says[f] /\ (done # NoResults => DOMAIN done # {})
     /\ MatchedArePosted(done)
     /\ \A j \in Importers : importing[j].file = f => j = i

ImportInv ==
  /\ importing \in [Importers -> [file : Files \cup {"none"}, compared : Compared]]
  /\ DOMAIN imported = Files /\ imported = [f \in Files |-> imported[f]]
  /\ \A i \in Importers : importing[i].file \in Files => UnderWay(i)
  /\ \A f \in Files : imported[f] # NoResults =>
       DOMAIN imported[f] = DOMAIN Says[f] /\ MatchedArePosted(imported[f])
  /\ \A t \in told : /\ t.file \in Files /\ t.results = imported[t.file]
                      /\ DOMAIN t.results = DOMAIN Says[t.file] /\ MatchedArePosted(t.results)

LEMMA NothingCompared == NoResults \in Compared /\ DOMAIN NoResults = {}
BY DEF NoResults, Compared

LEMMA ComparedAre == ASSUME NEW c \in Compared PROVE DOMAIN c \subseteq Postings /\ c = [p \in DOMAIN c |-> c[p]]
                                                    /\ \A p \in DOMAIN c : c[p] \in Reasons
BY DEF Compared

LEMMA InitImport == Init => ImportInv
<1> SUFFICES ASSUME Init PROVE ImportInv
  OBVIOUS
<1>1. /\ importing = [i \in Importers |-> NoImport] /\ imported = [f \in Files |-> NoResults]
      /\ told = {} /\ NoImport = [file |-> "none", compared |-> NoResults]
  BY DEF Init, RecordInit, NoImport
<1> QED BY <1>1, NothingCompared, RecordsAssumption DEF ImportInv

(* What is posted stays posted.                                            *)
LEMMA KeepsImport ==
  ASSUME ImportInv, CommittedGrows, UNCHANGED importVars
  PROVE  ImportInv'
<1>1. \A r : MatchedArePosted(r) => MatchedArePosted(r)'
  BY DEF MatchedArePosted, CommittedGrows
<1>2. importing' = importing /\ imported' = imported /\ told' = told
  BY DEF importVars
<1>3. \A i \in Importers : UnderWay(i) => UnderWay(i)'
  BY <1>1, <1>2 DEF UnderWay
<1> QED BY <1>1, <1>2, <1>3 DEF ImportInv

LEMMA BeginsImport ==
  ASSUME ImportInv, NEW i \in Importers, NEW f \in Files, ImportBegins(i, f)
  PROVE  ImportInv'
<1>1. /\ importing[i] = NoImport /\ (\A j \in Importers : importing[j].file # f)
      /\ imported' = imported /\ Committed' = Committed
  BY DEF ImportBegins, postingVars, Committed, In
<1>2. \A r : MatchedArePosted(r)' <=> MatchedArePosted(r)
  BY <1>1 DEF MatchedArePosted
<1>3. CASE imported[f] = NoResults /\ importing' = [importing EXCEPT ![i].file = f] /\ told' = told
  <2>1. importing' = [importing EXCEPT ![i] = [file |-> f, compared |-> NoResults]]
    <3>1. [NoImport EXCEPT !.file = f] = [file |-> f, compared |-> NoResults]
      BY DEF NoImport
    <3> QED BY <1>1, <1>3, <3>1
  <2>2. /\ importing' \in [Importers -> [file : Files \cup {"none"}, compared : Compared]]
        /\ importing'[i].file = f /\ importing'[i].compared = NoResults
        /\ \A j \in Importers \ {i} : importing'[j] = importing[j]
    BY <2>1, NothingCompared DEF ImportInv
  <2>3. ASSUME NEW j \in Importers, importing'[j].file \in Files PROVE UnderWay(j)'
    <3>1. CASE j = i
      BY <1>1, <1>2, <1>3, <2>2, <3>1, NothingCompared DEF UnderWay, MatchedArePosted
    <3>2. CASE j # i
      <4>1. UnderWay(j) /\ importing'[j] = importing[j] /\ importing[j].file # f
        BY <1>1, <2>2, <2>3, <3>2 DEF ImportInv
      <4> QED BY <1>1, <1>2, <2>2, <4>1 DEF UnderWay
    <3> QED BY <3>1, <3>2
  <2> QED BY <1>1, <1>2, <1>3, <2>2, <2>3 DEF ImportInv
<1>4. CASE /\ imported[f] # NoResults /\ importing' = importing
           /\ told' = told \cup {[file |-> f, results |-> imported[f]]}
  <2>1. \A j \in Importers : UnderWay(j) => UnderWay(j)'
    BY <1>1, <1>2, <1>4 DEF UnderWay
  <2>2. DOMAIN imported[f] = DOMAIN Says[f] /\ MatchedArePosted(imported[f])
    BY <1>4 DEF ImportInv
  <2>3. ASSUME NEW t \in told'
        PROVE  /\ t.file \in Files /\ t.results = imported[t.file]
               /\ DOMAIN t.results = DOMAIN Says[t.file] /\ MatchedArePosted(t.results)
    <3>1. CASE t \in told
      BY <3>1 DEF ImportInv
    <3>2. CASE t = [file |-> f, results |-> imported[f]]
      <4>1. t.file = f /\ t.results = imported[f]
        BY <3>2
      <4> QED BY <2>2, <4>1
    <3> QED BY <1>4, <3>1, <3>2
  <2> QED BY <1>1, <1>2, <1>4, <2>1, <2>3 DEF ImportInv
<1> QED BY <1>3, <1>4 DEF ImportBegins

LEMMA ComparesImport ==
  ASSUME ImportInv, NEW i \in Importers, NEW p \in Postings, Compares(i, p)
  PROVE  ImportInv'
<1> DEFINE f == importing[i].file
           done == importing[i].compared
           more == [q \in DOMAIN done \cup {p} |-> IF q = p THEN Reason(p, Says[f][p]) ELSE done[q]]
<1>1. /\ f \in Files /\ p \in DOMAIN Says[f] \ DOMAIN done
      /\ importing' = [importing EXCEPT ![i].compared = more]
      /\ imported' = imported /\ told' = told /\ Committed' = Committed
  BY DEF Compares, postingVars, Committed, In
<1>2. \A r : MatchedArePosted(r)' <=> MatchedArePosted(r)
  BY <1>1 DEF MatchedArePosted
<1>3. /\ importing \in [Importers -> [file : Files \cup {"none"}, compared : Compared]]
      /\ UnderWay(i) /\ done \in Compared
  BY <1>1 DEF ImportInv
<1>4. Reason(p, Says[f][p]) \in Reasons /\ (Reason(p, Says[f][p]) = "matched" => p \in Committed)
  BY DEF Reason, Reasons, Status
<1>5. DOMAIN done \subseteq Postings /\ (\A q \in DOMAIN done : done[q] \in Reasons) /\ MatchedArePosted(done)
      /\ DOMAIN done \subseteq DOMAIN Says[f]
  BY <1>3, ComparedAre DEF UnderWay
<1>6. /\ more \in Compared /\ DOMAIN more = DOMAIN done \cup {p}
      /\ MatchedArePosted(more)
  <2>1. /\ more \in [DOMAIN done \cup {p} -> Reasons] /\ DOMAIN done \cup {p} \in SUBSET Postings
    BY <1>4, <1>5
  <2>2. \A q \in DOMAIN done \cup {p} : more[q] = "matched" => q \in Committed
    BY <1>4, <1>5 DEF MatchedArePosted
  <2> QED BY <2>1, <2>2 DEF Compared, MatchedArePosted
<1> HIDE DEF more
<1>7. /\ importing' \in [Importers -> [file : Files \cup {"none"}, compared : Compared]]
      /\ importing'[i].file = f /\ importing'[i].compared = more
      /\ \A j \in Importers \ {i} : importing'[j] = importing[j]
  BY <1>1, <1>3, <1>6
<1>8. ASSUME NEW j \in Importers, importing'[j].file \in Files PROVE UnderWay(j)'
  <2>1. CASE j = i
    <3>1. UnderWay(i) /\ imported[f] = NoResults /\ \A k \in Importers : importing[k].file = f => k = i
      BY <1>3 DEF UnderWay
    <3>2. \A k \in Importers : importing'[k].file = importing[k].file
      BY <1>7
    <3>3. DOMAIN more \subseteq DOMAIN Says[f] /\ DOMAIN more # {}
      BY <1>1, <1>5, <1>6
    <3> QED BY <1>1, <1>2, <1>6, <1>7, <2>1, <3>1, <3>2, <3>3 DEF UnderWay
  <2>2. CASE j # i
    <3>1. UnderWay(j) /\ importing'[j] = importing[j] /\ \A k \in Importers : importing'[k].file = importing[k].file
      BY <1>7, <1>8, <2>2 DEF ImportInv
    <3> QED BY <1>1, <1>2, <3>1 DEF UnderWay
  <2> QED BY <2>1, <2>2
<1> QED BY <1>1, <1>2, <1>7, <1>8 DEF ImportInv

LEMMA EndsImport ==
  ASSUME ImportInv, NEW i \in Importers, ImportCommits(i) \/ ImportFails(i)
  PROVE  ImportInv'
<1> DEFINE f == importing[i].file
           done == importing[i].compared
<1>1. /\ importing' = [importing EXCEPT ![i] = NoImport] /\ Committed' = Committed
      /\ \/ imported' = imported /\ told' = told
         \/ /\ f \in Files /\ DOMAIN done = DOMAIN Says[f]
            /\ imported' = [imported EXCEPT ![f] = done]
            /\ told' = told \cup {[file |-> f, results |-> done]}
  BY DEF ImportCommits, ImportFails, postingVars, Committed, In
<1>2. \A r : MatchedArePosted(r)' <=> MatchedArePosted(r)
  BY <1>1 DEF MatchedArePosted
<1>3. /\ importing' \in [Importers -> [file : Files \cup {"none"}, compared : Compared]]
      /\ importing'[i].file = "none" /\ "none" \notin Files
      /\ \A j \in Importers \ {i} : importing'[j] = importing[j]
  BY <1>1, NothingCompared, RecordsAssumption DEF ImportInv, NoImport
<1>4. \A j \in Importers : importing'[j].file \in Files => j # i /\ UnderWay(j)
  BY <1>3 DEF ImportInv
<1>5. ASSUME NEW j \in Importers, importing'[j].file \in Files, imported'[importing[j].file] = NoResults
      PROVE  UnderWay(j)'
  BY <1>2, <1>3, <1>4, <1>5 DEF UnderWay
<1>6. CASE imported' = imported /\ told' = told
  <2>1. \A j \in Importers : importing'[j].file \in Files => UnderWay(j)'
    <3>1. \A j \in Importers : importing'[j].file \in Files => imported'[importing[j].file] = NoResults
      BY <1>4, <1>6 DEF UnderWay
    <3> QED BY <1>5, <3>1
  <2> QED BY <1>2, <1>3, <1>6, <2>1 DEF ImportInv
<1>7. CASE /\ f \in Files /\ DOMAIN done = DOMAIN Says[f]
           /\ imported' = [imported EXCEPT ![f] = done]
           /\ told' = told \cup {[file |-> f, results |-> done]}
  <2>1. /\ UnderWay(i) /\ MatchedArePosted(done) /\ imported[f] = NoResults
        /\ DOMAIN imported = Files /\ imported = [g \in Files |-> imported[g]]
    BY <1>7 DEF ImportInv, UnderWay
  <2>2. /\ DOMAIN imported' = Files /\ imported' = [g \in Files |-> imported'[g]]
        /\ imported'[f] = done /\ \A g \in Files \ {f} : imported'[g] = imported[g]
    BY <1>7, <2>1
  <2>3. ASSUME NEW j \in Importers, importing'[j].file \in Files PROVE UnderWay(j)'
    <3>1. importing[j].file # f /\ importing'[j] = importing[j]
      BY <1>3, <1>4, <2>1, <2>3 DEF UnderWay
    <3>2. imported'[importing[j].file] = NoResults
      BY <1>4, <2>2, <2>3, <3>1 DEF UnderWay
    <3> QED BY <1>5, <2>3, <3>2
  <2>4. ASSUME NEW t \in told'
        PROVE  /\ t.file \in Files /\ t.results = imported'[t.file]
               /\ DOMAIN t.results = DOMAIN Says[t.file] /\ MatchedArePosted(t.results)
    <3>1. CASE t \in told
      <4>1. /\ t.file \in Files /\ t.results = imported[t.file]
            /\ DOMAIN t.results = DOMAIN Says[t.file] /\ MatchedArePosted(t.results)
        BY <3>1 DEF ImportInv
      <4>2. CASE t.file # f
        BY <2>2, <4>1, <4>2
      <4>3. CASE t.file = f
        <5>1. t.results = NoResults /\ DOMAIN done = {}
          BY <1>7, <2>1, <4>1, <4>3, NothingCompared
        <5>2. done = NoResults
          BY <2>1, <5>1 DEF UnderWay
        <5> QED BY <2>2, <4>1, <4>3, <5>1, <5>2
      <4> QED BY <4>2, <4>3
    <3>2. CASE t = [file |-> f, results |-> done]
      <4>1. t.file = f /\ t.results = done
        BY <3>2
      <4> QED BY <1>7, <2>1, <2>2, <4>1
    <3> QED BY <1>7, <3>1, <3>2
  <2>5. \A g \in Files : imported'[g] # NoResults =>
          DOMAIN imported'[g] = DOMAIN Says[g] /\ MatchedArePosted(imported'[g])
    BY <1>7, <2>1, <2>2 DEF ImportInv
  <2>6. \A r : MatchedArePosted(r) => MatchedArePosted(r)'
    BY <1>2
  <2> QED BY <1>3, <2>2, <2>3, <2>4, <2>5, <2>6 DEF ImportInv
<1> QED BY <1>1, <1>6, <1>7

LEMMA StepImport ==
  ASSUME ImportInv, [RecordNext]_recordVars, CommittedGrows
  PROVE  ImportInv'
BY KeepsImport, BeginsImport, ComparesImport, EndsImport
   DEF RecordNext, RecordMoves, ImportMoves, recordVars, MinutePasses, Accepts, Begins, Posts, Commits, RollsBack,
       StatementEnds, StatementOpens, FirstPage, NextPage

-----------------------------------------------------------------------------
RecordInv == PostingInv /\ StatementInv /\ WalkInv /\ ImportInv

LEMMA StepRecords == RecordInv /\ [Next]_vars => RecordInv'
BY RecordSteps, StepPosting, StepStatement, StepWalk, StepImport DEF RecordInv

(* Statements close at the balance of one moment and stay right once their *)
(* range is settled, pages show the entries of one moment, and an import   *)
(* is answered alike however often it is asked for: for any postings, page *)
(* sizes, files and importers.                                             *)
THEOREM RecordsAreOfOneMoment == Spec => []RecordsHold
<1>1. Init => RecordInv
  BY InitPosting, InitStatement, InitWalk, InitImport DEF RecordInv
<1>2. RecordInv => RecordsHold
  <2> SUFFICES ASSUME RecordInv PROVE RecordsHold
    OBVIOUS
  <2>1. StatementsHold
    BY IssuedStatements DEF RecordInv
  <2>2. PagesShowOneMoment
    BY DEF RecordInv, WalkInv, PagesShowOneMoment
  <2>3. ImportsAgree
    BY DEF RecordInv, ImportInv, MatchedArePosted, ImportsAgree
  <2> QED BY <2>1, <2>2, <2>3 DEF RecordsHold, RecordsAgree
<1> QED BY <1>1, <1>2, StepRecords, PTL DEF Spec, Safety

-----------------------------------------------------------------------------
(* Types.  The invariants above contain those of the variables they are    *)
(* about; these are the others.                                            *)
WalkType ==
  walk \in [stage : {"none", "paging", "done"}, before : 0..EntryIds,
            shown : SUBSET Postings, atFirst : SUBSET Postings]

ImportTypes ==
  /\ \A i \in Importers : importing[i] = NoImport \/ importing[i].file \in Files
  /\ \A f \in Files : imported[f] = NoResults \/ imported[f] \in Results(f)
  /\ \A t \in told : t.results \in Results(t.file)

FlagTypes ==
  /\ \A b \in {billSaved, leased, approved, wallet, incoming} : b \in BOOLEAN
  /\ object \subseteq Uploads /\ answerLost \subseteq Uploads
  /\ SupportTypeOK /\ agenda \in Agendas

LEMMA StepFlags == FlagTypes /\ [Next]_vars => FlagTypes'
<1> SUFFICES ASSUME FlagTypes, [Next]_vars PROVE FlagTypes'
  OBVIOUS
<1>1. billSaved' \in BOOLEAN /\ leased' \in BOOLEAN
  BY DEF FlagTypes, Next, vars, accountVars, reminderVars, fundingVars, ReminderStep, Remind, FundingStep, Provisions,
         CreditArrives, CreditFunding, WalletEmptied, DocumentStep, IdentityStep, Approves, SupportStep, PostingStep,
         ReadingStep, Imports, StandingChanges, CloseAccount, DeleteSavedBill, CreateReminder, ReminderState,
         TimePasses, WorkReminder, RequestFundingAccount, FundingLeaseLapses, FundingWorker, LeaseFunding,
         GatewayReceives, GatewayConfirms, RoundEnds, RecordReady
<1>2. approved' \in BOOLEAN /\ wallet' \in BOOLEAN /\ incoming' \in BOOLEAN /\ agenda' \in Agendas
  BY DEF FlagTypes, Next, vars, accountVars, ReminderStep, Remind, FundingStep, Provisions,
         CreditArrives, CreditFunding, WalletEmptied, DocumentStep, IdentityStep, Approves, SupportStep, PostingStep,
         ReadingStep, Imports, StandingChanges, CloseAccount
<1>3. object' \subseteq Uploads /\ answerLost' \subseteq Uploads
  <2>1. ASSUME NEW u \in Uploads, DocumentStep(u) PROVE object' \subseteq Uploads /\ answerLost' \subseteq Uploads
    BY <2>1 DEF FlagTypes, DocumentStep, CheckUpload, PutObject, PutFails, Publish, PublishFails, PublishAnswerLost,
                RemoveObject, UploadDies, DeleteUpload
  <2> QED
    BY <2>1 DEF FlagTypes, Next, vars, accountVars, documentVars, ReminderStep, Remind, FundingStep, Provisions,
                CreditArrives, CreditFunding, WalletEmptied, IdentityStep, Approves, SupportStep, PostingStep,
                ReadingStep, Imports, StandingChanges, CloseAccount
<1>4. SupportTypeOK'
  <2>1. ASSUME NEW c \in Cases, SupportStep(c) PROVE SupportTypeOK'
    BY <2>1 DEF FlagTypes, SupportTypeOK, SupportStep, CaseCreate, CaseReply, EscalateCase, SupportStatuses
  <2> QED
    BY <2>1 DEF FlagTypes, SupportTypeOK, Next, vars, accountVars, ReminderStep, Remind, FundingStep, Provisions,
                CreditArrives, CreditFunding, WalletEmptied, DocumentStep, IdentityStep, Approves, PostingStep,
                ReadingStep, Imports, StandingChanges, CloseAccount
<1> QED BY <1>1, <1>2, <1>3, <1>4 DEF FlagTypes

(* A page that was turned is one of entries that exist.                    *)
LEMMA TurnedType ==
  ASSUME PostingInv, NEW before \in 0..EntryIds, NEW shown \in SUBSET Postings, NEW whole \in SUBSET Postings,
         walk' = Turned(before, shown, whole)
  PROVE  WalkType'
<1> DEFINE page == Page(before)
           least == IF page = {} THEN before ELSE Min({posting[p].entry : p \in page})
<1>1. page \in SUBSET Committed /\ Committed \subseteq Postings
  BY PageIs DEF Committed, In
<1>2. least \in 0..EntryIds
  <2>1. CASE page = {}
    BY <2>1
  <2>2. CASE page # {}
    <3>1. PICK p \in page : Min({posting[q].entry : q \in page}) = posting[p].entry
      BY <1>1, <2>2, LeastEntry
    <3>2. posting[p].entry \in 0..EntryIds
      BY <1>1, <3>1 DEF PostingInv, PostingTypes
    <3> QED BY <2>2, <3>1, <3>2
  <2> QED BY <2>1, <2>2
<1>3. walk' = [stage |-> IF Cardinality(page) < PageSize THEN "done" ELSE "paging", before |-> least,
               shown |-> shown \cup page, atFirst |-> whole]
  BY DEF Turned
<1> HIDE DEF page, least
<1> QED BY <1>1, <1>2, <1>3 DEF WalkType

LEMMA StepWalkType == PostingInv /\ WalkType /\ [RecordNext]_recordVars => WalkType'
<1> SUFFICES ASSUME PostingInv, WalkType, [RecordNext]_recordVars PROVE WalkType'
  OBVIOUS
<1>1. CASE FirstPage
  <2>1. 0 \in 0..EntryIds /\ Committed \in SUBSET Postings
    BY Bounds DEF Committed, In
  <2> QED BY <1>1, <2>1, TurnedType DEF FirstPage
<1>2. CASE NextPage
  <2>1. walk.before \in 0..EntryIds /\ walk.shown \in SUBSET Postings /\ walk.atFirst \in SUBSET Postings
    BY DEF WalkType
  <2> QED BY <1>2, <2>1, TurnedType DEF NextPage
<1>3. CASE UNCHANGED walk
  BY <1>3 DEF WalkType
<1> QED
  BY <1>1, <1>2, <1>3
     DEF RecordNext, RecordMoves, ImportMoves, recordVars, MinutePasses, Accepts, Begins, Posts, Commits, RollsBack,
         StatementEnds, StatementOpens, ImportBegins, Compares, ImportCommits, ImportFails

LEMMA StepImportTypes == ImportInv /\ ImportTypes /\ [RecordNext]_recordVars => ImportTypes'
<1> SUFFICES ASSUME ImportInv, ImportTypes, [RecordNext]_recordVars PROVE ImportTypes'
  OBVIOUS
<1>1. CASE UNCHANGED importVars
  BY <1>1 DEF ImportTypes, importVars, Results
<1>2. ASSUME NEW i \in Importers, NEW f \in Files, ImportBegins(i, f) PROVE ImportTypes'
  <2>1. imported' = imported /\ importing' \in {importing, [importing EXCEPT ![i].file = f]}
        /\ told' \in {told, told \cup {[file |-> f, results |-> imported[f]]}}
        /\ (told' # told => imported[f] # NoResults)
    BY <1>2 DEF ImportBegins
  <2>2. \A j \in Importers : importing'[j] = NoImport \/ importing'[j].file \in Files
    BY <2>1 DEF ImportTypes, ImportInv
  <2>3. \A t \in told' : t.results \in Results(t.file)
    BY <2>1 DEF ImportTypes
  <2> QED BY <2>1, <2>2, <2>3 DEF ImportTypes, Results
<1>3. ASSUME NEW i \in Importers, NEW p \in Postings, Compares(i, p) PROVE ImportTypes'
  <2>1. UNCHANGED <<imported, told>> /\ importing[i].file \in Files
        /\ \E c : importing' = [importing EXCEPT ![i].compared = c]
    BY <1>3 DEF Compares
  <2>2. \A j \in Importers : importing'[j] = NoImport \/ importing'[j].file \in Files
    BY <2>1 DEF ImportTypes, ImportInv
  <2> QED BY <2>1, <2>2 DEF ImportTypes, Results
<1>4. ASSUME NEW i \in Importers, ImportCommits(i) \/ ImportFails(i) PROVE ImportTypes'
  <2>1. importing' = [importing EXCEPT ![i] = NoImport]
    BY <1>4 DEF ImportCommits, ImportFails
  <2>2. \A j \in Importers : importing'[j] = NoImport \/ importing'[j].file \in Files
    BY <2>1 DEF ImportTypes, ImportInv
  <2>3. CASE UNCHANGED <<imported, told>>
    BY <2>2, <2>3 DEF ImportTypes, Results
  <2>4. CASE ImportCommits(i)
    <3> DEFINE f == importing[i].file
               results == importing[i].compared
    <3>1. f \in Files /\ results \in Compared /\ DOMAIN results = DOMAIN Says[f]
          /\ imported' = [imported EXCEPT ![f] = results]
          /\ told' = told \cup {[file |-> f, results |-> results]}
      BY <2>4 DEF ImportCommits, ImportInv
    <3>2. results \in Results(f)
      BY <3>1, ComparedAre DEF Results
    <3>3. \A g \in Files : imported'[g] = NoResults \/ imported'[g] \in Results(g)
      BY <3>1, <3>2 DEF ImportTypes, ImportInv
    <3>4. \A t \in told' : t.results \in Results(t.file)
      BY <3>1, <3>2 DEF ImportTypes
    <3> QED BY <2>2, <3>3, <3>4 DEF ImportTypes, Results
  <2> QED BY <1>4, <2>3, <2>4 DEF ImportFails
<1> QED
  BY <1>1, <1>2, <1>3, <1>4
     DEF RecordNext, RecordMoves, ImportMoves, recordVars, importVars, MinutePasses, Accepts, Begins, Posts, Commits,
         RollsBack, StatementEnds, StatementOpens, FirstPage, NextPage

OtherTypes == FlagTypes /\ WalkType /\ ImportTypes

LEMMA InitTypes == Init => OtherTypes
<1> SUFFICES ASSUME Init PROVE OtherTypes
  OBVIOUS
<1>1. FlagTypes
  BY DEF Init, ReminderInit, FundingInit, DocumentInit, SupportInit, FlagTypes, SupportTypeOK
<1>2. WalkType
  BY Bounds DEF Init, RecordInit, NoWalk, WalkType
<1>3. ImportTypes
  BY DEF Init, RecordInit, ImportTypes
<1> QED BY <1>1, <1>2, <1>3 DEF OtherTypes

(* Every variable keeps its type, whatever goes on.                        *)
THEOREM TypeCorrect == Spec => []TypeOK
<1> DEFINE All == FundingInv /\ IdentityInv /\ FileInv /\ ScheduleInv /\ RecordInv /\ OtherTypes
<1>1. Init => All
  BY InitFunding, InitIdentity, InitFiles, InitSchedule, InitPosting, InitStatement, InitWalk, InitImport, InitTypes
     DEF RecordInv
<1>2. All /\ [Next]_vars => All'
  <2>1. RecordInv /\ OtherTypes /\ [Next]_vars => OtherTypes'
    BY RecordSteps, StepFlags, StepWalkType, StepImportTypes DEF OtherTypes, RecordInv
  <2> QED BY <2>1, StepFunding, StepIdentity, StepFiles, StepSchedule, StepRecords
<1>3. All => TypeOK
  <2> SUFFICES ASSUME All PROVE TypeOK
    OBVIOUS
  <2>1. ReminderTypeOK
    <3>1. now \in Nat
      BY ReminderAssumption DEF ScheduleInv
    <3>2. reminder \in [Reminders -> {NoReminder} \cup Row]
      BY DEF ScheduleInv, ScheduledRow
    <3> QED BY <3>1, <3>2 DEF ReminderTypeOK, ScheduleInv, OtherTypes, FlagTypes
  <2>2. FundingTypeOK /\ standing \in {"active", "restricted", "closed"}
    BY DEF FundingInv, FundingTypes, FundingTypeOK, OtherTypes, FlagTypes
  <2>3. DocumentTypeOK
    BY DEF FileInv, FileTypes, DocumentTypeOK, OtherTypes, FlagTypes
  <2>4. IdentityTypeOK /\ SupportTypeOK
    BY DEF IdentityInv, OtherTypes, FlagTypes
  <2>5. RecordTypeOK
    BY DEF RecordInv, PostingInv, PostingTypes, StatementInv, StatementTypes, OtherTypes, WalkType, ImportTypes,
           RecordTypeOK
  <2> QED BY <2>1, <2>2, <2>3, <2>4, <2>5 DEF TypeOK, OtherTypes, FlagTypes
<1> HIDE DEF All
<1> QED BY <1>1, <1>2, <1>3, PTL DEF Spec, Safety
=============================================================================
