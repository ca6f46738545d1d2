----------------------------- MODULE AccountLife ----------------------------
(***************************************************************************)
(* The life of one customer's account beside its payments: his reminders,  *)
(* funding account, identity and files, and support cases, and the closure *)
(* (service/identity_privacy.go 369-429) that must not overlook any of     *)
(* them.  Every transaction of the customer locks his users row and        *)
(* refuses a closed account (activePrincipal); those of workers, schedulers *)
(* and staff do not all look at it.                                        *)
(*                                                                         *)
(* The wallet is what funding brings and payments take away; payments and  *)
(* holds that block a closure are in module Mandates and PaymentWorker,    *)
(* the sessions it ends in module Sessions.                                *)
(***************************************************************************)
EXTENDS Reminders, FundingAccounts, Identity, Support, Records

CONSTANTS Agendas   \* bound: sets of the concerns below that go on together

Recording == {"statements", "pages", "imports"}
Concerns  == {"reminders", "funding", "identity", "files", "support", "standing"} \cup Recording

ASSUME AgendaAssumption == Agendas \subseteq SUBSET Concerns

VARIABLES
  standing,   \* users.status
  approved,   \* users.tier is at least 1
  wallet,     \* the balance is not zero
  incoming,   \* a credit was confirmed and its owner looked up
  agenda      \* what goes on in this behaviour

accountVars == <<standing, approved, wallet, incoming, agenda>>
vars == <<reminderVars, fundingVars, documentVars, identityVars, supportCase, recordVars,
          accountVars>>

InForce  == standing # "closed"                    \* activePrincipal
Active   == standing = "active"
Eligible == Active /\ approved

-----------------------------------------------------------------------------
ReminderStep ==
  /\ "reminders" \in agenda
  /\ \/ /\ InForce
        /\ \/ DeleteSavedBill
           \/ \E r \in Reminders, o \in Offered, ofBill \in BOOLEAN :
                Active /\ CreateReminder(r, o, ofBill)
           \/ \E r \in Reminders, status \in {"active", "paused", "cancelled"} : ReminderState(r, status)
     \/ TimePasses
  /\ UNCHANGED <<recordVars, fundingVars, documentVars, identityVars, supportCase, accountVars>>

(* The scheduler joins the owner's row without locking it.                 *)
Remind(r) ==
  /\ InForce /\ WorkReminder(r)
  /\ UNCHANGED <<recordVars, fundingVars, documentVars, identityVars, supportCase, accountVars>>

FundingStep ==
  /\ "funding" \in agenda
  /\ \/ Eligible /\ RequestFundingAccount
     \/ FundingLeaseLapses
  /\ UNCHANGED <<recordVars, reminderVars, documentVars, identityVars, supportCase, accountVars>>

(* A worker looks neither at the owner's standing nor locks his row.       *)
Provisions(w) ==
  /\ FundingWorker(w)
  /\ UNCHANGED <<recordVars, reminderVars, documentVars, identityVars, supportCase, accountVars>>

(* VerifyIncomingFunding finds the owner of an active funding account      *)
(* outside any transaction; CreditFunding credits him later.               *)
CreditArrives ==
  /\ "funding" \in agenda
  /\ funding = "active" /\ ~incoming
  /\ incoming' = TRUE
  /\ UNCHANGED <<recordVars, reminderVars, fundingVars, documentVars, identityVars, supportCase,
                 standing, approved, wallet, agenda>>

(* Looks at the owner again, under his lock.                               *)
CreditFunding ==
  /\ incoming /\ InForce
  /\ wallet' = TRUE
  /\ incoming' = FALSE
  /\ UNCHANGED <<recordVars, reminderVars, fundingVars, documentVars, identityVars, supportCase,
                 standing, approved, agenda>>

(* Payments empty the wallet.                                              *)
WalletEmptied ==
  /\ wallet /\ Eligible
  /\ wallet' = FALSE
  /\ UNCHANGED <<recordVars, reminderVars, fundingVars, documentVars, identityVars, supportCase,
                 standing, approved, incoming, agenda>>

DocumentStep(u) ==
  /\ "files" \in agenda
  /\ \/ /\ InForce
        /\ \/ /\ u \in SupportUploads => \E c \in Cases : supportCase[c] # "none"
              /\ CheckUpload(u)
           \/ Publish(u) \/ PublishAnswerLost(u)
           \/ DeleteUpload(u, Connected(u))
     \/ PutObject(u) \/ PutFails(u) \/ PublishFails(u) \/ RemoveObject(u) \/ UploadDies(u)
  /\ UNCHANGED <<recordVars, reminderVars, fundingVars, identityVars, supportCase, accountVars>>

IdentityStep ==
  /\ "identity" \in agenda
  /\ \/ \E t \in Tabs : InForce /\ LoadDraft(t)
     \/ /\ Active
        /\ \/ \E t \in Tabs, content \in Drafts : SaveIdentityDraft(t, content)
           \/ \E t \in Tabs, c \in KYCCases : SubmitIdentity(t, c)
           \/ \E c \in KYCCases : KYCSubmit(c)
     \/ \E c \in KYCCases, status \in {"information_required", "declined"} : ReturnCase(c, status)
  /\ UNCHANGED <<recordVars, reminderVars, fundingVars, documentVars, supportCase, accountVars>>

(* kyc_approve also raises the tier.                                       *)
Approves(c) ==
  /\ Active /\ ApproveCase(c)
  /\ approved' = TRUE
  /\ UNCHANGED <<recordVars, reminderVars, fundingVars, documentVars, supportCase, standing, wallet, incoming, agenda>>

(* A reply of staff locks the customer's row too.                          *)
SupportStep(c) ==
  /\ "support" \in agenda
  /\ InForce
  /\ \/ CaseCreate(c) \/ EscalateCase(c)
     \/ \E status \in SupportStatuses : CaseReply(c, status)
  /\ UNCHANGED <<recordVars, reminderVars, fundingVars, documentVars, identityVars, accountVars>>

(* What is posted to the wallet, and what is read of it; a payment is      *)
(* settled by a worker whatever its owner's standing.                      *)
PostingStep ==
  /\ agenda \cap Recording # {}
  /\ \/ "statements" \in agenda /\ MinutePasses
     \/ \E p \in Postings :
          \/ Eligible /\ Accepts(p)
          \/ Begins(p) \/ Commits(p) \/ RollsBack(p)
          \/ (p \in Deferred \/ InForce) /\ Posts(p)
  /\ UNCHANGED <<reminderVars, fundingVars, documentVars, identityVars, supportCase, accountVars>>

ReadingStep ==
  /\ InForce
  /\ \/ /\ "statements" \in agenda
        /\ StatementEnds \/ \E from, to \in 0..Minutes + 1 : StatementOpens(from, to)
     \/ "pages" \in agenda /\ (FirstPage \/ NextPage)
  /\ UNCHANGED <<reminderVars, fundingVars, documentVars, identityVars, supportCase, accountVars>>

Imports(i) ==
  /\ "imports" \in agenda
  /\ \/ \E f \in Files : ImportBegins(i, f)
     \/ \E p \in Postings : Compares(i, p)
     \/ ImportCommits(i) \/ ImportFails(i)
  /\ UNCHANGED <<reminderVars, fundingVars, documentVars, identityVars, supportCase, accountVars>>

(* restrict and restore, decided by staff.                                 *)
StandingChanges ==
  /\ "standing" \in agenda
  /\ InForce
  /\ standing' = IF Active THEN "restricted" ELSE "active"
  /\ UNCHANGED <<recordVars, reminderVars, fundingVars, documentVars, identityVars, supportCase,
                 approved, wallet, incoming, agenda>>

(* The concern "standing" (bound) covers restrictions and the closure.     *)
CloseAccount ==
  /\ "standing" \in agenda
  /\ Active
  /\ ~wallet /\ \A c \in Cases : ~Unresolved(c)
  /\ WalletFree /\ Unsettled = {} /\ Sum(Committed) = 0
  /\ standing' = "closed"
  /\ reminder' = AllCancelled
  /\ funding' = IF funding = "none" THEN "none" ELSE "disabled"
  /\ UNCHANGED <<recordVars, now, billSaved, occurrence, leased, round, opened, provisions, readyNotice,
                 documentVars, identityVars, supportCase, approved, wallet, incoming, agenda>>

-----------------------------------------------------------------------------
Init ==
  /\ ReminderInit /\ FundingInit /\ DocumentInit /\ IdentityInit /\ SupportInit /\ RecordInit
  /\ agenda \in Agendas
  /\ standing = "active" /\ approved = (agenda \cap ({"funding"} \cup Recording) # {})
  /\ wallet = FALSE /\ incoming = FALSE

Next ==
  \/ ReminderStep \/ \E r \in Reminders : Remind(r)
  \/ FundingStep \/ \E w \in Workers : Provisions(w)
  \/ CreditArrives \/ CreditFunding \/ WalletEmptied
  \/ \E u \in Uploads : DocumentStep(u)
  \/ IdentityStep \/ \E c \in KYCCases : Approves(c)
  \/ \E c \in Cases : SupportStep(c)
  \/ PostingStep \/ ReadingStep \/ \E i \in Importers : Imports(i)
  \/ StandingChanges \/ CloseAccount

(* The scheduler looks for due reminders every minute.  Workers look for   *)
(* funding accounts every second, a lease is a minute, a call is bounded;  *)
(* the gateway, asked again and again about an account it has opened,      *)
(* answers in the end, and not every answer is lost with the process.      *)
Fairness ==
  /\ \A r \in Reminders : WF_vars(Remind(r))
  /\ WF_vars(leased /\ FundingStep)
  /\ \A w \in Workers :
       /\ WF_vars(round[w] = "provision" /\ Provisions(w))
       /\ SF_vars(round[w] = NoRound /\ Provisions(w))
       /\ SF_vars(round[w] = "query" /\ Provisions(w) /\ round'[w] = "ready")
       /\ SF_vars(round[w] = "ready" /\ Provisions(w) /\ readyNotice')

Safety == Init /\ [][Next]_vars
Spec   == Safety /\ Fairness

-----------------------------------------------------------------------------
(* Properties                                                              *)

(* The variables hold values of their types.                               *)
TypeOK ==
  /\ ReminderTypeOK /\ FundingTypeOK /\ DocumentTypeOK /\ IdentityTypeOK /\ SupportTypeOK /\ RecordTypeOK
  /\ standing \in {"active", "restricted", "closed"}
  /\ approved \in BOOLEAN /\ wallet \in BOOLEAN /\ incoming \in BOOLEAN
  /\ agenda \in Agendas

(* A closed account leaves nothing behind that acts, waits or holds money: *)
(* no wallet balance, live reminder, open support case or funding account, *)
(* although credits, workers, staff and the scheduler go on (CloseAccount  *)
(* against funding_accounts.go, payments.go 628, support.go 155).          *)
ClosedLeavesNothing ==
  standing = "closed" =>
    /\ ~wallet
    /\ \A r \in Reminders : reminder[r].status \notin Live
    /\ \A c \in Cases : ~Unresolved(c)
    /\ funding \in {"none", "disabled"}

(* Files that support a case of either kind stay, row and object, whoever  *)
(* deletes, re-drafts, decides or crashes (private_uploads.go 264:         *)
(* "submitted evidence is retained with its case").  Excepted is the       *)
(* upload whose commit took effect without an answer: its object is        *)
(* removed, its row stays and can be submitted.                            *)
EvidenceKept ==
  \A u \in Uploads \ answerLost :
    \/ u \in SupportUploads /\ document[u] # "none"
    \/ \E c \in KYCCases : u \in evidence[c]
    => document[u] = "clean" /\ u \in object

(* What staff review is what the customer's tab showed when he submitted   *)
(* it, in whatever order other tabs saved; one case is open at a time; the *)
(* recorded identity is that of an approved case, whatever the draft has   *)
(* become since.                                                           *)
ReviewedAsSubmitted ==
  /\ \A c \in KYCCases : snapshot[c] # NoContent =>
       snapshot[c] = meant[c] /\ evidence[c] = meant[c].uploads
  /\ \A c, d \in KYCCases : kyc[c] \in Open /\ kyc[d] \in Open => c = d
  /\ verified # NoIdentity =>
       kyc[verified.ofCase] = "approved" /\ verified.name = meant[verified.ofCase].name

(* The gateway is asked once to open the account, whatever lapses or dies; *)
(* an active row has an account behind it; and a customer in force who is  *)
(* told that his account is ready has it, although the notice is queued    *)
(* without looking whether a row was updated (funding_accounts.go 118-124). *)
OneFundingAccount ==
  /\ provisions <= 1
  /\ funding = "active" => opened
  /\ readyNotice /\ InForce => funding = "active"

(* What is shown of the ledger is one moment of it, although journals bear *)
(* the time their transaction began and are seen when it ends: a statement *)
(* up to the present closes at the balance (reports.go 47: "uses a         *)
(* repeatable-read snapshot"), one whose range is settled stays right for  *)
(* ever, the pages of a walk join without gaps, and a file imported again  *)
(* is answered as before.                                                  *)
RecordsHold == RecordsAgree

(* A reminder that is due goes off, unless it is paused, cancelled or the  *)
(* account closed first; a funding account the gateway has opened becomes  *)
(* active or, by closure, disabled.                                        *)
DueWorkIsDone ==
  /\ \A r \in Reminders :
       (reminder[r].status = "active" /\ reminder[r].due <= now)
         ~> ~(reminder[r].status = "active" /\ reminder[r].due <= now)
  /\ (funding = "pending" /\ opened) ~> (funding \in {"active", "disabled"})
=============================================================================
