------------------------------- MODULE Identity -----------------------------
(***************************************************************************)
(* The identity of one customer (service/identity_privacy.go 64-245,       *)
(* operations.go 106-135 and 287-351): a draft edited in several tabs,     *)
(* submitted as a case with its documents, reviewed by staff, recorded.    *)
(* The draft is guarded by its version: a tab acts on what it has loaded.  *)
(* Who proposes and who approves a decision is in module Approvals.        *)
(***************************************************************************)
EXTENDS Documents, Integers

CONSTANTS Tabs, KYCCases,
          Names,       \* what a draft says beside its documents
          Drafts,      \* bound: what the customer may put in a draft
          MaxVersion   \* bound on the version of the draft

Content == [name : Names, uploads : SUBSET Uploads]

ASSUME IdentityAssumption == Drafts \subseteq Content /\ MaxVersion \in Nat

VARIABLES
  draft,       \* the identity_drafts row; version 0 before it exists
  seen,        \* what each tab has loaded
  kyc,         \* kyc_cases.status, "none" before the row exists
  snapshot,    \* identity_case_snapshots, NoContent for a case without one
  evidence,    \* kyc_documents: the uploads of each case
  verified,    \* the verified_identities row
  meant        \* history: what the tab showed that submitted the case

identityVars == <<draft, seen, kyc, snapshot, evidence, verified, meant>>

NoContent  == [name |-> "none"]
NoDraft    == [version |-> 0, content |-> NoContent, submitted |-> FALSE, ofCase |-> "none"]
NoIdentity == [ofCase |-> "none"]
Open       == {"submitted", "information_required"}

IdentityTypeOK ==
  LET Draft == [version : Nat, content : Content \cup {NoContent}, submitted : BOOLEAN,
                ofCase : KYCCases \cup {"none"}]
  IN /\ draft \in Draft
     /\ seen \in [Tabs -> Draft]
     /\ kyc \in [KYCCases -> {"none", "approved", "declined"} \cup Open]
     /\ snapshot \in [KYCCases -> Content \cup {NoContent}]
     /\ evidence \in [KYCCases -> SUBSET Uploads]
     /\ verified \in {NoIdentity} \cup [ofCase : KYCCases, name : Names]
     /\ meant \in [KYCCases -> Content \cup {NoContent}]

IdentityInit ==
  /\ draft = NoDraft
  /\ seen = [t \in Tabs |-> NoDraft]
  /\ kyc = [c \in KYCCases |-> "none"]
  /\ snapshot = [c \in KYCCases |-> NoContent]
  /\ evidence = [c \in KYCCases |-> {}]
  /\ verified = NoIdentity
  /\ meant = [c \in KYCCases |-> NoContent]

UnderReview == \E c \in KYCCases : kyc[c] \in Open

(* Mutant: a file is retained only while its case is under review.         *)
Connected_OpenCase(u) == u \in SupportUploads \/ \E c \in KYCCases : u \in evidence[c] /\ kyc[c] \in Open

(* What DeleteUpload asks: a support file, or one that a case refers to.   *)
Connected(u) == u \in SupportUploads \/ \E c \in KYCCases : u \in evidence[c]

(* A tab loads the draft; so does the answer to saving it.                 *)
LoadDraft(t) ==
  /\ seen' = [seen EXCEPT ![t] = draft]
  /\ UNCHANGED <<draft, kyc, snapshot, evidence, verified, meant>>

(* The draft of a case that is submitted or approved is not overwritten;   *)
(* that of one which was declined, or needs more information, is.          *)
SaveIdentityDraft(t, content) ==
  /\ seen[t].version = draft.version
  /\ draft.submitted => kyc[draft.ofCase] \notin {"submitted", "approved"}
  /\ draft.version < MaxVersion
  /\ draft' = [version |-> draft.version + 1, content |-> content, submitted |-> FALSE, ofCase |-> "none"]
  /\ UNCHANGED <<seen, kyc, snapshot, evidence, verified, meant>>

(* Mutant: the version the tab has loaded is not compared.                 *)
LooksAtDraft_Any(t) == TRUE

LooksAtDraft(t) == seen[t].version = draft.version

(* One transaction: case, documents, snapshot and draft together.          *)
SubmitIdentity(t, c) ==
  /\ draft.version > 0 /\ ~draft.submitted
  /\ LooksAtDraft(t)
  /\ draft.content.uploads # {}
  /\ ~UnderReview
  /\ \A u \in draft.content.uploads : u \notin SupportUploads /\ document[u] = "clean"
  /\ kyc[c] = "none"
  /\ kyc' = [kyc EXCEPT ![c] = "submitted"]
  /\ evidence' = [evidence EXCEPT ![c] = draft.content.uploads]
  /\ snapshot' = [snapshot EXCEPT ![c] = draft.content]
  /\ draft' = [draft EXCEPT !.submitted = TRUE, !.ofCase = c, !.version = @ + 1]
  /\ meant' = [meant EXCEPT ![c] = seen[t].content]
  /\ UNCHANGED <<seen, verified>>

(* The older route: a reference to evidence given elsewhere.               *)
KYCSubmit(c) ==
  /\ kyc[c] = "none" /\ ~UnderReview
  /\ kyc' = [kyc EXCEPT ![c] = "submitted"]
  /\ UNCHANGED <<draft, seen, snapshot, evidence, verified, meant>>

(* recordVerifiedIdentity: a case without a snapshot records nothing.      *)
VerifiedBy(c) == IF snapshot[c] = NoContent THEN verified
                 ELSE [ofCase |-> c, name |-> snapshot[c].name]

ApproveCase(c) ==
  /\ kyc[c] \in Open
  /\ kyc' = [kyc EXCEPT ![c] = "approved"]
  /\ verified' = VerifiedBy(c)
  /\ UNCHANGED <<draft, seen, snapshot, evidence, meant>>

(* kyc_request_info and kyc_decline.                                       *)
ReturnCase(c, status) ==
  /\ kyc[c] \in Open
  /\ status \in {"information_required", "declined"}
  /\ kyc' = [kyc EXCEPT ![c] = status]
  /\ UNCHANGED <<draft, seen, snapshot, evidence, verified, meant>>
=============================================================================
