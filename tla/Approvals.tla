------------------------------ MODULE Approvals ------------------------------
(***************************************************************************)
(* Decisions by two members of staff: proposals about customers and the    *)
(* payment policy (operations.go), controls over staff, products and the   *)
(* resumption of payments (admin_commands.go), the recovery of a colleague *)
(* (admin_recovery.go) and invitations.                                    *)
(*                                                                         *)
(* A request is filed with the version of its target and takes effect only *)
(* at that version.  Controls and recoveries run under one advisory lock,  *)
(* so each is one action; proposals do not, and are two: what is read, and *)
(* what is written.  In between the actor's own row stays locked.          *)
(***************************************************************************)
EXTENDS Naturals

CONSTANTS
  Staff, Customers,    \* accounts; those of staff may be yet to be created
  Items,               \* rows of proposals and admin_controls
  Invitations,         \* rows of staff_invitations
  Opening,             \* the role of each staff account at first, or "absent"
  Roles,               \* the roles that are given
  Agendas,             \* what may come up together, see Agenda
  MaxVersion, MaxStops,   \* bound what owners change and how often payments stop
  None

ProposalKinds == {"policy", "restrict", "restore", "kyc_approve", "kyc_decline", "kyc_request_info"}
KycKinds      == {"kyc_approve", "kyc_decline", "kyc_request_info"}
StaffKinds    == {"staff_status", "staff_role", "staff_recovery"}
ControlKinds  == StaffKinds \cup {"product", "resume"}
Kinds         == ProposalKinds \cup ControlKinds
StaffRoles    == {"admin", "finance", "compliance", "support", "platform", "auditor"}
Accounts      == Staff \cup Customers
Switches      == {"policy", "product"}      \* rows of policies and product_controls
Targets       == Accounts \cup Switches

(* A bound: which requests are made, who makes or decides them, and which  *)
(* owners change their own accounts meanwhile.                             *)
Agenda == [asks : SUBSET (Kinds \cup {"stop", "invite"}), staff : SUBSET Staff, owners : SUBSET Accounts]

ASSUME ApprovalsAssumption ==
  /\ Staff \cap Customers = {} /\ Accounts \cap Switches = {}
  /\ None \notin Staff \cup Items
  /\ Roles \subseteq StaffRoles
  /\ Agendas \subseteq Agenda
  /\ Opening \in [Staff -> Roles \cup {"absent"}]
  /\ \E a, b \in Staff : a # b /\ Opening[a] = "admin" /\ Opening[b] = "admin"
  /\ MaxVersion \in Nat /\ MaxStops \in Nat

TargetsOf(kind) ==
  CASE kind \in {"policy", "resume"} -> {"policy"}
    [] kind = "product"              -> {"product"}
    [] kind \in StaffKinds           -> Staff
    [] OTHER                         -> Customers

ValuesOf(kind) ==
  CASE kind \in {"policy", "product"} -> {"on", "off"}
    [] kind = "resume"                -> {"on"}
    [] kind = "staff_status"          -> {"active", "restricted"}
    [] kind = "staff_role"            -> Roles
    [] OTHER                          -> {"none"}

Values == {"on", "off", "active", "restricted", "none"} \cup Roles

(* The row of a request; "seen" counts the changes of its target and       *)
(* "stops" the emergency stops its maker had before him (both kept for the *)
(* properties).                                                            *)
Request == [kind : Kinds, target : Targets, value : Values, version : Nat,
            maker : Staff, seen : Nat, stops : Nat]

VARIABLES
  agenda,                \* constant: what comes up in this behaviour
  role, status, mfa,     \* users
  version,               \* of every target
  on,                    \* payments_enabled, product_controls.enabled
  case,                  \* the identity case of a customer
  request, state, checker, grant,   \* items, their status, checker and recovery grant
  invitation,
  draft, deciding,       \* proposals being filed or decided: read, not yet written
  changes, stops         \* history: how often a target changed, payments were stopped

people   == <<role, status, mfa>>
settings == <<on, case>>
rows     == <<request, state, checker, grant>>
desk     == <<draft, deciding>>
vars == <<agenda, people, version, settings, rows, invitation, desk, changes, stops>>

NoInvitation == [state |-> "none", who |-> None, role |-> "none", maker |-> None,
                 checker |-> None, late |-> FALSE]

Init ==
  /\ agenda \in Agendas
  /\ role = [a \in Accounts |-> IF a \in Staff THEN Opening[a] ELSE "customer"]
  /\ status = [a \in Accounts |-> "active"]
  /\ mfa = [a \in Accounts |-> a \in Staff /\ Opening[a] # "absent"]
  /\ version = [t \in Targets |-> 1]
  /\ on = [s \in Switches |-> TRUE]
  /\ case = [c \in Customers |-> "submitted"]
  /\ request = [i \in Items |-> None]
  /\ state = [i \in Items |-> "free"]
  /\ checker = [i \in Items |-> None]
  /\ grant = [i \in Items |-> "none"]
  /\ invitation = [v \in Invitations |-> NoInvitation]
  /\ draft = [s \in Staff |-> None]
  /\ deciding = [s \in Staff |-> None]
  /\ changes = [t \in Targets |-> 0]
  /\ stops = 0

----------------------------------------------------------------------------
(* Who may act.  requireRole on a fresh row; consolePrincipal also holds   *)
(* the row of the actor, as activePrincipal does, so it waits while a      *)
(* proposal of his is under way.                                           *)
Stands(a, roles) == role[a] \in roles /\ status[a] = "active" /\ mfa[a]
Unlocked(a)      == a \in Staff => draft[a] = None /\ deciding[a] = None
May(s, roles)    == s \in agenda.staff /\ Stands(s, roles) /\ Unlocked(s)

ProposalRoles(kind) == IF kind = "policy" THEN {"admin", "finance"} ELSE {"admin", "compliance"}
ControlRoles(kind)  == IF kind \in {"product", "resume"} THEN {"admin", "platform"} ELSE {"admin"}

RequestOf(s, kind, t, value) ==
  [kind |-> kind, target |-> t, value |-> value, version |-> version[t],
   maker |-> s, seen |-> changes[t], stops |-> stops]

(* Every update of a target counts its version up.                         *)
Bump(t) == /\ version' = [version EXCEPT ![t] = @ + 1]
           /\ changes' = [changes EXCEPT ![t] = @ + 1]

(* Mutant: the version at filing is not compared with the current one.     *)
Unchanged_Any(r) == r.target \in Targets
Unchanged(r) == version[r.target] = r.version

(* Mutant: the maker's standing is not looked at again.                    *)
MakerStands_Any(r, roles) == r.maker \in Staff /\ roles # {}
MakerStands(r, roles) == Stands(r.maker, roles)

Close(i, s, verdict) == /\ state' = [state EXCEPT ![i] = verdict]
                        /\ checker' = [checker EXCEPT ![i] = s]

File(i, r) == /\ state[i] = "free"
              /\ state' = [state EXCEPT ![i] = "pending"]
              /\ request' = [request EXCEPT ![i] = r]

----------------------------------------------------------------------------
(* Proposals.                                                              *)

OpenCase(c) == case[c] \in {"submitted", "information_required"}

ProposeReads(s, kind, t, value) ==
  /\ kind \in ProposalKinds \cap agenda.asks
  /\ May(s, ProposalRoles(kind))
  /\ kind \in KycKinds => OpenCase(t)
  /\ draft' = [draft EXCEPT ![s] = RequestOf(s, kind, t, value)]
  /\ UNCHANGED <<agenda, people, version, settings, rows, invitation, deciding, changes, stops>>

ProposeStores(s, i) ==
  /\ draft[s] # None
  /\ File(i, draft[s])
  /\ draft' = [draft EXCEPT ![s] = None]
  /\ UNCHANGED <<agenda, people, version, settings, checker, grant, invitation, deciding, changes, stops>>

(* decide up to the decision: the checker, the locked row, its maker.      *)
DecideReads(s, i) ==
  /\ state[i] = "pending" /\ \A x \in Staff : deciding[x] # i
  /\ request[i].kind \in ProposalKinds
  /\ May(s, ProposalRoles(request[i].kind))
  /\ request[i].maker # s
  /\ MakerStands(request[i], ProposalRoles(request[i].kind))
  /\ deciding' = [deciding EXCEPT ![s] = i]
  /\ UNCHANGED <<agenda, people, version, settings, rows, invitation, draft, changes, stops>>

SetPolicy(r) == /\ r.kind = "policy"
                /\ on' = [on EXCEPT !["policy"] = (r.value = "on")]
                /\ UNCHANGED <<status, case>>

Restrict(r) == /\ r.kind = "restrict" /\ status[r.target] # "closed"
               /\ status' = [status EXCEPT ![r.target] = "restricted"]
               /\ UNCHANGED settings

Restore(r) == /\ r.kind = "restore" /\ status[r.target] = "restricted"
              /\ status' = [status EXCEPT ![r.target] = "active"]
              /\ UNCHANGED settings

SettleCase(r) ==
  /\ r.kind \in KycKinds /\ OpenCase(r.target)
  /\ r.kind = "kyc_approve" => status[r.target] = "active"
  /\ case' = [case EXCEPT ![r.target] =
                CASE r.kind = "kyc_approve" -> "approved"
                  [] r.kind = "kyc_decline" -> "declined"
                  [] OTHER                  -> "information_required"]
  /\ UNCHANGED <<status, on>>

Approve(r) == /\ Unchanged(r)
              /\ SetPolicy(r) \/ Restrict(r) \/ Restore(r) \/ SettleCase(r)
              /\ Bump(r.target)

(* ... and from it: an approval whose target has changed aborts (GiveUp).  *)
DecideStores(s) ==
  /\ deciding[s] # None
  /\ \/ Approve(request[deciding[s]]) /\ Close(deciding[s], s, "approved")
     \/ /\ Close(deciding[s], s, "rejected")
        /\ UNCHANGED <<status, settings, version, changes>>
  /\ deciding' = [deciding EXCEPT ![s] = None]
  /\ UNCHANGED <<agenda, role, mfa, request, grant, invitation, draft, stops>>

(* A refusal, or the death of the process: the transaction is undone.      *)
GiveUp(s) ==
  /\ ~Unlocked(s)
  /\ draft' = [draft EXCEPT ![s] = None]
  /\ deciding' = [deciding EXCEPT ![s] = None]
  /\ UNCHANGED <<agenda, people, version, settings, rows, invitation, changes, stops>>

----------------------------------------------------------------------------
(* Controls.  The client names the version it looks at, which must be the  *)
(* current one: a call that does not is refused.                           *)

Proposable(s, kind, t) ==
  /\ kind \in StaffKinds => t # s /\ role[t] # "absent"
  /\ kind = "resume" => ~on["policy"]

ControlProposes(s, i, kind, t, value) ==
  /\ kind \in ControlKinds \cap agenda.asks
  /\ May(s, {"admin", "platform"} \cap ControlRoles(kind))
  /\ Proposable(s, kind, t)
  /\ File(i, RequestOf(s, kind, t, value))
  /\ UNCHANGED <<agenda, people, version, settings, checker, grant, invitation, desk, changes, stops>>

(* Mutant: the stop leaves the version of the policy as it is.             *)
AfterStop_Same == [version EXCEPT !["policy"] = @]
AfterStop == [version EXCEPT !["policy"] = @ + 1]

EmergencyStop(s) ==
  /\ "stop" \in agenda.asks /\ stops < MaxStops
  /\ May(s, {"admin", "platform"})
  /\ on' = [on EXCEPT !["policy"] = FALSE]
  /\ version' = AfterStop
  /\ changes' = [changes EXCEPT !["policy"] = @ + 1]
  /\ stops' = stops + 1
  /\ UNCHANGED <<agenda, people, case, rows, invitation, desk>>

(* The guard against the removal of the last administrator.                *)
Removes(r) == /\ role[r.target] = "admin"
              /\ r.value = "restricted" \/ (r.kind = "staff_role" /\ r.value # "admin")
OthersRemain(r) == Removes(r) => \E a \in Staff \ {r.target} : Stands(a, {"admin"})

(* A second recovery approved for the same colleague ends the first.       *)
Granted(i, t) ==
  [j \in Items |-> IF j = i THEN "open"
                   ELSE IF grant[j] = "open" /\ request[j].target = t THEN "consumed" ELSE grant[j]]

ApproveStaff(i, r) ==
  /\ r.kind \in StaffKinds
  /\ Unlocked(r.target) /\ Unchanged(r) /\ OthersRemain(r)
  /\ \/ /\ r.kind = "staff_recovery"
        /\ grant' = Granted(i, r.target)
        /\ UNCHANGED <<status, role, version, changes>>
     \/ /\ r.kind = "staff_status"
        /\ status' = [status EXCEPT ![r.target] = r.value]
        /\ Bump(r.target) /\ UNCHANGED <<role, grant>>
     \/ /\ r.kind = "staff_role"
        /\ role' = [role EXCEPT ![r.target] = r.value]
        /\ Bump(r.target) /\ UNCHANGED <<status, grant>>
  /\ UNCHANGED on

ApproveSwitch(r) ==
  /\ r.kind \in {"product", "resume"}
  /\ Unchanged(r) /\ (r.kind = "resume" => ~on["policy"])
  /\ on' = [on EXCEPT ![r.target] = (r.value = "on")]
  /\ Bump(r.target) /\ UNCHANGED <<status, role, grant>>

ControlDecides(s, i) ==
  LET r == request[i] IN
  /\ state[i] = "pending" /\ r.kind \in ControlKinds
  /\ May(s, {"admin", "platform"} \cap ControlRoles(r.kind))
  /\ r.maker # s /\ r.target # s
  /\ MakerStands(r, ControlRoles(r.kind))
  /\ \/ (ApproveStaff(i, r) \/ ApproveSwitch(r)) /\ Close(i, s, "approved")
     \/ /\ Close(i, s, "rejected")
        /\ UNCHANGED <<status, role, on, version, changes, grant>>
  /\ UNCHANGED <<agenda, mfa, case, request, invitation, desk, stops>>

(* The colleague uses the token of a grant: new password, no second        *)
(* factor.  Both approvers must still be administrators.                   *)
AcceptRecovery(i) ==
  LET r == request[i] IN
  /\ grant[i] = "open" /\ state[i] = "approved"
  /\ r.maker # checker[i] /\ r.target \notin {r.maker, checker[i]}
  /\ MakerStands(r, {"admin"}) /\ Stands(checker[i], {"admin"})
  /\ Unlocked(r.target) /\ Unchanged(r)
  /\ mfa' = [mfa EXCEPT ![r.target] = FALSE]
  /\ Bump(r.target)
  /\ grant' = [grant EXCEPT ![i] = "consumed"]
  /\ UNCHANGED <<agenda, role, status, settings, request, state, checker, invitation, desk, stops>>

----------------------------------------------------------------------------
(* Invitations.                                                            *)

OpenInvitation(v) == invitation[v].state \in {"proposed", "approved"}

(* The unique index allows one open invitation of an address; those that   *)
(* ran out are revoked first.                                              *)
Invite(s, v, a, as) ==
  /\ "invite" \in agenda.asks /\ invitation[v].state = "none" /\ role[a] = "absent"
  /\ May(s, {"admin"})
  /\ \A w \in Invitations : OpenInvitation(w) /\ invitation[w].who = a => invitation[w].late
  /\ invitation' = [w \in Invitations |->
       IF w = v THEN [NoInvitation EXCEPT !.state = "proposed", !.who = a, !.role = as, !.maker = s]
       ELSE IF OpenInvitation(w) /\ invitation[w].who = a
            THEN [invitation[w] EXCEPT !.state = "revoked"] ELSE invitation[w]]
  /\ UNCHANGED <<agenda, people, version, settings, rows, desk, changes, stops>>

DecideInvitation(s, v, verdict) ==
  /\ invitation[v].state = "proposed" /\ ~invitation[v].late
  /\ May(s, {"admin"}) /\ invitation[v].maker # s
  /\ Stands(invitation[v].maker, {"admin"})
  /\ invitation' = [invitation EXCEPT ![v].state = verdict, ![v].checker = s]
  /\ UNCHANGED <<agenda, people, version, settings, rows, desk, changes, stops>>

RevokeInvitation(s, v) ==
  /\ OpenInvitation(v) /\ May(s, {"admin"})
  /\ invitation' = [invitation EXCEPT ![v].state = "revoked"]
  /\ UNCHANGED <<agenda, people, version, settings, rows, desk, changes, stops>>

AcceptInvitation(v) ==
  LET a == invitation[v].who IN
  /\ invitation[v].state = "approved" /\ ~invitation[v].late
  /\ Stands(invitation[v].maker, {"admin"}) /\ Stands(invitation[v].checker, {"admin"})
  /\ role[a] = "absent"
  /\ role' = [role EXCEPT ![a] = invitation[v].role]
  /\ invitation' = [invitation EXCEPT ![v].state = "accepted"]
  /\ UNCHANGED <<agenda, status, mfa, version, settings, rows, desk, changes, stops>>

----------------------------------------------------------------------------
(* What owners do with their own accounts, and time.                       *)

OwnerChanges(a) ==
  /\ a \in agenda.owners /\ version[a] < MaxVersion
  /\ role[a] # "absent" /\ status[a] # "closed" /\ Unlocked(a)
  /\ Bump(a)
  /\ UNCHANGED <<agenda, people, settings, rows, invitation, desk, stops>>

EnrolsFactor(s) ==
  /\ role[s] # "absent" /\ ~mfa[s] /\ Unlocked(s)
  /\ mfa' = [mfa EXCEPT ![s] = TRUE]
  /\ Bump(s)
  /\ UNCHANGED <<agenda, role, status, settings, rows, invitation, desk, stops>>

CloseAccount(c) ==
  /\ c \in agenda.owners /\ status[c] = "active"
  /\ status' = [status EXCEPT ![c] = "closed"]
  /\ Bump(c)
  /\ UNCHANGED <<agenda, role, mfa, settings, rows, invitation, desk, stops>>

ItemExpires(i) ==
  /\ state[i] = "pending" /\ \A s \in Staff : deciding[s] # i
  /\ state' = [state EXCEPT ![i] = "expired"]
  /\ UNCHANGED <<agenda, people, version, settings, request, checker, grant, invitation, desk, changes, stops>>

GrantExpires(i) ==
  /\ grant[i] = "open"
  /\ grant' = [grant EXCEPT ![i] = "expired"]
  /\ UNCHANGED <<agenda, people, version, settings, request, state, checker, invitation, desk, changes, stops>>

InvitationExpires(v) ==
  /\ OpenInvitation(v) /\ ~invitation[v].late
  /\ invitation' = [invitation EXCEPT ![v].late = TRUE]
  /\ UNCHANGED <<agenda, people, version, settings, rows, desk, changes, stops>>

ProposalStep(s) ==
  \/ \E kind \in Kinds : \E t \in TargetsOf(kind), value \in ValuesOf(kind) : ProposeReads(s, kind, t, value)
  \/ \E i \in Items : ProposeStores(s, i) \/ DecideReads(s, i)
  \/ DecideStores(s) \/ GiveUp(s)

ControlStep(s) ==
  \/ \E i \in Items, kind \in Kinds : \E t \in TargetsOf(kind), value \in ValuesOf(kind) :
       ControlProposes(s, i, kind, t, value)
  \/ \E i \in Items : ControlDecides(s, i)
  \/ EmergencyStop(s)

InvitationStep(s, v) ==
  \/ \E a \in Staff, as \in Roles : Invite(s, v, a, as)
  \/ \E verdict \in {"approved", "rejected"} : DecideInvitation(s, v, verdict)
  \/ RevokeInvitation(s, v)

Next ==
  \/ \E s \in Staff : ProposalStep(s) \/ ControlStep(s) \/ EnrolsFactor(s)
  \/ \E s \in Staff, v \in Invitations : InvitationStep(s, v)
  \/ \E v \in Invitations : AcceptInvitation(v) \/ InvitationExpires(v)
  \/ \E i \in Items : AcceptRecovery(i) \/ ItemExpires(i) \/ GrantExpires(i)
  \/ \E a \in Accounts : OwnerChanges(a)
  \/ \E c \in Customers : CloseAccount(c)

Spec == Init /\ [][Next]_vars

----------------------------------------------------------------------------
(* Types; what a request in use asks for.                                  *)
InvitationRow ==
  [state : {"none", "proposed", "approved", "accepted", "revoked", "rejected"},
   who : Staff \cup {None}, role : Roles \cup {"none"}, maker : Staff \cup {None},
   checker : Staff \cup {None}, late : BOOLEAN]

TypeOK ==
  /\ agenda \in Agendas
  /\ role \in [Accounts -> Roles \cup {"absent", "customer"}]
  /\ status \in [Accounts -> {"active", "restricted", "closed"}]
  /\ mfa \in [Accounts -> BOOLEAN]
  /\ version \in [Targets -> Nat] /\ changes \in [Targets -> Nat] /\ stops \in Nat
  /\ on \in [Switches -> BOOLEAN]
  /\ case \in [Customers -> {"submitted", "information_required", "approved", "declined"}]
  /\ request \in [Items -> Request \cup {None}]
  /\ state \in [Items -> {"free", "pending", "approved", "rejected", "expired"}]
  /\ checker \in [Items -> Staff \cup {None}]
  /\ grant \in [Items -> {"none", "open", "consumed", "expired"}]
  /\ invitation \in [Invitations -> InvitationRow]
  /\ draft \in [Staff -> Request \cup {None}]
  /\ deciding \in [Staff -> Items \cup {None}]

(* What the proofs rest on.  The version counts the changes of its target; *)
(* a request remembers both, and the stops if it was filed at the version  *)
(* now in force; nobody asks for control of himself or decides his own.    *)
Counted == \A t \in Targets : version[t] = changes[t] + 1

WellMade(r) ==
  /\ r \in Request /\ r.target \in TargetsOf(r.kind) /\ r.value \in ValuesOf(r.kind)
  /\ r.kind \in StaffKinds => r.maker # r.target
  /\ r.version = r.seen + 1 /\ r.version <= version[r.target]
  /\ r.target = "policy" /\ r.version = version["policy"] => r.stops = stops

RequestsWellMade ==
  /\ \A i \in Items : state[i] # "free" => WellMade(request[i])
  /\ \A s \in Staff : draft[s] # None => WellMade(draft[s])

DecidersApart ==
  /\ \A i \in Items : state[i] = "approved" => checker[i] \in Staff \ {request[i].maker}
  /\ \A s \in Staff : deciding[s] # None =>
       /\ state[deciding[s]] = "pending" /\ request[deciding[s]].kind \in ProposalKinds
       /\ request[deciding[s]].maker # s
       /\ \A x \in Staff \ {s} : deciding[x] # deciding[s]

InvitationsNamed ==
  \A v \in Invitations : invitation[v].state # "none" => /\ invitation[v].who \in Staff
                                                       /\ invitation[v].role \in Roles

(* Whatever administrators decide about one another, in whatever order and *)
(* however many of their requests are pending at once, two of them remain  *)
(* who are active and have a second factor: the console can always be used *)
(* for a decision by two ("cannot remove last active MFA administrator",   *)
(* admin_commands.go:333, promises one).                                   *)
TwoAdministratorsRemain ==
  \E a, b \in Staff : a # b /\ Stands(a, {"admin"}) /\ Stands(b, {"admin"})

IInv == /\ TypeOK /\ Counted /\ InvitationsNamed
        /\ RequestsWellMade /\ DecidersApart /\ TwoAdministratorsRemain

(* What two people agreed on takes effect on the target as its maker saw   *)
(* it: nothing about the account, the policy or the product has changed    *)
(* since, by its owner or by another decision; and a recovery replaces no  *)
(* credential that is newer than its request (operations.go:286, 306,      *)
(* admin_commands.go:325, admin_recovery.go:71).                           *)
DecidedAsProposed ==
  [][\A i \in Items :
       \/ (state[i] # "approved" /\ state'[i] = "approved")
       \/ (grant[i] = "open" /\ grant'[i] = "consumed" /\ version'[request[i].target] # version[request[i].target])
       => changes[request[i].target] = request[i].seen]_vars

(* After an emergency stop payments are resumed only by a request whose    *)
(* maker knew of that stop, confirmed by somebody else: no proposal or     *)
(* policy that was under way before it ends it (admin_commands.go:241,     *)
(* 358, operations.go:286).                                                *)
StopHolds ==
  [][~on["policy"] /\ on'["policy"] =>
       \E i \in Items : /\ state[i] # "approved" /\ state'[i] = "approved"
                        /\ request[i].stops = stops /\ checker'[i] # request[i].maker]_vars
=============================================================================
