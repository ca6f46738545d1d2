--------------------------- MODULE ApprovalsProofs ---------------------------
(* Theorems about Approvals, for any number of staff, customers, requests  *)
(* and invitations.                                                        *)
EXTENDS Approvals, TLAPS

(* Versions never go back, and the policy keeps its version only if the    *)
(* number of stops stays too.                                              *)
Forward ==
  /\ \A t \in Targets : version'[t] \in Nat /\ version[t] <= version'[t]
  /\ version'["policy"] = version["policy"] => stops' = stops

(* ------------------------------------------------------------------------ *)
(* Versions.                                                                *)

LEMMA TargetTypes ==
  /\ "policy" \in Targets /\ "product" \in Targets
  /\ Staff \subseteq Targets /\ Customers \subseteq Targets /\ Accounts \subseteq Targets
  /\ None \notin Staff /\ None \notin Items
  /\ \A c \in Customers : c \notin Staff
BY ApprovalsAssumption DEF Targets, Accounts, Switches

(* A step that bumps one target.                                           *)
LEMMA BumpForward ==
  ASSUME TypeOK, Counted, NEW t \in Targets, Bump(t), UNCHANGED stops
  PROVE  /\ Forward /\ Counted'
         /\ version' \in [Targets -> Nat] /\ changes' \in [Targets -> Nat] /\ stops' \in Nat
         /\ \A u \in Targets : version'[u] = IF u = t THEN version[u] + 1 ELSE version[u]
<1> USE DEF TypeOK, Counted, Bump
<1>1. /\ version' \in [Targets -> Nat] /\ changes' \in [Targets -> Nat] /\ stops' \in Nat
      /\ \A u \in Targets : version'[u] = IF u = t THEN version[u] + 1 ELSE version[u]
      /\ \A u \in Targets : changes'[u] = IF u = t THEN changes[u] + 1 ELSE changes[u]
  OBVIOUS
<1>2. Forward BY <1>1, TargetTypes DEF Forward
<1>3. Counted' BY <1>1
<1> QED BY <1>1, <1>2, <1>3

LEMMA StillForward ==
  ASSUME TypeOK, Counted, UNCHANGED <<version, changes, stops>>
  PROVE  Forward /\ Counted'
BY TargetTypes DEF TypeOK, Counted, Forward

LEMMA WellMadeKept ==
  ASSUME TypeOK, Forward, NEW r, WellMade(r) PROVE WellMade(r)'
<1>1. r \in Request /\ r.target \in Targets /\ r.version \in Nat /\ r.kind \in Kinds
  BY DEF WellMade, Request
<1>2. version[r.target] \in Nat /\ version'[r.target] \in Nat /\ version[r.target] <= version'[r.target]
  BY <1>1 DEF TypeOK, Forward
<1>3. r.version <= version'[r.target] BY <1>1, <1>2 DEF WellMade
<1>4. ASSUME r.target = "policy", r.version = version'["policy"] PROVE r.stops = stops'
  <2>1. version["policy"] = version'["policy"] /\ r.version = version["policy"]
    BY <1>1, <1>2, <1>4 DEF WellMade
  <2> QED BY <2>1, <1>4 DEF WellMade, Forward
<1> QED BY <1>3, <1>4 DEF WellMade, TargetsOf, ValuesOf

(* What a step may do to requests and drafts.                              *)
LEMMA RequestsKept ==
  ASSUME TypeOK, RequestsWellMade, Forward,
         \A i \in Items : state'[i] # "free" =>
           (state[i] # "free" /\ request'[i] = request[i]) \/ WellMade(request'[i]),
         \A s \in Staff : draft'[s] # None => draft'[s] = draft[s] \/ WellMade(draft'[s])
  PROVE  RequestsWellMade'
<1>1. ASSUME NEW i \in Items, state'[i] # "free" PROVE WellMade(request[i])'
  <2>1. WellMade(request'[i]) BY <1>1 DEF RequestsWellMade
  <2> DEFINE r == request'[i]
  <2>2. WellMade(r) BY <2>1
  <2> QED BY <2>2, WellMadeKept DEF WellMade
<1>2. ASSUME NEW s \in Staff, draft'[s] # None PROVE WellMade(draft[s])'
  <2>1. WellMade(draft'[s]) BY <1>2 DEF RequestsWellMade
  <2> QED BY <2>1, WellMadeKept DEF WellMade
<1> QED BY <1>1, <1>2 DEF RequestsWellMade

(* ------------------------------------------------------------------------ *)
(* Requests that are filed.                                                 *)

LEMMA FiledWellMade ==
  ASSUME TypeOK, Counted, NEW s \in Staff, NEW kind \in Kinds, NEW t \in TargetsOf(kind),
         NEW value \in ValuesOf(kind), kind \in StaffKinds => t # s
  PROVE  WellMade(RequestOf(s, kind, t, value))
<1>1. t \in Targets BY TargetTypes DEF TargetsOf
<1>2. value \in Values BY DEF ValuesOf, Values
<1>3. version[t] \in Nat /\ changes[t] \in Nat /\ stops \in Nat /\ version[t] = changes[t] + 1
  BY <1>1 DEF TypeOK, Counted
<1>4. RequestOf(s, kind, t, value) \in Request BY <1>1, <1>2, <1>3 DEF RequestOf, Request
<1> QED BY <1>3, <1>4 DEF WellMade, RequestOf

LEMMA RequestInUse ==
  ASSUME IInv, NEW i \in Items, state[i] # "free"
  PROVE  /\ request[i] \in Request /\ WellMade(request[i])
         /\ request[i].kind \in Kinds /\ request[i].target \in Targets
         /\ request[i].target \in TargetsOf(request[i].kind) /\ request[i].maker \in Staff
         /\ request[i].value \in Values
BY DEF IInv, RequestsWellMade, WellMade, Request

LEMMA RequestValues ==
  ASSUME IInv, NEW i \in Items, state[i] # "free"
  PROVE  /\ request[i].kind = "staff_status" => request[i].value \in {"active", "restricted"}
         /\ request[i].kind = "staff_role" => request[i].value \in Roles
BY DEF IInv, RequestsWellMade, WellMade, ValuesOf

(* ------------------------------------------------------------------------ *)
(* Administrators.                                                          *)

(* Who loses nothing stays.                                                *)
LEMMA AdministratorsKept ==
  ASSUME TwoAdministratorsRemain,
         \A a \in Staff : Stands(a, {"admin"}) => Stands(a, {"admin"})'
  PROVE  TwoAdministratorsRemain'
<1>1. PICK a \in Staff, b \in Staff : a # b /\ Stands(a, {"admin"}) /\ Stands(b, {"admin"})
  BY DEF TwoAdministratorsRemain
<1>2. Stands(a, {"admin"})' /\ Stands(b, {"admin"})' BY <1>1
<1> QED BY <1>1, <1>2 DEF TwoAdministratorsRemain

(* The two who decide about a third are left untouched.                    *)
LEMMA DecidersRemain ==
  ASSUME NEW a \in Staff, NEW b \in Staff, a # b,
         Stands(a, {"admin"}), Stands(b, {"admin"}),
         role'[a] = role[a], role'[b] = role[b], status'[a] = status[a], status'[b] = status[b],
         mfa'[a] = mfa[a], mfa'[b] = mfa[b]
  PROVE  TwoAdministratorsRemain'
BY DEF TwoAdministratorsRemain, Stands

LEMMA SamePeople ==
  ASSUME TwoAdministratorsRemain, UNCHANGED people PROVE TwoAdministratorsRemain'
BY AdministratorsKept DEF people, Stands

(* ------------------------------------------------------------------------ *)
(* The invariant, one lemma per group of actions.                           *)

LEMMA InitInv == Init => IInv
<1> SUFFICES ASSUME Init PROVE IInv
  OBVIOUS
<1>1. TypeOK
  <2>1. /\ agenda \in Agendas
        /\ role \in [Accounts -> Roles \cup {"absent", "customer"}]
        /\ status \in [Accounts -> {"active", "restricted", "closed"}]
        /\ mfa \in [Accounts -> BOOLEAN]
    BY ApprovalsAssumption DEF Init, Accounts
  <2>2. /\ version \in [Targets -> Nat] /\ changes \in [Targets -> Nat] /\ stops \in Nat
        /\ on \in [Switches -> BOOLEAN]
        /\ case \in [Customers -> {"submitted", "information_required", "approved", "declined"}]
    BY DEF Init
  <2>3. /\ request \in [Items -> Request \cup {None}]
        /\ state \in [Items -> {"free", "pending", "approved", "rejected", "expired"}]
        /\ checker \in [Items -> Staff \cup {None}]
        /\ grant \in [Items -> {"none", "open", "consumed", "expired"}]
        /\ draft \in [Staff -> Request \cup {None}]
        /\ deciding \in [Staff -> Items \cup {None}]
    BY DEF Init
  <2>4. invitation \in [Invitations -> InvitationRow]
    BY DEF Init, NoInvitation, InvitationRow
  <2> QED BY <2>1, <2>2, <2>3, <2>4 DEF TypeOK
<1>2. Counted BY DEF Init, Counted
<1>3. RequestsWellMade /\ DecidersApart BY DEF Init, RequestsWellMade, DecidersApart
<1>4. TwoAdministratorsRemain
  <2>1. PICK a \in Staff, b \in Staff : a # b /\ Opening[a] = "admin" /\ Opening[b] = "admin"
    BY ApprovalsAssumption
  <2>2. Stands(a, {"admin"}) /\ Stands(b, {"admin"})
    BY <2>1 DEF Init, Stands, Accounts
  <2> QED BY <2>1, <2>2 DEF TwoAdministratorsRemain
<1>5. InvitationsNamed BY DEF Init, InvitationsNamed, NoInvitation
<1> QED BY <1>1, <1>2, <1>3, <1>4, <1>5 DEF IInv

LEMMA ProposeReadsInv ==
  ASSUME IInv, NEW s \in Staff, NEW kind \in Kinds, NEW t \in TargetsOf(kind),
         NEW value \in ValuesOf(kind), ProposeReads(s, kind, t, value)
  PROVE  IInv'
<1> USE DEF IInv
<1>1. WellMade(RequestOf(s, kind, t, value))
  BY FiledWellMade DEF ProposeReads, ProposalKinds, StaffKinds
<1>2. RequestOf(s, kind, t, value) \in Request BY <1>1 DEF WellMade
<1>3. TypeOK' BY <1>2 DEF ProposeReads, TypeOK, people, settings, rows
<1>4. Forward /\ Counted' BY StillForward DEF ProposeReads
<1>5. RequestsWellMade' BY <1>1, <1>4, RequestsKept DEF ProposeReads, TypeOK, rows, RequestsWellMade
<1>6. DecidersApart' BY DEF ProposeReads, DecidersApart, rows
<1>7. TwoAdministratorsRemain' BY SamePeople DEF ProposeReads
<1>9. InvitationsNamed' BY DEF ProposeReads, InvitationsNamed
<1> QED BY <1>3, <1>4, <1>5, <1>6, <1>7, <1>9

LEMMA ProposeStoresInv ==
  ASSUME IInv, NEW s \in Staff, NEW i \in Items, ProposeStores(s, i) PROVE IInv'
<1> USE DEF IInv
<1>1. WellMade(draft[s]) /\ draft[s] \in Request BY DEF ProposeStores, RequestsWellMade, WellMade
<1>2. TypeOK' BY <1>1 DEF ProposeStores, File, TypeOK, people, settings
<1>3. Forward /\ Counted' BY StillForward DEF ProposeStores
<1>4. RequestsWellMade' BY <1>1, <1>3, RequestsKept DEF ProposeStores, File, TypeOK, RequestsWellMade
<1>5. DecidersApart' BY DEF ProposeStores, File, TypeOK, DecidersApart
<1>6. TwoAdministratorsRemain' BY SamePeople DEF ProposeStores
<1>9. InvitationsNamed' BY DEF ProposeStores, InvitationsNamed
<1> QED BY <1>2, <1>3, <1>4, <1>5, <1>6, <1>9

LEMMA DecideReadsInv ==
  ASSUME IInv, NEW s \in Staff, NEW i \in Items, DecideReads(s, i) PROVE IInv'
<1> USE DEF IInv
<1>1. TypeOK' BY DEF DecideReads, TypeOK, people, settings, rows
<1>2. Forward /\ Counted' BY StillForward DEF DecideReads
<1>3. RequestsWellMade' BY <1>2, RequestsKept DEF DecideReads, TypeOK, rows, RequestsWellMade
<1>4. DecidersApart' BY DEF DecideReads, DecidersApart, TypeOK, rows
<1>5. TwoAdministratorsRemain' BY SamePeople DEF DecideReads
<1>9. InvitationsNamed' BY DEF DecideReads, InvitationsNamed
<1> QED BY <1>1, <1>2, <1>3, <1>4, <1>5, <1>9

LEMMA GiveUpInv ==
  ASSUME IInv, NEW s \in Staff, GiveUp(s) PROVE IInv'
<1> USE DEF IInv
<1>1. TypeOK' BY DEF GiveUp, TypeOK, people, settings, rows
<1>2. Forward /\ Counted' BY StillForward DEF GiveUp
<1>3. RequestsWellMade' BY <1>2, RequestsKept DEF GiveUp, TypeOK, rows, RequestsWellMade
<1>4. DecidersApart' BY DEF GiveUp, DecidersApart, TypeOK, rows
<1>5. TwoAdministratorsRemain' BY SamePeople DEF GiveUp
<1>9. InvitationsNamed' BY DEF GiveUp, InvitationsNamed
<1> QED BY <1>1, <1>2, <1>3, <1>4, <1>5, <1>9

(* An approved proposal: its target is a customer or the policy.           *)
LEMMA ApproveEffect ==
  ASSUME IInv, NEW i \in Items, state[i] # "free", Approve(request[i]), UNCHANGED stops
  PROVE  /\ Forward /\ Counted'
         /\ version' \in [Targets -> Nat] /\ changes' \in [Targets -> Nat] /\ stops' \in Nat
         /\ status' \in [Accounts -> {"active", "restricted", "closed"}]
         /\ on' \in [Switches -> BOOLEAN]
         /\ case' \in [Customers -> {"submitted", "information_required", "approved", "declined"}]
         /\ \A a \in Staff : status'[a] = status[a]
<1> DEFINE r == request[i]
<1> USE DEF IInv
<1>1. /\ r.target \in Targets /\ r.target \in TargetsOf(r.kind) /\ r.kind \in Kinds
  BY RequestInUse
<1>2. /\ Forward /\ Counted'
      /\ version' \in [Targets -> Nat] /\ changes' \in [Targets -> Nat] /\ stops' \in Nat
  BY <1>1, BumpForward DEF Approve
<1>3. r.kind \in {"restrict", "restore"} \cup KycKinds => r.target \in Customers
  BY <1>1 DEF TargetsOf, KycKinds, StaffKinds
<1>4. /\ status' \in [Accounts -> {"active", "restricted", "closed"}]
      /\ on' \in [Switches -> BOOLEAN]
      /\ case' \in [Customers -> {"submitted", "information_required", "approved", "declined"}]
      /\ \A a \in Staff : status'[a] = status[a]
  <2>1. CASE SetPolicy(r) BY <2>1 DEF SetPolicy, TypeOK, Switches
  <2>2. CASE Restrict(r) BY <2>2, <1>3, TargetTypes DEF Restrict, TypeOK, settings, Accounts
  <2>3. CASE Restore(r) BY <2>3, <1>3, TargetTypes DEF Restore, TypeOK, settings, Accounts
  <2>4. CASE SettleCase(r)
    <3>1. CASE r.kind = "kyc_approve" BY <2>4, <3>1 DEF SettleCase, TypeOK
    <3>2. CASE r.kind = "kyc_decline" BY <2>4, <3>2 DEF SettleCase, TypeOK
    <3>3. CASE r.kind = "kyc_request_info" BY <2>4, <3>3 DEF SettleCase, TypeOK
    <3> QED BY <2>4, <3>1, <3>2, <3>3 DEF SettleCase, KycKinds
  <2> QED BY <2>1, <2>2, <2>3, <2>4 DEF Approve
<1> QED BY <1>2, <1>4

LEMMA DecideStoresInv ==
  ASSUME IInv, NEW s \in Staff, DecideStores(s) PROVE IInv'
<1> DEFINE i == deciding[s]
<1> USE DEF IInv
<1>1. i \in Items /\ state[i] # "free" BY DEF DecideStores, TypeOK, DecidersApart
<1>2. /\ Forward /\ Counted'
      /\ version' \in [Targets -> Nat] /\ changes' \in [Targets -> Nat] /\ stops' \in Nat
      /\ status' \in [Accounts -> {"active", "restricted", "closed"}]
      /\ on' \in [Switches -> BOOLEAN]
      /\ case' \in [Customers -> {"submitted", "information_required", "approved", "declined"}]
      /\ \A a \in Staff : status'[a] = status[a]
  <2>1. CASE Approve(request[i]) BY <2>1, <1>1, ApproveEffect DEF DecideStores
  <2>2. CASE UNCHANGED <<status, settings, version, changes>>
    BY <2>2, StillForward DEF DecideStores, TypeOK, settings
  <2> QED BY <2>1, <2>2 DEF DecideStores
<1>3. /\ state' \in [Items -> {"free", "pending", "approved", "rejected", "expired"}]
      /\ checker' \in [Items -> Staff \cup {None}]
      /\ \A j \in Items : state'[j] # "free" <=> state[j] # "free"
      /\ request' = request
  BY <1>1 DEF DecideStores, Close, TypeOK
<1>4. TypeOK' BY <1>2, <1>3 DEF DecideStores, TypeOK
<1>5. RequestsWellMade' BY <1>2, <1>3, RequestsKept DEF DecideStores
<1>6. DecidersApart' BY <1>1, <1>3 DEF DecideStores, Close, DecidersApart, TypeOK
<1>7. TwoAdministratorsRemain' BY <1>2, AdministratorsKept DEF DecideStores, Stands
<1>9. InvitationsNamed' BY DEF DecideStores, InvitationsNamed
<1> QED BY <1>2, <1>4, <1>5, <1>6, <1>7, <1>9

(* ------------------------------------------------------------------------ *)

LEMMA ControlProposesInv ==
  ASSUME IInv, NEW s \in Staff, NEW i \in Items, NEW kind \in Kinds, NEW t \in TargetsOf(kind),
         NEW value \in ValuesOf(kind), ControlProposes(s, i, kind, t, value)
  PROVE  IInv'
<1> DEFINE r == RequestOf(s, kind, t, value)
<1> USE DEF IInv
<1>1. WellMade(r) BY FiledWellMade DEF ControlProposes, Proposable
<1>2. r \in Request BY <1>1 DEF WellMade
<1> HIDE DEF r
<1>3. File(i, r) BY DEF ControlProposes, r
<1>4. TypeOK' BY <1>2, <1>3 DEF ControlProposes, File, TypeOK, people, settings, desk
<1>5. Forward /\ Counted' BY StillForward DEF ControlProposes
<1>6. RequestsWellMade'
  BY <1>1, <1>3, <1>5, RequestsKept DEF ControlProposes, File, TypeOK, desk, RequestsWellMade
<1>7. DecidersApart' BY <1>3 DEF ControlProposes, File, TypeOK, desk, DecidersApart
<1>8. TwoAdministratorsRemain' BY SamePeople DEF ControlProposes
<1>9. InvitationsNamed' BY DEF ControlProposes, InvitationsNamed
<1> QED BY <1>4, <1>5, <1>6, <1>7, <1>8, <1>9

LEMMA EmergencyStopInv ==
  ASSUME IInv, NEW s \in Staff, EmergencyStop(s) PROVE IInv'
<1> USE DEF IInv
<1>1. /\ version' \in [Targets -> Nat] /\ changes' \in [Targets -> Nat] /\ stops' \in Nat
      /\ Forward /\ Counted'
  BY TargetTypes DEF EmergencyStop, AfterStop, TypeOK, Counted, Forward
<1>2. TypeOK' BY <1>1 DEF EmergencyStop, TypeOK, people, rows, desk, Switches
<1>3. RequestsWellMade' BY <1>1, RequestsKept DEF EmergencyStop, TypeOK, rows, desk, RequestsWellMade
<1>4. DecidersApart' BY DEF EmergencyStop, DecidersApart, rows, desk
<1>5. TwoAdministratorsRemain' BY SamePeople DEF EmergencyStop
<1>9. InvitationsNamed' BY DEF EmergencyStop, InvitationsNamed
<1> QED BY <1>1, <1>2, <1>3, <1>4, <1>5, <1>9

(* An approved control changes at most its target; a switch is no person.  *)
LEMMA ApproveStaffEffect ==
  ASSUME IInv, NEW i \in Items, state[i] # "free", ApproveStaff(i, request[i]), UNCHANGED stops
  PROVE  /\ Forward /\ Counted' /\ Unchanged(request[i])
         /\ version' \in [Targets -> Nat] /\ changes' \in [Targets -> Nat] /\ stops' \in Nat
         /\ status' \in [Accounts -> {"active", "restricted", "closed"}]
         /\ role' \in [Accounts -> Roles \cup {"absent", "customer"}]
         /\ on' = on
         /\ grant' \in [Items -> {"none", "open", "consumed", "expired"}]
         /\ \A a \in Staff \ {request[i].target} : status'[a] = status[a] /\ role'[a] = role[a]
<1> DEFINE r == request[i]
<1> USE DEF IInv
<1>1. /\ r.target \in Targets /\ r.target \in Staff /\ r.kind \in StaffKinds
      /\ r.target \in Accounts /\ Staff \subseteq Accounts
  BY RequestInUse DEF ApproveStaff, TargetsOf, StaffKinds, Accounts
<1>2. /\ r.kind = "staff_status" => r.value \in {"active", "restricted"}
      /\ r.kind = "staff_role" => r.value \in Roles
  BY RequestValues
<1>3. CASE r.kind = "staff_recovery"
  <2>1. grant' = Granted(i, r.target) /\ UNCHANGED <<status, role, version, changes, on>>
    BY <1>3 DEF ApproveStaff
  <2>2. grant' \in [Items -> {"none", "open", "consumed", "expired"}]
    BY <2>1 DEF Granted, TypeOK
  <2> QED BY <2>1, <2>2, StillForward DEF TypeOK, ApproveStaff
<1>4. CASE r.kind = "staff_status"
  <2>1. status' = [status EXCEPT ![r.target] = r.value] /\ Bump(r.target) /\ UNCHANGED <<role, grant, on>>
    BY <1>4 DEF ApproveStaff
  <2> QED BY <2>1, <1>1, <1>2, <1>4, BumpForward DEF TypeOK, ApproveStaff
<1>5. CASE r.kind = "staff_role"
  <2>1. role' = [role EXCEPT ![r.target] = r.value] /\ Bump(r.target) /\ UNCHANGED <<status, grant, on>>
    BY <1>5 DEF ApproveStaff
  <2> QED BY <2>1, <1>1, <1>2, <1>5, BumpForward DEF TypeOK, ApproveStaff
<1> QED BY <1>1, <1>3, <1>4, <1>5 DEF StaffKinds

LEMMA ApproveSwitchEffect ==
  ASSUME IInv, NEW i \in Items, state[i] # "free", ApproveSwitch(request[i]), UNCHANGED stops
  PROVE  /\ Forward /\ Counted' /\ Unchanged(request[i])
         /\ version' \in [Targets -> Nat] /\ changes' \in [Targets -> Nat] /\ stops' \in Nat
         /\ on' \in [Switches -> BOOLEAN]
         /\ UNCHANGED <<status, role, grant>>
<1> USE DEF IInv
<1>1. request[i].target \in Targets BY RequestInUse
<1> QED BY <1>1, BumpForward DEF ApproveSwitch, TypeOK

(* Maker, checker and target are three people where the target is staff:   *)
(* the first two remain.                                                   *)
LEMMA ControlDecidesInv ==
  ASSUME IInv, NEW s \in Staff, NEW i \in Items, ControlDecides(s, i) PROVE IInv'
<1> DEFINE r == request[i]
<1> USE DEF IInv
<1>1. /\ state[i] # "free" /\ r.maker \in Staff /\ r.maker # s /\ r.target # s
      /\ r.kind \in StaffKinds => r.maker # r.target
  BY RequestInUse DEF ControlDecides, WellMade
<1>2. /\ Forward /\ Counted'
      /\ version' \in [Targets -> Nat] /\ changes' \in [Targets -> Nat] /\ stops' \in Nat
      /\ status' \in [Accounts -> {"active", "restricted", "closed"}]
      /\ role' \in [Accounts -> Roles \cup {"absent", "customer"}]
      /\ on' \in [Switches -> BOOLEAN]
      /\ grant' \in [Items -> {"none", "open", "consumed", "expired"}]
  <2>1. CASE ApproveStaff(i, r) BY <2>1, <1>1, ApproveStaffEffect DEF ControlDecides, TypeOK
  <2>2. CASE ApproveSwitch(r) BY <2>2, <1>1, ApproveSwitchEffect DEF ControlDecides, TypeOK
  <2>3. CASE UNCHANGED <<status, role, on, version, changes, grant>>
    BY <2>3, StillForward DEF ControlDecides, TypeOK
  <2> QED BY <2>1, <2>2, <2>3 DEF ControlDecides
<1>3. /\ state' \in [Items -> {"free", "pending", "approved", "rejected", "expired"}]
      /\ checker' \in [Items -> Staff \cup {None}]
      /\ \A j \in Items : state'[j] # "free" <=> state[j] # "free"
      /\ request' = request
  BY <1>1 DEF ControlDecides, Close, TypeOK
<1>4. TypeOK' BY <1>2, <1>3 DEF ControlDecides, TypeOK, desk
<1>5. RequestsWellMade' BY <1>2, <1>3, RequestsKept DEF ControlDecides, desk
<1>6. DecidersApart' BY <1>1, <1>3 DEF ControlDecides, Close, DecidersApart, TypeOK, desk,
  ControlKinds, StaffKinds, ProposalKinds
<1>7. TwoAdministratorsRemain'
  <2>1. CASE ApproveStaff(i, r)
    <3>1. r.kind \in StaffKinds BY <2>1 DEF ApproveStaff
    <3>2. Stands(s, {"admin"}) /\ Stands(r.maker, {"admin"})
      BY <3>1 DEF ControlDecides, May, MakerStands, ControlRoles, StaffKinds, Stands
    <3>3. \A a \in Staff \ {r.target} : status'[a] = status[a] /\ role'[a] = role[a]
      BY <2>1, <1>1, ApproveStaffEffect DEF ControlDecides
    <3> QED BY <3>1, <3>2, <3>3, <1>1, DecidersRemain DEF ControlDecides
  <2>2. CASE ApproveSwitch(r)
    BY <2>2, SamePeople DEF ControlDecides, ApproveSwitch, people
  <2>3. CASE UNCHANGED <<status, role, on, version, changes, grant>>
    BY <2>3, SamePeople DEF ControlDecides, people
  <2> QED BY <2>1, <2>2, <2>3 DEF ControlDecides
<1>9. InvitationsNamed' BY DEF ControlDecides, InvitationsNamed
<1> QED BY <1>2, <1>4, <1>5, <1>6, <1>7, <1>9

(* A grant that is used: its approvers are looked at again and remain.     *)
LEMMA AcceptRecoveryInv ==
  ASSUME IInv, NEW i \in Items, AcceptRecovery(i) PROVE IInv'
<1> DEFINE r == request[i]
<1> USE DEF IInv
<1>1. state[i] # "free" /\ r.target \in Targets BY RequestInUse DEF AcceptRecovery
<1>2. /\ version' \in [Targets -> Nat] /\ changes' \in [Targets -> Nat] /\ stops' \in Nat
      /\ Forward /\ Counted'
  BY <1>1, BumpForward DEF AcceptRecovery
<1>3. TypeOK' BY <1>2 DEF AcceptRecovery, TypeOK, settings, desk
<1>4. RequestsWellMade' BY <1>2, RequestsKept DEF AcceptRecovery, desk, RequestsWellMade
<1>5. DecidersApart' BY DEF AcceptRecovery, DecidersApart, desk
<1>6. TwoAdministratorsRemain'
  <2>1. r.maker \in Staff BY <1>1, RequestInUse
  <2>2. checker[i] \in Staff BY DEF AcceptRecovery, DecidersApart
  <2>3. Stands(r.maker, {"admin"}) /\ Stands(checker[i], {"admin"})
    BY DEF AcceptRecovery, MakerStands
  <2>4. /\ r.maker # checker[i]
        /\ mfa'[r.maker] = mfa[r.maker] /\ mfa'[checker[i]] = mfa[checker[i]]
    BY <2>1, <2>2, TargetTypes DEF AcceptRecovery, TypeOK, Accounts
  <2> QED BY <2>1, <2>2, <2>3, <2>4, DecidersRemain DEF AcceptRecovery
<1>9. InvitationsNamed' BY DEF AcceptRecovery, InvitationsNamed
<1> QED BY <1>2, <1>3, <1>4, <1>5, <1>6, <1>9

(* ------------------------------------------------------------------------ *)
(* Invitations, owners, time.                                               *)

(* A step that leaves everything but the invitations as it is.             *)
LEMMA InvitationOnly ==
  ASSUME IInv, invitation' \in [Invitations -> InvitationRow], InvitationsNamed',
         UNCHANGED <<agenda, people, version, settings, rows, desk, changes, stops>>
  PROVE  IInv'
<1> USE DEF IInv
<1>1. TypeOK' BY DEF TypeOK, people, settings, rows, desk
<1>2. Forward /\ Counted' BY StillForward
<1>3. RequestsWellMade' BY <1>2, RequestsKept DEF rows, desk, RequestsWellMade
<1>4. DecidersApart' BY DEF DecidersApart, rows, desk
<1>5. TwoAdministratorsRemain' BY SamePeople
<1> QED BY <1>1, <1>2, <1>3, <1>4, <1>5

LEMMA InvitationStepInv ==
  ASSUME IInv, NEW s \in Staff, NEW v \in Invitations, InvitationStep(s, v) PROVE IInv'
<1> invitation \in [Invitations -> InvitationRow] BY DEF IInv, TypeOK
<1>1. ASSUME NEW a \in Staff, NEW as \in Roles, Invite(s, v, a, as) PROVE IInv'
  <2>1. [NoInvitation EXCEPT !.state = "proposed", !.who = a, !.role = as, !.maker = s] \in InvitationRow
    BY DEF NoInvitation, InvitationRow
  <2>2. \A w \in Invitations : [invitation[w] EXCEPT !.state = "revoked"] \in InvitationRow
    BY DEF InvitationRow
  <2>3. invitation' \in [Invitations -> InvitationRow] BY <1>1, <2>1, <2>2 DEF Invite
  <2>4. InvitationsNamed'
    BY <1>1 DEF Invite, IInv, InvitationsNamed, NoInvitation, OpenInvitation, InvitationRow
  <2> QED BY <2>3, <2>4, <1>1, InvitationOnly DEF Invite
<1>2. ASSUME NEW verdict \in {"approved", "rejected"}, DecideInvitation(s, v, verdict) PROVE IInv'
  <2>1. [invitation[v] EXCEPT !.state = verdict, !.checker = s] \in InvitationRow
    BY DEF InvitationRow
  <2>2. invitation' \in [Invitations -> InvitationRow] BY <1>2, <2>1 DEF DecideInvitation
  <2>3. InvitationsNamed' BY <1>2 DEF DecideInvitation, IInv, InvitationsNamed, InvitationRow
  <2> QED BY <2>2, <2>3, <1>2, InvitationOnly DEF DecideInvitation
<1>3. CASE RevokeInvitation(s, v)
  <2>1. [invitation[v] EXCEPT !.state = "revoked"] \in InvitationRow BY DEF InvitationRow
  <2>2. invitation' \in [Invitations -> InvitationRow] BY <1>3, <2>1 DEF RevokeInvitation
  <2>3. InvitationsNamed'
    BY <1>3 DEF RevokeInvitation, OpenInvitation, IInv, InvitationsNamed, InvitationRow
  <2> QED BY <2>2, <2>3, <1>3, InvitationOnly DEF RevokeInvitation
<1> QED BY <1>1, <1>2, <1>3 DEF InvitationStep

LEMMA InvitationExpiresInv ==
  ASSUME IInv, NEW v \in Invitations, InvitationExpires(v) PROVE IInv'
<1> invitation \in [Invitations -> InvitationRow] BY DEF IInv, TypeOK
<1>1. [invitation[v] EXCEPT !.late = TRUE] \in InvitationRow BY DEF InvitationRow
<1>2. invitation' \in [Invitations -> InvitationRow] BY <1>1 DEF InvitationExpires
<1>3. InvitationsNamed' BY DEF InvitationExpires, IInv, InvitationsNamed, InvitationRow
<1> QED BY <1>2, <1>3, InvitationOnly DEF InvitationExpires

(* The new account was nobody's before.                                    *)
LEMMA AcceptInvitationInv ==
  ASSUME IInv, NEW v \in Invitations, AcceptInvitation(v) PROVE IInv'
<1> DEFINE a == invitation[v].who
<1> USE DEF IInv
<1>1. invitation[v] \in InvitationRow /\ a \in Staff /\ invitation[v].role \in Roles
  BY DEF AcceptInvitation, TypeOK, InvitationsNamed
<1>2. role' = [role EXCEPT ![a] = invitation[v].role] /\ role[a] = "absent" /\ a \in Accounts
  BY <1>1 DEF AcceptInvitation, Accounts
<1>3. [invitation[v] EXCEPT !.state = "accepted"] \in InvitationRow BY <1>1 DEF InvitationRow
<1>4. invitation' \in [Invitations -> InvitationRow] /\ InvitationsNamed'
  BY <1>1, <1>3 DEF AcceptInvitation, TypeOK, InvitationsNamed, InvitationRow
<1>5. TypeOK' BY <1>1, <1>2, <1>4 DEF AcceptInvitation, TypeOK, settings, rows, desk
<1>6. Forward /\ Counted' BY StillForward DEF AcceptInvitation
<1>7. RequestsWellMade' BY <1>6, RequestsKept DEF AcceptInvitation, rows, desk, RequestsWellMade
<1>8. DecidersApart' BY DEF AcceptInvitation, DecidersApart, rows, desk
<1>9. TwoAdministratorsRemain'
  <2>1. \A b \in Staff : Stands(b, {"admin"}) => b # a BY <1>2 DEF Stands
  <2>2. \A b \in Staff : b # a => role'[b] = role[b] BY <1>2 DEF TypeOK, Accounts
  <2> QED BY <2>1, <2>2, AdministratorsKept DEF AcceptInvitation, Stands
<1> QED BY <1>4, <1>5, <1>6, <1>7, <1>8, <1>9

LEMMA OwnerChangesInv ==
  ASSUME IInv, NEW a \in Accounts, OwnerChanges(a) PROVE IInv'
<1> USE DEF IInv
<1>1. /\ version' \in [Targets -> Nat] /\ changes' \in [Targets -> Nat] /\ stops' \in Nat
      /\ Forward /\ Counted'
  BY TargetTypes, BumpForward DEF OwnerChanges
<1>2. TypeOK' BY <1>1 DEF OwnerChanges, TypeOK, people, settings, rows, desk
<1>3. RequestsWellMade' BY <1>1, RequestsKept DEF OwnerChanges, rows, desk, RequestsWellMade
<1>4. DecidersApart' BY DEF OwnerChanges, DecidersApart, rows, desk
<1>5. TwoAdministratorsRemain' BY SamePeople DEF OwnerChanges
<1>6. InvitationsNamed' BY DEF OwnerChanges, InvitationsNamed
<1> QED BY <1>1, <1>2, <1>3, <1>4, <1>5, <1>6

LEMMA EnrolsFactorInv ==
  ASSUME IInv, NEW s \in Staff, EnrolsFactor(s) PROVE IInv'
<1> USE DEF IInv
<1>1. /\ version' \in [Targets -> Nat] /\ changes' \in [Targets -> Nat] /\ stops' \in Nat
      /\ Forward /\ Counted'
  BY TargetTypes, BumpForward DEF EnrolsFactor
<1>2. TypeOK' BY <1>1 DEF EnrolsFactor, TypeOK, settings, rows, desk
<1>3. RequestsWellMade' BY <1>1, RequestsKept DEF EnrolsFactor, rows, desk, RequestsWellMade
<1>4. DecidersApart' BY DEF EnrolsFactor, DecidersApart, rows, desk
<1>5. TwoAdministratorsRemain'
  <2>1. \A b \in Staff : mfa[b] => mfa'[b] BY DEF EnrolsFactor, TypeOK, Accounts
  <2> QED BY <2>1, AdministratorsKept DEF EnrolsFactor, Stands
<1>6. InvitationsNamed' BY DEF EnrolsFactor, InvitationsNamed
<1> QED BY <1>1, <1>2, <1>3, <1>4, <1>5, <1>6

LEMMA CloseAccountInv ==
  ASSUME IInv, NEW c \in Customers, CloseAccount(c) PROVE IInv'
<1> USE DEF IInv
<1>1. /\ version' \in [Targets -> Nat] /\ changes' \in [Targets -> Nat] /\ stops' \in Nat
      /\ Forward /\ Counted'
  BY TargetTypes, BumpForward DEF CloseAccount
<1>2. TypeOK' BY <1>1 DEF CloseAccount, TypeOK, settings, rows, desk
<1>3. RequestsWellMade' BY <1>1, RequestsKept DEF CloseAccount, rows, desk, RequestsWellMade
<1>4. DecidersApart' BY DEF CloseAccount, DecidersApart, rows, desk
<1>5. TwoAdministratorsRemain'
  <2>1. \A b \in Staff : status'[b] = status[b] BY TargetTypes DEF CloseAccount, TypeOK, Accounts
  <2> QED BY <2>1, AdministratorsKept DEF CloseAccount, Stands
<1>6. InvitationsNamed' BY DEF CloseAccount, InvitationsNamed
<1> QED BY <1>1, <1>2, <1>3, <1>4, <1>5, <1>6

LEMMA ExpiryInv ==
  ASSUME IInv, NEW i \in Items, ItemExpires(i) \/ GrantExpires(i) PROVE IInv'
<1> USE DEF IInv
<1>1. TypeOK' BY DEF ItemExpires, GrantExpires, TypeOK, people, settings, desk
<1>2. Forward /\ Counted' BY StillForward DEF ItemExpires, GrantExpires
<1>3. RequestsWellMade'
  BY <1>2, RequestsKept DEF ItemExpires, GrantExpires, TypeOK, desk, RequestsWellMade
<1>4. DecidersApart' BY DEF ItemExpires, GrantExpires, TypeOK, DecidersApart, desk
<1>5. TwoAdministratorsRemain' BY SamePeople DEF ItemExpires, GrantExpires
<1>6. InvitationsNamed' BY DEF ItemExpires, GrantExpires, InvitationsNamed
<1> QED BY <1>1, <1>2, <1>3, <1>4, <1>5, <1>6

(* ------------------------------------------------------------------------ *)
(* The theorems.                                                            *)

LEMMA StepInv == IInv /\ [Next]_vars => IInv'
<1> SUFFICES ASSUME IInv, [Next]_vars PROVE IInv'
  OBVIOUS
<1>1. ASSUME NEW s \in Staff, ProposalStep(s) PROVE IInv'
  BY <1>1, ProposeReadsInv, ProposeStoresInv, DecideReadsInv, DecideStoresInv, GiveUpInv DEF ProposalStep
<1>2. ASSUME NEW s \in Staff, ControlStep(s) PROVE IInv'
  BY <1>2, ControlProposesInv, ControlDecidesInv, EmergencyStopInv DEF ControlStep
<1>3. CASE UNCHANGED vars
  <2> USE <1>3 DEF IInv
  <2>1. TypeOK' BY DEF vars, people, settings, rows, desk, TypeOK
  <2>2. Forward /\ Counted' BY StillForward DEF vars
  <2>3. RequestsWellMade' BY <2>2, RequestsKept DEF vars, rows, desk, RequestsWellMade
  <2>4. DecidersApart' /\ InvitationsNamed' BY DEF vars, rows, desk, DecidersApart, InvitationsNamed
  <2>5. TwoAdministratorsRemain' BY SamePeople DEF vars
  <2> QED BY <2>1, <2>2, <2>3, <2>4, <2>5
<1>4. CASE Next
  BY <1>1, <1>2, <1>4, EnrolsFactorInv, InvitationStepInv, AcceptInvitationInv, InvitationExpiresInv,
     AcceptRecoveryInv, ExpiryInv, OwnerChangesInv, CloseAccountInv DEF Next
<1> QED BY <1>3, <1>4

(* The inductive invariant: versions count changes, requests are what      *)
(* their makers could ask for, no one decides on his own, and two          *)
(* administrators remain (Propose, decide, AdminCommand,                   *)
(* AcceptStaffRecovery).                                                   *)
THEOREM ApprovalsInvariant == Spec => []IInv
<1>1. Init => IInv BY InitInv
<1>2. IInv /\ [Next]_vars => IInv' BY StepInv
<1> QED BY <1>1, <1>2, PTL DEF Spec

(* However many colleagues decide about one another, two administrators    *)
(* with a second factor remain: a request about staff has a maker and a    *)
(* checker who are both looked at when it takes effect and are neither its *)
(* target (AdminCommand "control_decide", AcceptStaffRecovery).            *)
THEOREM ConsoleStaysUsable == Spec => []TwoAdministratorsRemain
<1>1. IInv => TwoAdministratorsRemain BY DEF IInv
<1> QED BY <1>1, ApprovalsInvariant, PTL

(* Steps that approve nothing, use no grant and resume no payments.        *)
Quiet ==
  /\ \A i \in Items : state'[i] = "approved" => state[i] = "approved"
  /\ grant' = grant \/ version' = version
  /\ on'["policy"] => on["policy"]

LEMMA QuietOrDecides ==
  ASSUME IInv, [Next]_vars
  PROVE  \/ Quiet
         \/ \E s \in Staff : DecideStores(s)
         \/ \E s \in Staff, i \in Items : ControlDecides(s, i)
         \/ \E i \in Items : AcceptRecovery(i)
<1> USE DEF IInv, TypeOK
<1>1. ASSUME NEW s \in Staff, ProposalStep(s) PROVE Quiet \/ DecideStores(s)
  <2>1. ASSUME NEW kind \in Kinds, NEW t \in TargetsOf(kind), NEW value \in ValuesOf(kind),
               ProposeReads(s, kind, t, value)
        PROVE  Quiet
    BY <2>1 DEF ProposeReads, Quiet, rows, settings
  <2>2. ASSUME NEW i \in Items, ProposeStores(s, i) \/ DecideReads(s, i) PROVE Quiet
    BY <2>2 DEF ProposeStores, DecideReads, File, Quiet, rows, settings
  <2>3. CASE GiveUp(s) BY <2>3 DEF GiveUp, Quiet, rows, settings
  <2> QED BY <1>1, <2>1, <2>2, <2>3 DEF ProposalStep
<1>2. ASSUME NEW s \in Staff, ControlStep(s) PROVE Quiet \/ \E i \in Items : ControlDecides(s, i)
  <2>1. ASSUME NEW i \in Items, NEW kind \in Kinds, NEW t \in TargetsOf(kind), NEW value \in ValuesOf(kind),
               ControlProposes(s, i, kind, t, value)
        PROVE  Quiet
    BY <2>1 DEF ControlProposes, File, Quiet, settings
  <2>2. CASE EmergencyStop(s) BY <2>2 DEF EmergencyStop, Quiet, rows, Switches
  <2> QED BY <1>2, <2>1, <2>2 DEF ControlStep
<1>3. ASSUME NEW s \in Staff, NEW v \in Invitations, InvitationStep(s, v) PROVE Quiet
  BY <1>3 DEF InvitationStep, Invite, DecideInvitation, RevokeInvitation, Quiet, rows, settings
<1>4. ASSUME NEW v \in Invitations, AcceptInvitation(v) \/ InvitationExpires(v) PROVE Quiet
  BY <1>4 DEF AcceptInvitation, InvitationExpires, Quiet, rows, settings
<1>5. ASSUME NEW i \in Items, ItemExpires(i) \/ GrantExpires(i) PROVE Quiet
  BY <1>5 DEF ItemExpires, GrantExpires, Quiet, settings
<1>6. ASSUME NEW a \in Accounts, OwnerChanges(a) \/ EnrolsFactor(a) \/ CloseAccount(a) PROVE Quiet
  BY <1>6 DEF OwnerChanges, EnrolsFactor, CloseAccount, Quiet, rows, settings
<1>7. CASE UNCHANGED vars BY <1>7 DEF vars, Quiet, rows, settings
<1>8. CASE Next
  BY <1>1, <1>2, <1>3, <1>4, <1>5, <1>6, <1>8 DEF Next, Accounts
<1> QED BY <1>7, <1>8

(* A request at the version it names saw its target as it is, and knew of  *)
(* the last stop if it is about the policy.                                *)
LEMMA UnchangedMeans ==
  ASSUME IInv, NEW i \in Items, state[i] # "free", Unchanged(request[i])
  PROVE  /\ changes[request[i].target] = request[i].seen
         /\ request[i].target = "policy" => request[i].stops = stops
<1>1. /\ WellMade(request[i]) /\ request[i].target \in Targets /\ request[i] \in Request
  BY RequestInUse
<1>2. request[i].seen \in Nat /\ changes[request[i].target] \in Nat
  BY <1>1 DEF Request, IInv, TypeOK
<1> QED BY <1>1, <1>2 DEF Unchanged, WellMade, IInv, Counted

LEMMA PolicyTarget ==
  ASSUME NEW kind, kind = "policy" PROVE TargetsOf(kind) = {"policy"}
<1>1. kind # "product" /\ kind \notin StaffKinds BY DEF StaffKinds
<1> QED BY <1>1 DEF TargetsOf

(* What the three steps that decide do to requests.                        *)
LEMMA DecideStoresDoes ==
  ASSUME IInv, NEW s \in Staff, DecideStores(s)
  PROVE  /\ grant' = grant
         /\ \A j \in Items : state[j] # "approved" /\ state'[j] = "approved" =>
              state[j] # "free" /\ Unchanged(request[j])
         /\ ~on["policy"] /\ on'["policy"] =>
              \E j \in Items : /\ state[j] # "approved" /\ state'[j] = "approved"
                               /\ request[j].target = "policy" /\ checker'[j] # request[j].maker
<1> DEFINE i == deciding[s]
<1>1. i \in Items /\ state[i] = "pending" /\ request[i].maker # s
  BY DEF IInv, DecideStores, TypeOK, DecidersApart
<1>2. CASE Approve(request[i]) /\ Close(i, s, "approved")
  <2>1. \A j \in Items : state[j] # "approved" /\ state'[j] = "approved" => j = i
    BY <1>1, <1>2 DEF Close, IInv, TypeOK
  <2>2. state'[i] = "approved" /\ checker'[i] = s BY <1>1, <1>2 DEF Close, IInv, TypeOK
  <2>3. ASSUME ~on["policy"], on'["policy"] PROVE request[i].target = "policy"
    <3>1. SetPolicy(request[i])
      BY <1>2, <2>3 DEF Approve, Restrict, Restore, SettleCase, settings, IInv, TypeOK, Switches
    <3>2. request[i].target \in TargetsOf("policy") BY <1>1, <3>1, RequestInUse DEF SetPolicy
    <3>3. TargetsOf("policy") = {"policy"} BY PolicyTarget
    <3> QED BY <3>2, <3>3
  <2> QED BY <1>1, <1>2, <2>1, <2>2, <2>3 DEF DecideStores, Approve
<1>3. CASE Close(i, s, "rejected") /\ UNCHANGED <<status, settings, version, changes>>
  BY <1>1, <1>3 DEF DecideStores, Close, IInv, TypeOK, settings
<1> QED BY <1>2, <1>3 DEF DecideStores

LEMMA ControlDecidesDoes ==
  ASSUME IInv, NEW s \in Staff, NEW i \in Items, ControlDecides(s, i)
  PROVE  /\ grant' = grant \/ version' = version
         /\ \A j \in Items : state[j] # "approved" /\ state'[j] = "approved" =>
              state[j] # "free" /\ Unchanged(request[j])
         /\ ~on["policy"] /\ on'["policy"] =>
              \E j \in Items : /\ state[j] # "approved" /\ state'[j] = "approved"
                               /\ request[j].target = "policy" /\ checker'[j] # request[j].maker
<1>1. state[i] = "pending" /\ request[i].maker # s BY DEF ControlDecides
<1>2. CASE (ApproveStaff(i, request[i]) \/ ApproveSwitch(request[i])) /\ Close(i, s, "approved")
  <2>1. \A j \in Items : state[j] # "approved" /\ state'[j] = "approved" => j = i
    BY <1>1, <1>2 DEF Close, IInv, TypeOK
  <2>2. state'[i] = "approved" /\ checker'[i] = s BY <1>1, <1>2 DEF Close, IInv, TypeOK
  <2>3. (grant' = grant \/ version' = version) /\ Unchanged(request[i])
    BY <1>2 DEF ApproveStaff, ApproveSwitch
  <2>4. ASSUME ~on["policy"], on'["policy"] PROVE request[i].target = "policy"
    BY <1>2, <2>4 DEF ApproveStaff, ApproveSwitch, IInv, TypeOK, Switches
  <2> QED BY <1>1, <2>1, <2>2, <2>3, <2>4
<1>3. CASE Close(i, s, "rejected") /\ UNCHANGED <<status, role, on, version, changes, grant>>
  BY <1>1, <1>3 DEF Close, IInv, TypeOK
<1> QED BY <1>2, <1>3 DEF ControlDecides

(* Only the grant that is accepted ends with a change of its target.       *)
LEMMA AcceptRecoveryDoes ==
  ASSUME IInv, NEW i \in Items, AcceptRecovery(i)
  PROVE  /\ UNCHANGED <<state, on>>
         /\ \A j \in Items : grant[j] = "open" /\ grant'[j] = "consumed" =>
              state[j] # "free" /\ Unchanged(request[j])
<1>1. \A j \in Items : grant[j] = "open" /\ grant'[j] = "consumed" => j = i
  BY DEF AcceptRecovery, IInv, TypeOK
<1> QED BY <1>1 DEF AcceptRecovery, settings

(* An approval, of a proposal or of a control, and the use of a recovery   *)
(* grant find their target as the maker saw it (decide, AdminCommand       *)
(* "control_decide", AcceptStaffRecovery).                                 *)
THEOREM Timely == Spec => DecidedAsProposed
<1> DEFINE A == \A i \in Items :
       \/ (state[i] # "approved" /\ state'[i] = "approved")
       \/ (grant[i] = "open" /\ grant'[i] = "consumed" /\ version'[request[i].target] # version[request[i].target])
       => changes[request[i].target] = request[i].seen
<1>1. IInv /\ [Next]_vars => A
  <2> SUFFICES ASSUME IInv, [Next]_vars, NEW i \in Items,
                      \/ (state[i] # "approved" /\ state'[i] = "approved")
                      \/ (grant[i] = "open" /\ grant'[i] = "consumed" /\ version'[request[i].target] # version[request[i].target])
               PROVE  changes[request[i].target] = request[i].seen
    OBVIOUS
  <2>1. state[i] # "free" /\ Unchanged(request[i])
    BY QuietOrDecides, DecideStoresDoes, ControlDecidesDoes, AcceptRecoveryDoes DEF Quiet
  <2> QED BY <2>1, UnchangedMeans
<1>2. IInv /\ [Next]_vars => [A]_vars BY <1>1
<1>3. Spec => [][A]_vars BY <1>2, ApprovalsInvariant, PTL DEF Spec
<1> QED BY <1>3 DEF DecidedAsProposed

(* Payments that were stopped start again only by an approval of a request *)
(* whose maker knew of the last stop, given by somebody else (AdminCommand *)
(* "emergency_stop" and "control_decide", decide).                         *)
THEOREM StopStays == Spec => StopHolds
<1> DEFINE A == ~on["policy"] /\ on'["policy"] =>
       \E i \in Items : /\ state[i] # "approved" /\ state'[i] = "approved"
                        /\ request[i].stops = stops /\ checker'[i] # request[i].maker
<1>1. IInv /\ [Next]_vars => A
  <2> SUFFICES ASSUME IInv, [Next]_vars, ~on["policy"], on'["policy"]
               PROVE  \E i \in Items : /\ state[i] # "approved" /\ state'[i] = "approved"
                                       /\ request[i].stops = stops /\ checker'[i] # request[i].maker
    OBVIOUS
  <2>1. PICK i \in Items : /\ state[i] # "approved" /\ state'[i] = "approved"
                           /\ state[i] # "free" /\ Unchanged(request[i])
                           /\ request[i].target = "policy" /\ checker'[i] # request[i].maker
    BY QuietOrDecides, DecideStoresDoes, ControlDecidesDoes, AcceptRecoveryDoes DEF Quiet
  <2> QED BY <2>1, UnchangedMeans
<1>2. IInv /\ [Next]_vars => [A]_vars BY <1>1
<1>3. Spec => [][A]_vars BY <1>2, ApprovalsInvariant, PTL DEF Spec
<1> QED BY <1>3 DEF StopHolds
=============================================================================
