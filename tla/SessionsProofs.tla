----------------------------- MODULE SessionsProofs -----------------------------
(***************************************************************************)
(* Proofs about Sessions and WebRefresh: the sessions of a customer or a   *)
(* member of staff at the server, and the tabs of a browser that share one.*)
(***************************************************************************)
EXTENDS Sessions, WebRefresh, TLAPS

-----------------------------------------------------------------------------
(***************************************************************************)
(* Proofs about Sessions, for any number of slots, passwords, secrets,     *)
(* half minutes and challenges: its inductive invariant, and from it that  *)
(* live sessions know the current credentials, that codes work once and    *)
(* that requests of revoked sessions and old ceremonies do nothing.        *)
(***************************************************************************)

Presented == Counters \cup {NoCode}

-----------------------------------------------------------------------------
(* What the helpers give.                                                  *)
LEMMA CountersAreNat == Counters \subseteq Nat /\ NoCode \notin Counters /\ Presented \subseteq Int
  BY AccountsAssumption DEF AccountsAssumption, Counters, NoCode, Presented

LEMMA ProofFields ==
  ASSUME user \in User, NEW code \in Presented
  PROVE  /\ WithProof(code) \in User
         /\ WithProof(code).password = user.password /\ WithProof(code).secret = user.secret
         /\ WithProof(code).pending = user.pending   /\ WithProof(code).recovery = user.recovery
         /\ WithProof(code).closed = user.closed
         /\ WithProof(code).counter = IF code = NoCode THEN user.counter ELSE code
<1>1. CASE code = NoCode
  BY <1>1 DEF WithProof
<1>2. CASE code # NoCode
  <2>1. code \in Counters
    BY <1>2 DEF Presented
  <2>2. WithProof(code) = [user EXCEPT !.counter = code]
    BY <1>2 DEF WithProof
  <2>. QED BY <1>2, <2>1, <2>2 DEF User
<1>. QED BY <1>1, <1>2

LEMMA DeadRow == Dead \in Row /\ Dead.state = "dead"
  BY AccountsAssumption DEF Dead, Row, AccountsAssumption

LEMMA EndedRows ==
  ASSUME session \in [Sessions -> Row]
  PROVE  /\ AllEnded \in [Sessions -> Row]
         /\ \A t \in Sessions : AllEnded[t] \in {session[t], Dead} /\ AllEnded[t].state # "live"
  BY DeadRow DEF AllEnded

LEMMA OthersEndedRows ==
  ASSUME session \in [Sessions -> Row], NEW s \in Sessions
  PROVE  /\ OthersEnded(s) \in [Sessions -> Row]
         /\ \A t \in Sessions : OthersEnded(s)[t] \in {session[t], Dead}
         /\ \A t \in Sessions : t # s => OthersEnded(s)[t].state # "live"
         /\ OthersEnded(s)[s] = session[s]
  BY DeadRow DEF OthersEnded

-----------------------------------------------------------------------------
(* Rows.  A step in which rows only end, or stay with the credentials they *)
(* know, keeps what is claimed of them.                                    *)
Rows == LiveSessionsAreCurrent /\ SecondFactorCovered /\ SignInsAreBare /\ CeremoniesAreCurrent

LEMMA RowsEnd ==
  ASSUME Rows, account' = account,
         \A t \in Sessions : session'[t] \in {session[t], Dead},
         \/ user'.password = user.password /\ user'.secret = user.secret
         \/ \A t \in Sessions : session'[t].state # "live",
         arrived' \subseteq arrived,
         \A t \in Sessions : enrolment'[t] \in {0, enrolment[t]}
  PROVE  Rows'
<1>1. \A t \in Sessions : session'[t].state \in {"verifying", "ceremony", "live"} => session'[t] = session[t]
  BY DeadRow
<1>2. LiveSessionsAreCurrent'
  BY <1>1 DEF Rows, LiveSessionsAreCurrent, Live
<1>3. SecondFactorCovered'
  BY <1>1 DEF Rows, SecondFactorCovered, Live, Customer
<1>4. SignInsAreBare'
  BY <1>1 DEF Rows, SignInsAreBare
<1>5. CeremoniesAreCurrent'
  BY <1>1 DEF Rows, CeremoniesAreCurrent, Live
<1>. QED BY <1>2, <1>3, <1>4, <1>5 DEF Rows

(* One slot gets a row that is not live, nothing else moves.               *)
LEMMA RowsSignIn ==
  ASSUME TypeOK, Rows, NEW s \in Sessions, Free(s),
         session'[s].state \in {"verifying", "ceremony"},
         \A t \in Sessions : t # s => session'[t] = session[t],
         UNCHANGED <<account, user, arrived, enrolment>>
  PROVE  Rows'
<1>2. LiveSessionsAreCurrent'
  BY DEF Rows, LiveSessionsAreCurrent, Live
<1>3. SecondFactorCovered'
  BY DEF Rows, SecondFactorCovered, Live, Customer
<1>4. SignInsAreBare'
  BY DEF Rows, SignInsAreBare, Free
<1>5. CeremoniesAreCurrent'
  BY DEF Rows, CeremoniesAreCurrent, Live
<1>. QED BY <1>2, <1>3, <1>4, <1>5 DEF Rows

(* A sign-in becomes a live session.                                       *)
LEMMA RowsOpen ==
  ASSUME TypeOK, Rows, NEW s \in Sessions, session[s].state \in {"verifying", "ceremony"},
         NEW k, k = user.secret,
         session' = [session EXCEPT ![s] = Opened(k)],
         user'.password = user.password, user'.secret = user.secret,
         UNCHANGED <<account, arrived, enrolment>>
  PROVE  Rows'
<1>. session \in [Sessions -> Row]
  BY DEF TypeOK
<1>1. session'[s] = Opened(k) /\ \A t \in Sessions : t # s => session'[t] = session[t]
  OBVIOUS
<1>2. /\ Opened(k).state = "live" /\ Opened(k).born = user.password /\ Opened(k).factor = user.secret
      /\ Opened(k).ready = (user.secret # 0 \/ Customer)
  BY DEF Opened
<1>3. LiveSessionsAreCurrent'
  BY <1>1, <1>2 DEF Rows, LiveSessionsAreCurrent, Live
<1>4. SecondFactorCovered'
  <2>1. Customer' = Customer
    BY DEF Customer
  <2>2. ASSUME NEW t \in Sessions, Live(t)'
        PROVE  session'[t].factor = user'.secret /\ session'[t].ready = (Customer' \/ user'.secret # 0)
    <3>1. CASE t = s
      <4>1. session'[t].factor = user'.secret
        BY <1>1, <1>2, <3>1
      <4>2. session'[t].ready = (user.secret # 0 \/ Customer)
        BY <1>1, <1>2, <3>1
      <4>. QED BY <4>1, <4>2, <2>1
    <3>2. CASE t # s
      BY <1>1, <2>1, <2>2, <3>2 DEF Rows, SecondFactorCovered, Live
    <3>. QED BY <3>1, <3>2
  <2>. QED BY <2>2 DEF SecondFactorCovered
<1>5. SignInsAreBare'
  BY <1>1, <1>2 DEF Rows, SignInsAreBare
<1>6. CeremoniesAreCurrent'
  BY <1>1, <1>2 DEF Rows, CeremoniesAreCurrent, SignInsAreBare, Live
<1>. QED BY <1>3, <1>4, <1>5, <1>6 DEF Rows

LEMMA LoggedInRow ==
  ASSUME NEW s \in Sessions, MayEnter(s), NEW k
  PROVE  LoggedIn(s, k) = Opened(k)
  BY DEF MayEnter, SameHash, LoggedIn, Opened

LEMMA UserKept ==
  ASSUME user \in User, NEW code \in Presented, user' = WithProof(code)
  PROVE  user'.password = user.password /\ user'.secret = user.secret
  BY ProofFields

LEMMA Proven ==
  ASSUME now \in 1..Instants, NEW code \in Presented, Proves(code)
  PROVE  ProvenBy(code) = user.secret
  BY AccountsAssumption DEF AccountsAssumption, ProvenBy, Proves, Fits, NoCode, Presented, Counters

LEMMA SignInRows ==
  ASSUME TypeOK, Rows, SecretsInOrder, NEW s \in Sessions, SignInStep(s)
  PROVE  Rows'
<1>0. user \in User /\ session \in [Sessions -> Row] /\ now \in 1..Instants
  BY DEF TypeOK
<1>1. CASE LoginVerifies(s)
  <2>1. session'[s].state = "verifying" /\ \A t \in Sessions : t # s => session'[t] = session[t]
    BY <1>0, <1>1 DEF LoginVerifies, Dead
  <2>. QED BY <1>1, <2>1, RowsSignIn DEF LoginVerifies
<1>2. CASE LoginOpens(s)
  <2>1. session[s].state = "verifying"
    BY <1>2 DEF LoginOpens, MayEnter
  <2>2. PICK code \in Presented : /\ Proves(code) /\ user' = WithProof(code)
                                  /\ session' = [session EXCEPT ![s] = Opened(ProvenBy(code))]
    BY <1>2, LoggedInRow DEF LoginOpens, Presented
  <2>3. ProvenBy(code) = user.secret
    BY <1>0, <2>2, Proven
  <2>4. UNCHANGED <<account, arrived, enrolment>>
    BY <1>2 DEF LoginOpens
  <2>. QED BY <1>0, <2>1, <2>2, <2>3, <2>4, RowsOpen, UserKept
<1>3. CASE LoginRecovers(s)
  <2>1. session[s].state = "verifying"
    BY <1>3 DEF LoginRecovers, MayEnter
  <2>2. user'.password = user.password /\ user'.secret = user.secret
    BY <1>0, <1>3 DEF LoginRecovers, User
  <2>3. user.recovery = user.secret
    BY <1>3 DEF LoginRecovers, SecretsInOrder
  <2>4. session' = [session EXCEPT ![s] = Opened(user.recovery)] /\ UNCHANGED <<account, arrived, enrolment>>
    BY <1>3, LoggedInRow DEF LoginRecovers
  <2>. QED BY <2>1, <2>2, <2>3, <2>4, RowsOpen
<1>4. CASE PasskeyBegins(s)
  <2>1. session'[s].state = "ceremony" /\ \A t \in Sessions : t # s => session'[t] = session[t]
    BY <1>0, <1>4 DEF PasskeyBegins, Free, Dead
  <2>. QED BY <1>4, <2>1, RowsSignIn DEF PasskeyBegins
<1>5. CASE PasskeyOpens(s)
  <2>1. session[s].state = "ceremony"
    BY <1>5 DEF PasskeyOpens
  <2>2. PICK code \in Presented : /\ Proves(code) /\ user' = WithProof(code)
                                  /\ session' = [session EXCEPT ![s] = Opened(ProvenBy(code))]
    BY <1>5 DEF PasskeyOpens, Presented
  <2>3. ProvenBy(code) = user.secret
    BY <1>0, <2>2, Proven
  <2>4. UNCHANGED <<account, arrived, enrolment>>
    BY <1>5 DEF PasskeyOpens
  <2>. QED BY <1>0, <2>1, <2>2, <2>3, <2>4, RowsOpen, UserKept
<1>6. CASE SignInFails(s)
  BY <1>0, <1>6, RowsEnd DEF SignInFails
<1>. QED BY <1>1, <1>2, <1>3, <1>4, <1>5, <1>6 DEF SignInStep

(* A request under proof that opens nothing.                               *)
LEMMA ActsFacts ==
  ASSUME NEW s \in Sessions, Acts(s)
  PROVE  /\ s \in arrived /\ Live(s) /\ arrived' = arrived \ {s}
         /\ UNCHANGED <<account, now, challenge, reset, recovered>>
  BY DEF Acts, StillLive, Live

LEMMA RequestRows ==
  ASSUME TypeOK, Rows, SecretsInOrder, NEW s \in Sessions, RequestStep(s)
  PROVE  Rows'
<1>0. user \in User /\ session \in [Sessions -> Row] /\ enrolment \in [Sessions -> 0..Passwords]
  BY DEF TypeOK
<1>1. CASE Authenticate(s)
  <2>1. SignInsAreBare'
    BY <1>1 DEF Authenticate, Rows, SignInsAreBare
  <2>. QED BY <1>1, <2>1 DEF Authenticate, Rows, LiveSessionsAreCurrent, SecondFactorCovered,
                            CeremoniesAreCurrent, Live, Customer
<1>2. CASE RequestEnds(s)
  BY <1>0, <1>2, RowsEnd DEF RequestEnds
<1>3. CASE MFAStart(s)
  <2>1. PICK code \in Presented : Acts(s) /\ user' = [WithProof(code) EXCEPT !.pending = made + 1]
    BY <1>3 DEF MFAStart, ActsWithProof, Presented
  <2>2. user'.password = user.password /\ user'.secret = user.secret
    BY <1>0, <2>1, ProofFields DEF User
  <2>. QED BY <1>3, <2>1, <2>2, ActsFacts, RowsEnd DEF MFAStart
<1>4. CASE MFAConfirm(s)
  <2>1. Acts(s) /\ user.pending # 0 /\ session' = ConfirmedSessions(s) /\ UNCHANGED enrolment
    BY <1>4 DEF MFAConfirm
  <2>2. PICK code \in Counters : user' = Confirmed(code)
    BY <1>4 DEF MFAConfirm
  <2>3. user'.password = user.password /\ user'.secret = user.pending
    BY <1>0, <2>2 DEF Confirmed, User
  <2>4. /\ session'[s].state = "live" /\ session'[s].born = session[s].born
        /\ session'[s].factor = user.pending /\ session'[s].ready = TRUE
        /\ \A t \in Sessions : t # s => session'[t] \in {session[t], Dead} /\ session'[t].state # "live"
    <3>1. \A t \in Sessions : t # s => session'[t] = OthersEnded(s)[t]
      BY <1>0, <2>1, OthersEndedRows DEF ConfirmedSessions
    <3>2. session'[s] = [session[s] EXCEPT !.ready = TRUE, !.factor = user.pending]
      BY <1>0, <2>1, OthersEndedRows DEF ConfirmedSessions
    <3>3. session[s].state = "live" /\ session[s] \in Row
      BY <1>0, <2>1, ActsFacts DEF Live
    <3>. QED BY <1>0, <3>1, <3>2, <3>3, OthersEndedRows DEF Row
  <2>5. LiveSessionsAreCurrent'
    BY <2>1, <2>3, <2>4, ActsFacts DEF Rows, LiveSessionsAreCurrent, Live
  <2>6. SecondFactorCovered'
    <3>1. Live(s)' => session'[s].factor = user'.secret
      BY <2>3, <2>4
    <3>2. user'.secret # 0 /\ session'[s].ready = TRUE
      BY <2>1, <2>3, <2>4
    <3>3. session'[s].ready = (Customer' \/ user'.secret # 0)
      BY <3>2
    <3>. QED BY <2>4, <3>1, <3>3 DEF SecondFactorCovered, Live
  <2>7. SignInsAreBare'
    BY <2>1, <2>4, DeadRow, ActsFacts DEF Rows, SignInsAreBare, Live
  <2>8. CeremoniesAreCurrent'
    BY <2>1, <2>3, <2>4, ActsFacts DEF Rows, CeremoniesAreCurrent, Live
  <2>. QED BY <2>5, <2>6, <2>7, <2>8 DEF Rows
<1>5. CASE ChangePassword(s)
  BY <1>0, <1>5, ActsFacts, EndedRows, RowsEnd DEF ChangePassword, ActsWithProof
<1>6. CASE SpendsProof(s)
  BY <1>0, <1>6, ActsFacts, UserKept, RowsEnd DEF SpendsProof, ActsWithProof, Presented
<1>7. CASE ChangePIN(s)
  BY <1>0, <1>7, ActsFacts, EndedRows, RowsEnd DEF ChangePIN, ActsWithProof
<1>8. CASE SignOutAll(s)
  BY <1>0, <1>8, ActsFacts, EndedRows, RowsEnd DEF SignOutAll
<1>9. CASE CloseAccount(s)
  BY <1>0, <1>9, ActsFacts, EndedRows, RowsEnd DEF CloseAccount, ActsWithProof
<1>10. CASE SecureAccount(s)
  BY <1>0, <1>10, ActsFacts, OthersEndedRows, UserKept, RowsEnd DEF SecureAccount, ActsWithProof, Presented
<1>11. CASE RevokePasskey(s)
  BY <1>0, <1>11, ActsFacts, OthersEndedRows, UserKept, RowsEnd DEF RevokePasskey, ActsWithProof, Presented
<1>12. CASE \E t \in Sessions : RevokeSession(s, t)
  BY <1>0, <1>12, RowsEnd DEF RevokeSession
<1>13. CASE \E t \in Sessions : Enrols(s, t)
  BY <1>0, <1>13, ActsFacts, RowsEnd DEF Enrols
<1>14. CASE EnrolmentBegins(s)
  <2>1. user'.password = user.password /\ user'.secret = user.secret
    BY <1>0, <1>14, UserKept DEF EnrolmentBegins, ActsWithProof, Presented
  <2>2. Live(s) /\ arrived' = arrived \ {s} /\ UNCHANGED <<account, session>>
    BY <1>14, ActsFacts DEF EnrolmentBegins, ActsWithProof
  <2>3. enrolment'[s] = user.password /\ \A t \in Sessions : t # s => enrolment'[t] = enrolment[t]
    BY <1>0, <1>14 DEF EnrolmentBegins
  <2>4. SignInsAreBare'
    BY <2>2, <2>3 DEF Rows, SignInsAreBare, Live
  <2>5. CeremoniesAreCurrent'
    BY <2>1, <2>2, <2>3 DEF Rows, CeremoniesAreCurrent, Live
  <2>. QED BY <2>1, <2>2, <2>4, <2>5 DEF Rows, LiveSessionsAreCurrent, SecondFactorCovered, Live, Customer
<1>15. CASE EnrolmentEnds(s)
  BY <1>0, <1>15, RowsEnd DEF EnrolmentEnds
<1>. QED BY <1>1, <1>2, <1>3, <1>4, <1>5, <1>6, <1>7, <1>8, <1>9, <1>10, <1>11, <1>12, <1>13, <1>14, <1>15
         DEF RequestStep

OtherStep == \/ \E s \in Sessions : SessionEnds(s)
             \/ \E i \in 1..Challenges : ChallengeStep(i)
             \/ StaffEndSessions \/ AcceptStaffRecovery \/ PendingLapses \/ Tick

LEMMA OtherRows ==
  ASSUME TypeOK, Rows, OtherStep
  PROVE  Rows'
<1>0. user \in User /\ session \in [Sessions -> Row]
  BY DEF TypeOK
<1>1. CASE \E s \in Sessions : SessionEnds(s)
  BY <1>0, <1>1, RowsEnd DEF SessionEnds
<1>2. ASSUME NEW i \in 1..Challenges, ChallengeStep(i)
      PROVE  Rows'
  <2>1. CASE RequestChallenge(i) \/ ChallengeLapses(i)
    BY <1>0, <2>1, RowsEnd DEF RequestChallenge, ChallengeLapses
  <2>2. CASE \E j \in 0..Challenges : VerifyChallenge(i, j)
    <3>1. UNCHANGED <<account, arrived, enrolment>> /\ (UNCHANGED <<user, session>> \/ session' = AllEnded)
      BY <2>2 DEF VerifyChallenge
    <3>. QED BY <1>0, <3>1, EndedRows, RowsEnd
  <2>. QED BY <1>2, <2>1, <2>2 DEF ChallengeStep
<1>3. CASE StaffEndSessions
  BY <1>0, <1>3, EndedRows, RowsEnd DEF StaffEndSessions
<1>4. CASE AcceptStaffRecovery
  BY <1>0, <1>4, EndedRows, RowsEnd DEF AcceptStaffRecovery, RecoveredSessions
<1>5. CASE PendingLapses
  <2>1. user'.password = user.password /\ user'.secret = user.secret
    BY <1>0, <1>5 DEF PendingLapses, User
  <2>. QED BY <1>0, <1>5, <2>1, RowsEnd DEF PendingLapses
<1>6. CASE Tick
  BY <1>0, <1>6, RowsEnd DEF Tick
<1>. QED BY <1>1, <1>2, <1>3, <1>4, <1>5, <1>6 DEF OtherStep

-----------------------------------------------------------------------------
(* Codes.  A step that presents a proof accepts a later code of the current*)
(* secret, or none.                                                        *)
Codes == SecretsInOrder /\ CodesCounted

CodeTypes == /\ user \in User /\ made \in 0..Secrets /\ now \in 1..Instants
             /\ accepted \in [1..Secrets -> [Counters -> Nat]]
             /\ recovered \in [1..Secrets -> Nat]

LEMMA CodesSame ==
  ASSUME Codes, UNCHANGED <<made, accepted, recovered>>,
         user'.secret = user.secret, user'.pending = user.pending,
         user'.counter = user.counter, user'.recovery = user.recovery
  PROVE  Codes'
  BY DEF Codes, SecretsInOrder, CodesCounted, CodesWorkOnce

LEMMA CodesProof ==
  ASSUME CodeTypes, Codes, NEW code \in Presented, Proves(code), CountCode(user.secret, code),
         user'.secret = user.secret, user'.recovery = user.recovery,
         user'.counter = (IF code = NoCode THEN user.counter ELSE code),
         UNCHANGED recovered,
         \/ made' = made /\ user'.pending = user.pending
         \/ made' = made + 1 /\ user'.pending = made + 1
  PROVE  Codes'
<1>. USE AccountsAssumption DEF AccountsAssumption
<1>1. user.secret \in 0..Secrets /\ user.pending \in 0..Secrets /\ user.recovery \in 0..Secrets
      /\ user.counter \in Int /\ made \in Nat
  BY CountersAreNat DEF CodeTypes, User, Counters
<1>2. SecretsInOrder'
  BY <1>1 DEF Codes, SecretsInOrder
<1>3. CASE code = NoCode
  <2>1. accepted' = accepted /\ user'.counter = user.counter
    BY <1>3 DEF CountCode
  <2>. QED BY <1>1, <1>2, <2>1 DEF Codes, CodesCounted, CodesWorkOnce, SecretsInOrder
<1>4. CASE code # NoCode
  <2>1. code \in Counters /\ code \in Nat /\ user'.counter = code
    BY <1>4, CountersAreNat DEF Presented
  <2>2. user.secret \in 1..Secrets /\ code > user.counter
    BY <1>1, <1>4 DEF Proves, Fits
  <2>3. \A k \in 1..Secrets, c \in Counters :
          accepted'[k][c] = IF k = user.secret /\ c = code THEN accepted[k][c] + 1 ELSE accepted[k][c]
    BY <1>4, <2>1, <2>2 DEF CountCode, CodeTypes
  <2>4. accepted[user.secret][code] = 0
    <3>1. accepted[user.secret][code] # 1
      BY <1>1, <2>1, <2>2 DEF Codes, CodesCounted
    <3>2. accepted[user.secret][code] \in Nat /\ accepted[user.secret][code] <= 1
      BY <2>1, <2>2 DEF Codes, CodesCounted, CodesWorkOnce, CodeTypes
    <3>. QED BY <3>1, <3>2
  <2>5. CodesWorkOnce'
    BY <2>3, <2>4 DEF Codes, CodesCounted, CodesWorkOnce
  <2>6. user.secret <= made /\ user.secret # user.pending /\ user.secret # user'.pending
    BY <1>1, <2>2 DEF Codes, SecretsInOrder
  <2>7. ASSUME NEW k \in 1..Secrets, k > made' \/ k = user'.pending
        PROVE  recovered'[k] = 0 /\ \A c \in Counters : accepted'[k][c] = 0
    <3>1. k > made \/ k = user.pending
      BY <1>1, <2>7
    <3>2. k # user.secret
      BY <1>1, <2>6, <3>1
    <3>. QED BY <2>3, <3>1, <3>2 DEF Codes, CodesCounted
  <2>8. ASSUME NEW c \in Counters, user'.secret # 0, accepted'[user'.secret][c] = 1
        PROVE  c <= user'.counter
    <3>1. CASE c = code
      BY <2>1, <3>1
    <3>2. CASE c # code
      <4>1. accepted[user.secret][c] = 1
        BY <2>2, <2>3, <2>8, <3>2
      <4>2. c <= user.counter
        BY <2>2, <4>1 DEF Codes, CodesCounted
      <4>. QED BY <1>1, <2>1, <2>2, <4>2, CountersAreNat
    <3>. QED BY <3>1, <3>2
  <2>9. user'.recovery # 0 => recovered'[user'.recovery] = 0
    BY DEF Codes, CodesCounted
  <2>. QED BY <1>2, <2>5, <2>7, <2>8, <2>9 DEF Codes, CodesCounted
<1>. QED BY <1>3, <1>4

(* The recovery code of the set is used up.                                *)
LEMMA CodesRecovery ==
  ASSUME CodeTypes, Codes, user.secret # 0, user.recovery # 0,
         user' = [user EXCEPT !.recovery = 0],
         recovered' = [recovered EXCEPT ![user.recovery] = @ + 1],
         UNCHANGED <<made, accepted>>
  PROVE  Codes'
<1>. USE AccountsAssumption DEF AccountsAssumption
<1>1. user.recovery = user.secret /\ user.recovery \in 1..Secrets /\ user.secret <= made
      /\ user.secret # user.pending /\ made \in Nat /\ user.pending \in 0..Secrets
  BY DEF CodeTypes, User, Codes, SecretsInOrder
<1>2. /\ user'.secret = user.secret /\ user'.pending = user.pending
      /\ user'.counter = user.counter /\ user'.recovery = 0
  BY DEF CodeTypes, User
<1>3. \A k \in 1..Secrets : recovered'[k] = IF k = user.recovery THEN 1 ELSE recovered[k]
  BY <1>1 DEF CodeTypes, Codes, CodesCounted
<1>4. SecretsInOrder'
  BY <1>2 DEF Codes, SecretsInOrder
<1>5. CodesWorkOnce'
  BY <1>3 DEF Codes, CodesCounted, CodesWorkOnce
<1>6. ASSUME NEW k \in 1..Secrets, k > made' \/ k = user'.pending
      PROVE  recovered'[k] = 0 /\ \A c \in Counters : accepted'[k][c] = 0
  BY <1>1, <1>2, <1>3, <1>6 DEF Codes, CodesCounted
<1>. QED BY <1>2, <1>4, <1>5, <1>6 DEF Codes, CodesCounted

(* The pending secret, of which no code was used, becomes the current one. *)
LEMMA CodesConfirm ==
  ASSUME CodeTypes, Codes, NEW code \in Counters, user.pending # 0,
         user' = Confirmed(code), CountCode(user.pending, code),
         UNCHANGED <<made, recovered>>
  PROVE  Codes'
<1>. USE AccountsAssumption DEF AccountsAssumption
<1>1. user.pending \in 1..Secrets /\ user.pending = made /\ made \in Nat /\ code \in Nat /\ code # NoCode
  BY CountersAreNat DEF CodeTypes, User, Codes, SecretsInOrder
<1>2. /\ user'.secret = user.pending /\ user'.pending = 0
      /\ user'.counter = code /\ user'.recovery = user.pending
  BY DEF CodeTypes, User, Confirmed
<1>3. \A k \in 1..Secrets, c \in Counters :
        accepted'[k][c] = IF k = user.pending /\ c = code THEN 1 ELSE accepted[k][c]
  <2>1. accepted[user.pending][code] = 0
    BY <1>1 DEF Codes, CodesCounted
  <2>. QED BY <1>1, <2>1 DEF CountCode, CodeTypes
<1>4. SecretsInOrder'
  BY <1>1, <1>2 DEF SecretsInOrder
<1>5. CodesWorkOnce'
  BY <1>3 DEF Codes, CodesCounted, CodesWorkOnce
<1>6. ASSUME NEW k \in 1..Secrets, k > made' \/ k = user'.pending
      PROVE  recovered'[k] = 0 /\ \A c \in Counters : accepted'[k][c] = 0
  <2>1. k > made
    BY <1>2, <1>6
  <2>. QED BY <1>1, <1>3, <2>1 DEF Codes, CodesCounted
<1>7. ASSUME NEW c \in Counters, accepted'[user'.secret][c] = 1
      PROVE  c <= user'.counter
  <2>1. accepted[user.pending][c] = 0
    BY <1>1 DEF Codes, CodesCounted
  <2>2. accepted'[user.pending][c] = IF c = code THEN 1 ELSE 0
    BY <1>1, <1>3, <2>1
  <2>3. c = code
    BY <1>2, <1>7, <2>2
  <2>. QED BY <1>1, <1>2, <2>3
<1>8. recovered'[user'.recovery] = 0
  BY <1>1, <1>2 DEF Codes, CodesCounted
<1>. QED BY <1>4, <1>5, <1>6, <1>7, <1>8 DEF Codes, CodesCounted

LEMMA CodesStep ==
  ASSUME TypeOK, Codes, Next
  PROVE  Codes'
<1>0. CodeTypes
  BY DEF TypeOK, CodeTypes
<1>. USE <1>0
<1>p. \A code \in Presented : /\ WithProof(code).password = user.password /\ WithProof(code).secret = user.secret
                              /\ WithProof(code).pending = user.pending   /\ WithProof(code).recovery = user.recovery
                              /\ WithProof(code).counter = IF code = NoCode THEN user.counter ELSE code
                              /\ WithProof(code) \in User
  BY ProofFields DEF CodeTypes
<1>1. ASSUME NEW s \in Sessions, LoginOpens(s) \/ PasskeyOpens(s)
      PROVE  Codes'
  <2>1. PICK code \in Presented : Proves(code) /\ CountCode(user.secret, code) /\ user' = WithProof(code)
    BY <1>1 DEF LoginOpens, PasskeyOpens, Presented
  <2>. QED BY <1>1, <1>p, <2>1, CodesProof DEF LoginOpens, PasskeyOpens
<1>2. ASSUME NEW s \in Sessions, LoginRecovers(s)
      PROVE  Codes'
  BY <1>2, CodesRecovery DEF LoginRecovers
<1>3. ASSUME NEW s \in Sessions, LoginVerifies(s) \/ PasskeyBegins(s) \/ SignInFails(s)
      PROVE  Codes'
  BY <1>3, CodesSame DEF LoginVerifies, PasskeyBegins, SignInFails
<1>4. ASSUME NEW s \in Sessions, MFAStart(s)
      PROVE  Codes'
  <2>1. PICK code \in Presented : /\ Proves(code) /\ CountCode(user.secret, code)
                                  /\ user' = [WithProof(code) EXCEPT !.pending = made + 1]
                                  /\ UNCHANGED recovered
    BY <1>4 DEF MFAStart, ActsWithProof, Acts, Presented
  <2>2. /\ user'.secret = user.secret /\ user'.recovery = user.recovery /\ user'.pending = made + 1
        /\ user'.counter = IF code = NoCode THEN user.counter ELSE code
    BY <1>p, <2>1 DEF User
  <2>. QED BY <1>4, <2>1, <2>2, CodesProof DEF MFAStart
<1>5. ASSUME NEW s \in Sessions, MFAConfirm(s)
      PROVE  Codes'
  <2>1. PICK code \in Counters : user' = Confirmed(code) /\ CountCode(user.pending, code)
    BY <1>5 DEF MFAConfirm
  <2>. QED BY <1>5, <2>1, CodesConfirm DEF MFAConfirm, Acts
<1>6. ASSUME NEW s \in Sessions, ChangePassword(s)
      PROVE  Codes'
  <2>1. PICK code \in Presented : /\ Proves(code) /\ CountCode(user.secret, code)
                                  /\ user' = [WithProof(code) EXCEPT !.password = @ + 1]
                                  /\ UNCHANGED recovered
    BY <1>6 DEF ChangePassword, ActsWithProof, Acts, Presented
  <2>2. /\ user'.secret = user.secret /\ user'.recovery = user.recovery /\ user'.pending = user.pending
        /\ user'.counter = IF code = NoCode THEN user.counter ELSE code
    BY <1>p, <2>1 DEF User
  <2>. QED BY <1>6, <2>1, <2>2, CodesProof DEF ChangePassword
<1>7. ASSUME NEW s \in Sessions, CloseAccount(s)
      PROVE  Codes'
  <2>1. PICK code \in Presented : /\ Proves(code) /\ CountCode(user.secret, code)
                                  /\ user' = [WithProof(code) EXCEPT !.closed = TRUE]
                                  /\ UNCHANGED recovered
    BY <1>7 DEF CloseAccount, ActsWithProof, Acts, Presented
  <2>2. /\ user'.secret = user.secret /\ user'.recovery = user.recovery /\ user'.pending = user.pending
        /\ user'.counter = IF code = NoCode THEN user.counter ELSE code
    BY <1>p, <2>1 DEF User
  <2>. QED BY <1>7, <2>1, <2>2, CodesProof DEF CloseAccount
<1>8. ASSUME NEW s \in Sessions,
             SpendsProof(s) \/ ChangePIN(s) \/ SecureAccount(s) \/ RevokePasskey(s) \/ EnrolmentBegins(s)
      PROVE  Codes'
  <2>1. PICK code \in Presented : /\ Proves(code) /\ CountCode(user.secret, code)
                                  /\ user' = WithProof(code) /\ UNCHANGED <<recovered, made>>
    BY <1>8 DEF SpendsProof, ChangePIN, SecureAccount, RevokePasskey, EnrolmentBegins, ActsWithProof, Acts,
                Presented
  <2>. QED BY <1>p, <2>1, CodesProof
<1>9. ASSUME NEW s \in Sessions,
             \/ Authenticate(s) \/ RequestEnds(s) \/ SignOutAll(s) \/ EnrolmentEnds(s) \/ SessionEnds(s)
             \/ \E t \in Sessions : RevokeSession(s, t) \/ Enrols(s, t)
      PROVE  Codes'
  BY <1>9, CodesSame DEF Authenticate, RequestEnds, SignOutAll, EnrolmentEnds, SessionEnds, RevokeSession,
                         Enrols, Acts
<1>10. ASSUME NEW i \in 1..Challenges, ChallengeStep(i)
       PROVE  Codes'
  <2>1. CASE RequestChallenge(i) \/ ChallengeLapses(i)
    BY <2>1, CodesSame DEF RequestChallenge, ChallengeLapses
  <2>2. CASE \E j \in 0..Challenges : VerifyChallenge(i, j)
    <3>1. UNCHANGED <<made, accepted, recovered>> /\ (UNCHANGED user \/ user' = [user EXCEPT !.password = @ + 1])
      BY <2>2 DEF VerifyChallenge
    <3>2. /\ user'.secret = user.secret /\ user'.pending = user.pending
          /\ user'.counter = user.counter /\ user'.recovery = user.recovery
      BY <3>1 DEF CodeTypes, User
    <3>. QED BY <3>1, <3>2, CodesSame
  <2>. QED BY <1>10, <2>1, <2>2 DEF ChallengeStep
<1>11. CASE StaffEndSessions \/ Tick
  BY <1>11, CodesSame DEF StaffEndSessions, Tick
<1>12. CASE AcceptStaffRecovery \/ PendingLapses
  <2>1. /\ UNCHANGED <<made, accepted, recovered>>
        /\ user'.pending = 0
        /\ \/ /\ user'.secret = user.secret /\ user'.counter = user.counter /\ user'.recovery = user.recovery
           \/ user'.secret = 0 /\ user'.recovery = 0
    BY <1>12 DEF AcceptStaffRecovery, PendingLapses, CodeTypes, User
  <2>2. made \in Nat
    BY DEF CodeTypes
  <2>3. SecretsInOrder'
    BY <2>1, <2>2 DEF Codes, SecretsInOrder
  <2>. QED BY <2>1, <2>3 DEF Codes, CodesCounted, CodesWorkOnce
<1>. QED BY <1>1, <1>2, <1>3, <1>4, <1>5, <1>6, <1>7, <1>8, <1>9, <1>10, <1>11, <1>12
         DEF Next, SignInStep, RequestStep
-----------------------------------------------------------------------------
(* Reset codes.  A row that was issued keeps others as they are.           *)
LEMMA ChallengeMoves ==
  ASSUME NewestWaits, NEW i \in 1..Challenges, Waiting(i),
         challenge'[i].state \in {"open", "lapsed", "consumed"},
         \A k \in 1..Challenges : k # i => challenge'[k] = challenge[k] /\ reset'[k] = reset[k],
         challenge'[i].state # "consumed" => reset'[i] = reset[i]
  PROVE  NewestWaits'
<1>1. \A k \in 1..Challenges : Issued(k)' <=> Issued(k)
  BY DEF Issued, Waiting
<1>2. \A k \in 1..Challenges : Waiting(k)' => Waiting(k)
  BY DEF Waiting
<1>3. ASSUME NEW k \in 1..Challenges, Waiting(k)'
      PROVE  Newest(k)'
  <2>1. Newest(k)
    BY <1>2, <1>3 DEF NewestWaits
  <2>. QED BY <1>1, <2>1 DEF Newest
<1>4. ASSUME NEW k \in 1..Challenges, Issued(k)', NEW j \in 1..k
      PROVE  Issued(j)'
  <2>1. j \in 1..Challenges
    BY AccountsAssumption DEF AccountsAssumption
  <2>. QED BY <1>1, <1>4, <2>1 DEF NewestWaits
<1>5. ASSUME NEW k \in 1..Challenges, Waiting(k)' \/ ~Issued(k)'
      PROVE  reset'[k] = 0
  <2>1. reset[k] = 0
    BY <1>1, <1>2, <1>5 DEF NewestWaits
  <2>2. CASE k = i
    <3>1. Waiting(i)'
      BY <1>1, <1>5, <2>2 DEF Waiting, Issued
    <3>. QED BY <2>1, <2>2, <3>1 DEF Waiting
  <2>. QED BY <2>1, <2>2
<1>. QED BY <1>3, <1>4, <1>5 DEF NewestWaits

LEMMA RequestMoves ==
  ASSUME TypeOK, NewestWaits, NEW i \in 1..Challenges, RequestChallenge(i)
  PROVE  NewestWaits'
<1>. USE AccountsAssumption DEF AccountsAssumption
<1>1. /\ challenge'[i].state = "open" /\ ~Issued(i) /\ UNCHANGED reset
      /\ \A k \in 1..Challenges : k # i => challenge'[k].state = IF Waiting(k) THEN "consumed" ELSE challenge[k].state
      /\ \A j \in 1..i - 1 : Issued(j)
  <2>1. \A k \in 1..Challenges : challenge[k] \in ChallengeRow
    BY DEF TypeOK
  <2>2. \A k \in 1..Challenges : Replaced[k].state = IF Waiting(k) THEN "consumed" ELSE challenge[k].state
    BY <2>1 DEF Replaced, ChallengeRow
  <2>3. challenge' = [Replaced EXCEPT ![i] = [state |-> "open", attempts |-> 0]]
    BY DEF RequestChallenge
  <2>4. challenge'[i] = [state |-> "open", attempts |-> 0]
    BY <2>3 DEF Replaced
  <2>5. \A k \in 1..Challenges : k # i => challenge'[k] = Replaced[k]
    BY <2>3 DEF Replaced
  <2>6. ~Issued(i) /\ UNCHANGED reset /\ \A j \in 1..i - 1 : Issued(j)
    BY DEF RequestChallenge
  <2>. QED BY <2>2, <2>4, <2>5, <2>6
<1>2. \A k \in 1..Challenges : Issued(k)' <=> Issued(k) \/ k = i
  BY <1>1 DEF Issued, Waiting
<1>3. \A k \in 1..Challenges : Waiting(k)' => k = i
  BY <1>1 DEF Waiting
<1>4. \A k \in 1..Challenges : k > i => ~Issued(k)
  BY <1>1 DEF NewestWaits
<1>5. \A k \in 1..Challenges : Waiting(k)' => Newest(k)'
  BY <1>2, <1>3, <1>4 DEF Newest
<1>6. \A k \in 1..Challenges : Issued(k)' => \A j \in 1..k : Issued(j)'
  <2>1. ASSUME NEW k \in 1..Challenges, Issued(k)', NEW j \in 1..k
        PROVE  Issued(j)'
    <3>1. j \in 1..Challenges
      OBVIOUS
    <3>2. CASE k = i
      BY <1>1, <1>2, <3>1, <3>2
    <3>3. CASE k # i
      BY <1>2, <2>1, <3>1, <3>3 DEF NewestWaits
    <3>. QED BY <3>2, <3>3
  <2>. QED BY <2>1
<1>7. \A k \in 1..Challenges : Waiting(k)' \/ ~Issued(k)' => reset'[k] = 0
  BY <1>1, <1>2, <1>3 DEF NewestWaits
<1>. QED BY <1>5, <1>6, <1>7 DEF NewestWaits

LEMMA ChallengesStep ==
  ASSUME TypeOK, NewestWaits, Next
  PROVE  NewestWaits'
<1>0. /\ \A k \in 1..Challenges : challenge[k] \in ChallengeRow
      /\ challenge \in [1..Challenges -> ChallengeRow] /\ reset \in [1..Challenges -> Nat]
  BY DEF TypeOK
<1>1. ASSUME UNCHANGED <<challenge, reset>>
      PROVE  NewestWaits'
  BY <1>1 DEF NewestWaits, Waiting, Issued, Newest
<1>2. ASSUME NEW s \in Sessions, SignInStep(s) \/ RequestStep(s) \/ SessionEnds(s)
      PROVE  UNCHANGED <<challenge, reset>>
  BY <1>2 DEF SignInStep, LoginVerifies, LoginOpens, LoginRecovers, PasskeyBegins, PasskeyOpens, SignInFails,
              RequestStep, Authenticate, RequestEnds, MFAStart, MFAConfirm, ChangePassword, SpendsProof,
              ChangePIN, SignOutAll, CloseAccount, SecureAccount, RevokePasskey, RevokeSession, Enrols,
              EnrolmentBegins, EnrolmentEnds, SessionEnds, ActsWithProof, Acts
<1>3. ASSUME StaffEndSessions \/ AcceptStaffRecovery \/ PendingLapses \/ Tick
      PROVE  UNCHANGED <<challenge, reset>>
  BY <1>3 DEF StaffEndSessions, AcceptStaffRecovery, PendingLapses, Tick
<1>4. ASSUME NEW i \in 1..Challenges, ChallengeStep(i)
      PROVE  NewestWaits'
  <2>1. CASE RequestChallenge(i)
    BY <2>1, RequestMoves
  <2>2. CASE ChallengeLapses(i)
    <3>1. Waiting(i) /\ UNCHANGED reset
      BY <2>2 DEF ChallengeLapses
    <3>2. /\ challenge'[i].state \in {"lapsed", "consumed"}
          /\ \A k \in 1..Challenges : k # i => challenge'[k] = challenge[k]
      BY <1>0, <2>2 DEF ChallengeLapses, ChallengeRow
    <3>. QED BY <3>1, <3>2, ChallengeMoves
  <2>3. ASSUME NEW j \in 0..Challenges, VerifyChallenge(i, j)
        PROVE  NewestWaits'
    <3>1. Waiting(i)
      BY <2>3 DEF VerifyChallenge, Answers
    <3>2. \A k \in 1..Challenges : k # i => challenge'[k] = challenge[k] /\ reset'[k] = reset[k]
      BY <1>0, <2>3 DEF VerifyChallenge
    <3>3. /\ challenge'[i].state \in {"open", "consumed"}
          /\ challenge'[i].state # "consumed" => reset' = reset
      <4>1. CASE challenge' = [challenge EXCEPT ![i].state = "consumed"]
        <5>1. challenge'[i] = [challenge[i] EXCEPT !.state = "consumed"]
          BY <1>0, <4>1
        <5>. QED BY <1>0, <5>1 DEF ChallengeRow
      <4>2. CASE /\ challenge[i].state = "open" /\ UNCHANGED reset
                 /\ challenge' = [challenge EXCEPT ![i].attempts = IF @ < AttemptLimit THEN @ + 1 ELSE @]
        <5>1. PICK n : challenge'[i] = [challenge[i] EXCEPT !.attempts = n]
          BY <1>0, <4>2
        <5>. QED BY <1>0, <4>2, <5>1 DEF ChallengeRow
      <4>. QED BY <2>3, <4>1, <4>2 DEF VerifyChallenge
    <3>. QED BY <3>1, <3>2, <3>3, ChallengeMoves
  <2>. QED BY <1>4, <2>1, <2>2, <2>3 DEF ChallengeStep
<1>. QED BY <1>1, <1>2, <1>3, <1>4 DEF Next
-----------------------------------------------------------------------------
(* Types.                                                                  *)
LEMMA CountTyped ==
  ASSUME CodeTypes, NEW code \in Presented, NEW k \in 0..Secrets, CountCode(k, code), k = 0 => code = NoCode
  PROVE  accepted' \in [1..Secrets -> [Counters -> Nat]]
<1>1. CASE code = NoCode
  BY <1>1 DEF CountCode, CodeTypes
<1>2. CASE code # NoCode
  <2>1. code \in Counters /\ k \in 1..Secrets
    BY <1>2, AccountsAssumption DEF Presented, AccountsAssumption
  <2>2. accepted' = [accepted EXCEPT ![k][code] = @ + 1]
    BY <1>2 DEF CountCode
  <2>. QED BY <2>1, <2>2 DEF CodeTypes
<1>. QED BY <1>1, <1>2

LEMMA ProofTyped ==
  ASSUME CodeTypes, NEW code \in Presented, Proves(code), CountCode(user.secret, code)
  PROVE  /\ accepted' \in [1..Secrets -> [Counters -> Nat]]
         /\ WithProof(code) \in User
<1>1. user.secret \in 0..Secrets /\ (user.secret = 0 => code = NoCode)
  BY DEF CodeTypes, User, Proves
<1>2. accepted' \in [1..Secrets -> [Counters -> Nat]]
  BY <1>1, CountTyped
<1>3. WithProof(code) \in User
  BY ProofFields DEF CodeTypes
<1>. QED BY <1>2, <1>3

LEMMA CodeTypesStep ==
  ASSUME TypeOK, Next
  PROVE  user' \in User /\ made' \in 0..Secrets /\ accepted' \in [1..Secrets -> [Counters -> Nat]]
         /\ recovered' \in [1..Secrets -> Nat]
<1>0. CodeTypes
  BY DEF TypeOK, CodeTypes
<1>00. /\ user \in User /\ made \in 0..Secrets /\ accepted \in [1..Secrets -> [Counters -> Nat]]
       /\ recovered \in [1..Secrets -> Nat]
       /\ account.passwords \in 1..Passwords /\ account.secrets \in 0..Secrets
  BY AccountsAssumption DEF TypeOK, AccountsAssumption
<1>01. 0 \in 0..Secrets
  BY AccountsAssumption DEF AccountsAssumption
<1>02. user.password < account.passwords => user.password + 1 \in 1..Passwords
  BY <1>00, AccountsAssumption DEF User, AccountsAssumption
<1>. USE <1>00
<1>. DEFINE Typed == /\ user' \in User /\ made' \in 0..Secrets
                     /\ accepted' \in [1..Secrets -> [Counters -> Nat]]
                     /\ recovered' \in [1..Secrets -> Nat]
<1>1. ASSUME NEW s \in Sessions, LoginOpens(s) \/ PasskeyOpens(s)
      PROVE  Typed
  <2>1. PICK code \in Presented : Proves(code) /\ CountCode(user.secret, code) /\ user' = WithProof(code)
    BY <1>1 DEF LoginOpens, PasskeyOpens, Presented
  <2>. QED BY <1>0, <1>1, <2>1, ProofTyped DEF LoginOpens, PasskeyOpens
<1>2. ASSUME NEW s \in Sessions, LoginRecovers(s)
      PROVE  Typed
  <2>1. user.recovery \in 1..Secrets /\ user' = [user EXCEPT !.recovery = 0]
        /\ recovered' = [recovered EXCEPT ![user.recovery] = @ + 1] /\ UNCHANGED <<made, accepted>>
    BY <1>2, AccountsAssumption DEF LoginRecovers, User, AccountsAssumption
  <2>2. user' \in User
    BY <1>01, <2>1 DEF User
  <2>. QED BY <2>1, <2>2
<1>3. ASSUME NEW s \in Sessions, LoginVerifies(s) \/ PasskeyBegins(s) \/ SignInFails(s)
      PROVE  Typed
  BY <1>3 DEF LoginVerifies, PasskeyBegins, SignInFails
<1>4. ASSUME NEW s \in Sessions, MFAStart(s)
      PROVE  Typed
  <2>1. PICK code \in Presented : /\ Proves(code) /\ CountCode(user.secret, code)
                                  /\ user' = [WithProof(code) EXCEPT !.pending = made + 1]
                                  /\ UNCHANGED recovered
    BY <1>4 DEF MFAStart, ActsWithProof, Acts, Presented
  <2>2. made' = made + 1 /\ made + 1 \in 0..Secrets
    BY <1>4, AccountsAssumption DEF MFAStart, AccountsAssumption
  <2>3. user' \in User
    BY <1>0, <2>1, <2>2, ProofTyped DEF User
  <2>. QED BY <1>0, <2>1, <2>2, <2>3, ProofTyped
<1>5. ASSUME NEW s \in Sessions, MFAConfirm(s)
      PROVE  Typed
  <2>1. PICK code \in Counters : user' = Confirmed(code) /\ CountCode(user.pending, code)
    BY <1>5 DEF MFAConfirm
  <2>2. user.pending # 0 /\ UNCHANGED <<made, recovered>>
    BY <1>5 DEF MFAConfirm, Acts
  <2>3. user' \in User
    BY <1>01, <2>1 DEF Confirmed, User
  <2>4. accepted' \in [1..Secrets -> [Counters -> Nat]]
    BY <1>0, <2>1, <2>2, CountTyped DEF Presented, User
  <2>. QED BY <2>2, <2>3, <2>4
<1>6. ASSUME NEW s \in Sessions, ChangePassword(s)
      PROVE  Typed
  <2>1. PICK code \in Presented : /\ Proves(code) /\ CountCode(user.secret, code)
                                  /\ user' = [WithProof(code) EXCEPT !.password = @ + 1]
                                  /\ UNCHANGED <<recovered, made>>
    BY <1>6 DEF ChangePassword, ActsWithProof, Acts, Presented
  <2>2. user.password + 1 \in 1..Passwords
    BY <1>02, <1>6 DEF ChangePassword
  <2>3. user' \in User
    BY <1>0, <2>1, <2>2, ProofTyped, ProofFields DEF User
  <2>. QED BY <1>0, <2>1, <2>3, ProofTyped
<1>7. ASSUME NEW s \in Sessions, CloseAccount(s)
      PROVE  Typed
  <2>1. PICK code \in Presented : /\ Proves(code) /\ CountCode(user.secret, code)
                                  /\ user' = [WithProof(code) EXCEPT !.closed = TRUE]
                                  /\ UNCHANGED <<recovered, made>>
    BY <1>7 DEF CloseAccount, ActsWithProof, Acts, Presented
  <2>2. user' \in User
    BY <1>0, <2>1, ProofTyped DEF User
  <2>. QED BY <1>0, <2>1, <2>2, ProofTyped
<1>8. ASSUME NEW s \in Sessions,
             SpendsProof(s) \/ ChangePIN(s) \/ SecureAccount(s) \/ RevokePasskey(s) \/ EnrolmentBegins(s)
      PROVE  Typed
  <2>1. PICK code \in Presented : /\ Proves(code) /\ CountCode(user.secret, code)
                                  /\ user' = WithProof(code) /\ UNCHANGED <<recovered, made>>
    BY <1>8 DEF SpendsProof, ChangePIN, SecureAccount, RevokePasskey, EnrolmentBegins, ActsWithProof, Acts,
                Presented
  <2>. QED BY <1>0, <2>1, ProofTyped
<1>9. ASSUME NEW s \in Sessions,
             \/ Authenticate(s) \/ RequestEnds(s) \/ SignOutAll(s) \/ EnrolmentEnds(s) \/ SessionEnds(s)
             \/ \E t \in Sessions : RevokeSession(s, t) \/ Enrols(s, t)
      PROVE  Typed
  BY <1>9 DEF Authenticate, RequestEnds, SignOutAll, EnrolmentEnds, SessionEnds, RevokeSession, Enrols, Acts
<1>10. ASSUME NEW i \in 1..Challenges, ChallengeStep(i)
       PROVE  Typed
  <2>1. CASE RequestChallenge(i) \/ ChallengeLapses(i)
    BY <2>1 DEF RequestChallenge, ChallengeLapses
  <2>2. CASE \E j \in 0..Challenges : VerifyChallenge(i, j)
    <3>1. /\ UNCHANGED <<made, accepted, recovered>>
          /\ \/ UNCHANGED user
             \/ user' = [user EXCEPT !.password = @ + 1] /\ user.password < account.passwords
      BY <2>2 DEF VerifyChallenge
    <3>2. user' \in User
      BY <1>02, <3>1 DEF User
    <3>. QED BY <3>1, <3>2
  <2>. QED BY <1>10, <2>1, <2>2 DEF ChallengeStep
<1>11. CASE StaffEndSessions \/ Tick
  BY <1>11 DEF StaffEndSessions, Tick
<1>12. CASE AcceptStaffRecovery
  <2>1. /\ user' = [user EXCEPT !.password = @ + 1, !.secret = 0, !.pending = 0, !.counter = -1, !.recovery = 0]
        /\ user.password < account.passwords /\ UNCHANGED <<made, accepted, recovered>>
    BY <1>12 DEF AcceptStaffRecovery
  <2>2. user' \in User
    BY <1>01, <1>02, <2>1 DEF User
  <2>. QED BY <2>1, <2>2
<1>13. CASE PendingLapses
  <2>1. user' \in User
    BY <1>01, <1>13 DEF PendingLapses, User
  <2>. QED BY <1>13, <2>1 DEF PendingLapses
<1>. QED BY <1>1, <1>2, <1>3, <1>4, <1>5, <1>6, <1>7, <1>8, <1>9, <1>10, <1>11, <1>12, <1>13
         DEF Next, SignInStep, RequestStep
LEMMA OpenedRow ==
  ASSUME user \in User, NEW k \in 0..Secrets
  PROVE  Opened(k) \in Row
<1>1. user.password \in 0..Passwords
  BY AccountsAssumption DEF User, AccountsAssumption
<1>2. (user.secret # 0 \/ Customer) \in BOOLEAN
  OBVIOUS
<1>. DEFINE ready == user.secret # 0 \/ Customer
<1>3. Opened(k) = [state |-> "live", born |-> user.password, factor |-> k, ready |-> ready]
  BY DEF Opened
<1>4. ready \in BOOLEAN
  BY <1>2
<1>. HIDE DEF ready
<1>. QED BY <1>1, <1>3, <1>4 DEF Row

LEMMA SessionTypesStep ==
  ASSUME TypeOK, Next
  PROVE  session' \in [Sessions -> Row]
<1>0. /\ user \in User /\ session \in [Sessions -> Row]
      /\ user.password \in 0..Passwords /\ user.secret \in 0..Secrets /\ user.pending \in 0..Secrets
      /\ user.recovery \in 0..Secrets /\ 0 \in 0..Secrets
  BY AccountsAssumption DEF TypeOK, User, AccountsAssumption
<1>. USE <1>0
<1>1. ASSUME NEW s \in Sessions, SignInStep(s)
      PROVE  session' \in [Sessions -> Row]
  <2>1. CASE LoginVerifies(s)
    <3>1. [Dead EXCEPT !.state = "verifying", !.born = user.password] \in Row
      BY DeadRow DEF Row
    <3>. QED BY <2>1, <3>1 DEF LoginVerifies
  <2>2. CASE LoginOpens(s) \/ PasskeyOpens(s)
    <3>1. PICK code \in Presented : session' = [session EXCEPT ![s] = Opened(ProvenBy(code))]
      BY <2>2, LoggedInRow DEF LoginOpens, PasskeyOpens, Presented
    <3>2. ProvenBy(code) \in 0..Secrets
      BY DEF ProvenBy
    <3>. QED BY <3>1, <3>2, OpenedRow
  <2>3. CASE LoginRecovers(s)
    BY <2>3, OpenedRow, LoggedInRow DEF LoginRecovers
  <2>4. CASE PasskeyBegins(s)
    <3>1. session' = [session EXCEPT ![s].state = "ceremony"]
      BY <2>4 DEF PasskeyBegins
    <3>2. [session[s] EXCEPT !.state = "ceremony"] \in Row
      BY DEF Row
    <3>. QED BY <3>1, <3>2
  <2>5. CASE SignInFails(s)
    BY <2>5, DeadRow DEF SignInFails
  <2>. QED BY <1>1, <2>1, <2>2, <2>3, <2>4, <2>5 DEF SignInStep
<1>2. ASSUME NEW s \in Sessions, RequestStep(s)
      PROVE  session' \in [Sessions -> Row]
  <2>1. CASE MFAConfirm(s)
    <3>1. session' = [OthersEnded(s) EXCEPT ![s].ready = TRUE, ![s].factor = user.pending]
      BY <2>1 DEF MFAConfirm, ConfirmedSessions
    <3>2. [session[s] EXCEPT !.ready = TRUE, !.factor = user.pending] \in Row
      BY DEF Row
    <3>3. session' = [OthersEnded(s) EXCEPT ![s] = [session[s] EXCEPT !.ready = TRUE, !.factor = user.pending]]
      BY <3>1, OthersEndedRows
    <3>. QED BY <3>2, <3>3, OthersEndedRows
  <2>2. CASE \E t \in Sessions : RevokeSession(s, t)
    BY <2>2, DeadRow DEF RevokeSession
  <2>3. CASE Authenticate(s) \/ RequestEnds(s) \/ MFAStart(s) \/ SpendsProof(s) \/ EnrolmentBegins(s)
             \/ EnrolmentEnds(s) \/ \E t \in Sessions : Enrols(s, t)
    BY <2>3 DEF Authenticate, RequestEnds, MFAStart, SpendsProof, EnrolmentBegins, EnrolmentEnds, Enrols
  <2>4. CASE ChangePassword(s) \/ ChangePIN(s) \/ SignOutAll(s) \/ CloseAccount(s)
    BY <2>4, EndedRows DEF ChangePassword, ChangePIN, SignOutAll, CloseAccount
  <2>5. CASE SecureAccount(s) \/ RevokePasskey(s)
    BY <2>5, OthersEndedRows DEF SecureAccount, RevokePasskey
  <2>. QED BY <1>2, <2>1, <2>2, <2>3, <2>4, <2>5 DEF RequestStep
<1>3. ASSUME NEW s \in Sessions, SessionEnds(s)
      PROVE  session' \in [Sessions -> Row]
  BY <1>3, DeadRow DEF SessionEnds
<1>4. ASSUME NEW i \in 1..Challenges, ChallengeStep(i)
      PROVE  session' \in [Sessions -> Row]
  <2>1. UNCHANGED session \/ session' = AllEnded
    BY <1>4 DEF ChallengeStep, RequestChallenge, ChallengeLapses, VerifyChallenge
  <2>. QED BY <2>1, EndedRows
<1>5. CASE StaffEndSessions \/ AcceptStaffRecovery \/ PendingLapses \/ Tick
  BY <1>5, EndedRows DEF StaffEndSessions, AcceptStaffRecovery, RecoveredSessions, PendingLapses, Tick
<1>. QED BY <1>1, <1>2, <1>3, <1>4, <1>5 DEF Next

LEMMA ChallengeTypesStep ==
  ASSUME TypeOK, NEW i \in 1..Challenges, ChallengeStep(i)
  PROVE  challenge' \in [1..Challenges -> ChallengeRow] /\ reset' \in [1..Challenges -> Nat]
<1>0. /\ challenge \in [1..Challenges -> ChallengeRow] /\ reset \in [1..Challenges -> Nat]
      /\ AttemptLimit \in Nat /\ 0 \in 0..AttemptLimit
  BY AccountsAssumption DEF TypeOK, AccountsAssumption
<1>1. CASE RequestChallenge(i)
  <2>1. \A k \in 1..Challenges : [challenge[k] EXCEPT !.state = "consumed"] \in ChallengeRow
    BY <1>0 DEF ChallengeRow
  <2>2. Replaced \in [1..Challenges -> ChallengeRow]
    BY <1>0, <2>1 DEF Replaced
  <2>3. [state |-> "open", attempts |-> 0] \in ChallengeRow
    BY <1>0 DEF ChallengeRow
  <2>. QED BY <1>0, <1>1, <2>2, <2>3 DEF RequestChallenge
<1>2. CASE ChallengeLapses(i)
  <2>1. PICK st \in {"lapsed", "consumed"} : challenge' = [challenge EXCEPT ![i].state = st]
    BY <1>0, <1>2 DEF ChallengeLapses
  <2>2. [challenge[i] EXCEPT !.state = st] \in ChallengeRow
    BY <1>0 DEF ChallengeRow
  <2>. QED BY <1>0, <1>2, <2>1, <2>2 DEF ChallengeLapses
<1>3. CASE \E j \in 0..Challenges : VerifyChallenge(i, j)
  <2>1. reset' \in [1..Challenges -> Nat]
    BY <1>0, <1>3 DEF VerifyChallenge
  <2>2. CASE challenge' = [challenge EXCEPT ![i].state = "consumed"]
    <3>1. [challenge[i] EXCEPT !.state = "consumed"] \in ChallengeRow
      BY <1>0 DEF ChallengeRow
    <3>. QED BY <1>0, <2>1, <2>2, <3>1
  <2>3. CASE challenge' = [challenge EXCEPT ![i].attempts = IF @ < AttemptLimit THEN @ + 1 ELSE @]
    <3>1. challenge[i].attempts \in 0..AttemptLimit
      BY <1>0 DEF ChallengeRow
    <3>2. PICK n \in 0..AttemptLimit :
            n = IF challenge[i].attempts < AttemptLimit THEN challenge[i].attempts + 1 ELSE challenge[i].attempts
      BY <1>0, <3>1
    <3>4. challenge' = [challenge EXCEPT ![i].attempts = n]
      BY <1>0, <2>3, <3>2
    <3>3. [challenge[i] EXCEPT !.attempts = n] \in ChallengeRow
      BY <1>0 DEF ChallengeRow
    <3>. QED BY <1>0, <2>1, <3>3, <3>4
  <2>. QED BY <1>3, <2>2, <2>3 DEF VerifyChallenge
<1>. QED BY <1>1, <1>2, <1>3 DEF ChallengeStep

LEMMA OtherTypesStep ==
  ASSUME TypeOK, Next
  PROVE  /\ account' \in Accounts /\ arrived' \subseteq Sessions /\ passkeys' \in 0..PasskeyLimit
         /\ enrolment' \in [Sessions -> 0..Passwords] /\ now' \in 1..Instants
<1>0. /\ account \in Accounts /\ arrived \subseteq Sessions /\ passkeys \in 0..PasskeyLimit
      /\ enrolment \in [Sessions -> 0..Passwords] /\ now \in 1..Instants
      /\ user.password \in 0..Passwords /\ 0 \in 0..Passwords /\ account.instants \in 1..Instants
  BY AccountsAssumption DEF TypeOK, User, AccountsAssumption
<1>. USE <1>0
<1>. DEFINE Typed == /\ account' \in Accounts /\ arrived' \subseteq Sessions /\ passkeys' \in 0..PasskeyLimit
                     /\ enrolment' \in [Sessions -> 0..Passwords] /\ now' \in 1..Instants
<1>1. ASSUME NEW s \in Sessions, SignInStep(s) \/ SessionEnds(s)
      PROVE  Typed
  BY <1>1 DEF SignInStep, LoginVerifies, LoginOpens, LoginRecovers, PasskeyBegins, PasskeyOpens, SignInFails,
              SessionEnds
<1>2. ASSUME NEW s \in Sessions, RequestStep(s)
      PROVE  Typed
  <2>1. CASE Authenticate(s) \/ RequestEnds(s) \/ EnrolmentEnds(s)
    BY <2>1 DEF Authenticate, RequestEnds, EnrolmentEnds
  <2>2. CASE MFAStart(s) \/ MFAConfirm(s) \/ ChangePassword(s) \/ SpendsProof(s) \/ ChangePIN(s) \/ SignOutAll(s)
             \/ CloseAccount(s) \/ SecureAccount(s)
    BY <2>2 DEF MFAStart, MFAConfirm, ChangePassword, SpendsProof, ChangePIN, SignOutAll, CloseAccount,
                SecureAccount, ActsWithProof, Acts
  <2>3. CASE RevokePasskey(s) \/ EnrolmentBegins(s)
    BY <2>3, AccountsAssumption DEF RevokePasskey, EnrolmentBegins, ActsWithProof, Acts, AccountsAssumption
  <2>4. CASE \E t \in Sessions : RevokeSession(s, t) \/ Enrols(s, t)
    BY <2>4, AccountsAssumption DEF RevokeSession, Enrols, Acts, AccountsAssumption
  <2>. QED BY <1>2, <2>1, <2>2, <2>3, <2>4 DEF RequestStep
<1>3. ASSUME NEW i \in 1..Challenges, ChallengeStep(i)
      PROVE  Typed
  BY <1>3 DEF ChallengeStep, RequestChallenge, ChallengeLapses, VerifyChallenge
<1>4. CASE StaffEndSessions \/ AcceptStaffRecovery \/ PendingLapses
  BY <1>4 DEF StaffEndSessions, AcceptStaffRecovery, PendingLapses
<1>5. CASE Tick
  BY <1>5, AccountsAssumption DEF Tick, AccountsAssumption
<1>. QED BY <1>1, <1>2, <1>3, <1>4, <1>5 DEF Next

LEMMA TypesStep ==
  ASSUME TypeOK, Next
  PROVE  TypeOK'
<1>1. challenge' \in [1..Challenges -> ChallengeRow] /\ reset' \in [1..Challenges -> Nat]
  <2>1. ASSUME NEW s \in Sessions, SignInStep(s) \/ RequestStep(s) \/ SessionEnds(s)
        PROVE  UNCHANGED <<challenge, reset>>
    BY <2>1 DEF SignInStep, LoginVerifies, LoginOpens, LoginRecovers, PasskeyBegins, PasskeyOpens, SignInFails,
                RequestStep, Authenticate, RequestEnds, MFAStart, MFAConfirm, ChangePassword, SpendsProof,
                ChangePIN, SignOutAll, CloseAccount, SecureAccount, RevokePasskey, RevokeSession, Enrols,
                EnrolmentBegins, EnrolmentEnds, SessionEnds, ActsWithProof, Acts
  <2>2. ASSUME StaffEndSessions \/ AcceptStaffRecovery \/ PendingLapses \/ Tick
        PROVE  UNCHANGED <<challenge, reset>>
    BY <2>2 DEF StaffEndSessions, AcceptStaffRecovery, PendingLapses, Tick
  <2>. QED BY <2>1, <2>2, ChallengeTypesStep DEF Next, TypeOK
<1>. QED BY <1>1, CodeTypesStep, SessionTypesStep, OtherTypesStep DEF TypeOK
-----------------------------------------------------------------------------
(* The invariant.                                                          *)
LEMMA Parts == IInv <=> TypeOK /\ Rows /\ Codes /\ NewestWaits
  BY DEF IInv, Rows, Codes

LEMMA InitParts ==
  ASSUME Init
  PROVE  IInv
<1>. USE AccountsAssumption DEF AccountsAssumption
<1>1. TypeOK
  <2>1. user \in User
    BY DEF Init, User
  <2>2. session \in [Sessions -> Row]
    BY DeadRow DEF Init
  <2>3. challenge \in [1..Challenges -> ChallengeRow]
    <3>1. [state |-> "none", attempts |-> 0] \in ChallengeRow
      BY DEF ChallengeRow
    <3>. QED BY <3>1 DEF Init
  <2>4. /\ accepted \in [1..Secrets -> [Counters -> Nat]] /\ recovered \in [1..Secrets -> Nat]
        /\ reset \in [1..Challenges -> Nat]
    BY DEF Init
  <2>5. /\ account \in Accounts /\ made \in 0..Secrets /\ arrived \subseteq Sessions
        /\ enrolment \in [Sessions -> 0..Passwords] /\ passkeys \in 0..PasskeyLimit /\ now \in 1..Instants
    <3>1. 0 \in 0..Secrets /\ 0 \in 0..Passwords /\ 1 \in 1..Instants /\ 0 \in 0..PasskeyLimit
      OBVIOUS
    <3>2. enrolment \in [Sessions -> 0..Passwords]
      BY <3>1 DEF Init
    <3>. QED BY <3>1, <3>2 DEF Init
  <2>. QED BY <2>1, <2>2, <2>3, <2>4, <2>5 DEF TypeOK
<1>2. Rows
  <2>1. \A s \in Sessions : session[s].state = "dead"
    BY DeadRow DEF Init
  <2>. QED BY <2>1 DEF Rows, LiveSessionsAreCurrent, SecondFactorCovered, SignInsAreBare, CeremoniesAreCurrent, Live
<1>3. Codes
  BY DEF Init, Codes, SecretsInOrder, CodesCounted, CodesWorkOnce
<1>4. NewestWaits
  BY DEF Init, NewestWaits, Waiting, Issued
<1>. QED BY <1>1, <1>2, <1>3, <1>4, Parts

LEMMA StepParts ==
  ASSUME IInv, [Next]_vars
  PROVE  IInv'
<1>0. TypeOK /\ Rows /\ Codes /\ NewestWaits
  BY Parts
<1>1. CASE Next
  <2>1. Rows'
    BY <1>0, <1>1, SignInRows, RequestRows, OtherRows DEF Next, OtherStep, Codes
  <2>2. TypeOK' /\ Codes' /\ NewestWaits'
    BY <1>0, <1>1, TypesStep, CodesStep, ChallengesStep
  <2>. QED BY <2>1, <2>2 DEF IInv, Rows, Codes
<1>2. CASE UNCHANGED vars
  <2>1. TypeOK'
    BY <1>0, <1>2 DEF vars, TypeOK
  <2>2. Rows'
    BY <1>0, <1>2 DEF vars, Rows, LiveSessionsAreCurrent, SecondFactorCovered, SignInsAreBare,
                      CeremoniesAreCurrent, Live, Customer
  <2>3. Codes'
    BY <1>0, <1>2, CodesSame DEF vars
  <2>4. NewestWaits'
    BY <1>0, <1>2 DEF vars, NewestWaits, Waiting, Issued, Newest
  <2>. QED BY <2>1, <2>2, <2>3, <2>4 DEF IInv, Rows, Codes
<1>. QED BY <1>1, <1>2

(* The account, its sessions, codes and challenges stay in the states above*)
(* whatever sign-ins, requests, staff and time do, in any order.           *)
THEOREM Invariant == Spec => []IInv
<1>1. Init => IInv
  BY InitParts
<1>2. IInv /\ [Next]_vars => IInv'
  BY StepParts
<1>. QED BY <1>1, <1>2, PTL DEF Spec

(* Every variable of the account keeps its type.                           *)
THEOREM TypeCorrect == Spec => []TypeOK
<1>1. IInv => TypeOK
  BY DEF IInv
<1>. QED BY <1>1, Invariant, PTL

(* No session outlives the password it was opened with, even when the      *)
(* password changes between the sign-in's two reads of it.                 *)
THEOREM CurrentSessions == Spec => []LiveSessionsAreCurrent
<1>1. IInv => LiveSessionsAreCurrent
  BY DEF IInv
<1>. QED BY <1>1, Invariant, PTL

(* No session outlives the second factor it proved, and the console's flag *)
(* says whether there is one.                                              *)
THEOREM CoveredSessions == Spec => []SecondFactorCovered
<1>1. IInv => SecondFactorCovered
  BY DEF IInv
<1>. QED BY <1>1, Invariant, PTL

(* No six-digit code and no recovery code is accepted twice.               *)
THEOREM SingleUseCodes == Spec => []CodesWorkOnce
<1>1. IInv => CodesWorkOnce
  BY DEF IInv, CodesCounted
<1>. QED BY <1>1, Invariant, PTL

-----------------------------------------------------------------------------
(* What a step may never do.                                               *)
LEMMA Departure ==
  ASSUME Next, NEW s \in arrived, s \notin arrived', ~Live(s)
  PROVE  UNCHANGED <<user, made, passkeys, enrolment>>
<1>1. ASSUME NEW x \in Sessions, SignInStep(x) \/ SessionEnds(x)
      PROVE  FALSE
  BY <1>1 DEF SignInStep, LoginVerifies, LoginOpens, LoginRecovers, PasskeyBegins, PasskeyOpens, SignInFails,
              SessionEnds
<1>2. ASSUME NEW x \in Sessions, RequestStep(x)
      PROVE  UNCHANGED <<user, made, passkeys, enrolment>>
  <2>1. Acts(x) => FALSE
    BY ActsFacts, <1>2
  <2>2. CASE Authenticate(x) \/ RequestEnds(x) \/ EnrolmentEnds(x)
    BY <2>2 DEF Authenticate, RequestEnds, EnrolmentEnds
  <2>3. CASE \E t \in Sessions : RevokeSession(x, t)
    BY <2>3 DEF RevokeSession
  <2>4. CASE \E t \in Sessions : Enrols(x, t)
    BY <2>1, <2>4 DEF Enrols
  <2>. QED BY <1>2, <2>1, <2>2, <2>3, <2>4
           DEF RequestStep, MFAStart, MFAConfirm, ChangePassword, SpendsProof, ChangePIN, SignOutAll,
               CloseAccount, SecureAccount, RevokePasskey, EnrolmentBegins, ActsWithProof
<1>3. ASSUME NEW i \in 1..Challenges, ChallengeStep(i)
      PROVE  FALSE
  BY <1>3 DEF ChallengeStep, RequestChallenge, ChallengeLapses, VerifyChallenge
<1>4. CASE StaffEndSessions \/ AcceptStaffRecovery \/ PendingLapses \/ Tick
  BY <1>4 DEF StaffEndSessions, AcceptStaffRecovery, PendingLapses, Tick
<1>. QED BY <1>1, <1>2, <1>3, <1>4 DEF Next

(* A request whose session was revoked after it was authenticated changes  *)
(* no credential.                                                          *)
THEOREM SignedOut == Spec => SignedOutChangeNothing
<1>1. [Next]_vars =>
        [\A s \in arrived : s \notin arrived' /\ ~Live(s) => UNCHANGED <<user, made, passkeys, enrolment>>]_vars
  BY Departure
<1>. QED BY <1>1, PTL DEF Spec, SignedOutChangeNothing

LEMMA CeremonyUsed ==
  ASSUME IInv, Next, NEW t \in Sessions, arrived' # arrived, enrolment[t] # 0, enrolment'[t] = 0
  PROVE  enrolment[t] = user.password
<1>0. /\ enrolment \in [Sessions -> 0..Passwords] /\ user.password # 0
      /\ CeremoniesAreCurrent
  BY AccountsAssumption DEF IInv, TypeOK, User, AccountsAssumption
<1>1. ASSUME NEW x \in Sessions, SignInStep(x) \/ SessionEnds(x)
      PROVE  FALSE
  BY <1>1 DEF SignInStep, LoginVerifies, LoginOpens, LoginRecovers, PasskeyBegins, PasskeyOpens, SignInFails,
              SessionEnds
<1>2. ASSUME NEW x \in Sessions, RequestStep(x)
      PROVE  enrolment[t] = user.password
  <2>1. CASE \E y \in Sessions : Enrols(x, y)
    <3>1. PICK y \in Sessions : Enrols(x, y)
      BY <2>1
    <3>2. y = x /\ Live(x) /\ enrolment' = [enrolment EXCEPT ![x] = 0]
      BY <3>1, ActsFacts DEF Enrols, OwnCeremony
    <3>3. t = x
      BY <1>0, <3>2
    <3>. QED BY <1>0, <3>2, <3>3 DEF CeremoniesAreCurrent
  <2>2. CASE EnrolmentBegins(x)
    <3>1. enrolment' = [enrolment EXCEPT ![x] = user.password]
      BY <2>2 DEF EnrolmentBegins
    <3>. QED BY <1>0, <3>1
  <2>3. CASE EnrolmentEnds(x)
    BY <2>3 DEF EnrolmentEnds
  <2>. QED BY <1>2, <2>1, <2>2, <2>3
           DEF RequestStep, Authenticate, RequestEnds, MFAStart, MFAConfirm, ChangePassword, SpendsProof,
               ChangePIN, SignOutAll, CloseAccount, SecureAccount, RevokePasskey, RevokeSession
<1>3. ASSUME NEW i \in 1..Challenges, ChallengeStep(i)
      PROVE  FALSE
  BY <1>3 DEF ChallengeStep, RequestChallenge, ChallengeLapses, VerifyChallenge
<1>4. CASE StaffEndSessions \/ AcceptStaffRecovery \/ PendingLapses \/ Tick
  BY <1>4 DEF StaffEndSessions, AcceptStaffRecovery, PendingLapses, Tick
<1>. QED BY <1>1, <1>2, <1>3, <1>4 DEF Next

(* No passkey is enrolled by a ceremony begun before the password was last *)
(* set.                                                                    *)
THEOREM CurrentEnrolments == Spec => EnrolledUnderCurrentPassword
<1>1. IInv /\ [Next]_vars =>
        [\A t \in Sessions : arrived' # arrived /\ enrolment[t] # 0 /\ enrolment'[t] = 0
           => enrolment[t] = user.password]_vars
  BY CeremonyUsed
<1>. QED BY <1>1, Invariant, PTL DEF Spec, EnrolledUnderCurrentPassword

LEMMA ResetUsed ==
  ASSUME IInv, Next, NEW i \in 1..Challenges, reset'[i] # reset[i]
  PROVE  reset[i] = 0 /\ Newest(i) /\ challenge[i].attempts < AttemptLimit
<1>0. /\ NewestWaits /\ reset \in [1..Challenges -> Nat] /\ challenge[i].attempts \in 0..AttemptLimit
      /\ AttemptLimit \in Nat
  BY AccountsAssumption DEF IInv, TypeOK, ChallengeRow, AccountsAssumption
<1>1. ASSUME NEW s \in Sessions, SignInStep(s) \/ RequestStep(s) \/ SessionEnds(s)
      PROVE  FALSE
  BY <1>1 DEF SignInStep, LoginVerifies, LoginOpens, LoginRecovers, PasskeyBegins, PasskeyOpens, SignInFails,
              RequestStep, Authenticate, RequestEnds, MFAStart, MFAConfirm, ChangePassword, SpendsProof,
              ChangePIN, SignOutAll, CloseAccount, SecureAccount, RevokePasskey, RevokeSession, Enrols,
              EnrolmentBegins, EnrolmentEnds, SessionEnds, ActsWithProof, Acts
<1>2. ASSUME StaffEndSessions \/ AcceptStaffRecovery \/ PendingLapses \/ Tick
      PROVE  FALSE
  BY <1>2 DEF StaffEndSessions, AcceptStaffRecovery, PendingLapses, Tick
<1>3. PICK k \in 1..Challenges : ChallengeStep(k)
  BY <1>1, <1>2 DEF Next
<1>4. PICK j \in 0..Challenges : VerifyChallenge(k, j)
  BY <1>3 DEF ChallengeStep, RequestChallenge, ChallengeLapses
<1>5. Waiting(k) /\ ~TriedOut(k) /\ reset' = [reset EXCEPT ![k] = @ + 1]
  BY <1>4 DEF VerifyChallenge, Answers
<1>6. k = i
  BY <1>0, <1>5
<1>. QED BY <1>0, <1>5, <1>6 DEF NewestWaits, TriedOut

(* A reset code is good once, while it is the newest, within its attempts. *)
THEOREM NewestResets == Spec => ResetByNewestCode
<1>1. IInv /\ [Next]_vars =>
        [\A i \in 1..Challenges : reset'[i] # reset[i] =>
           /\ reset[i] = 0 /\ Newest(i)
           /\ challenge[i].attempts < AttemptLimit]_vars
  <2>1. IInv /\ Next => \A i \in 1..Challenges : reset'[i] # reset[i] =>
          reset[i] = 0 /\ Newest(i) /\ challenge[i].attempts < AttemptLimit
    BY ResetUsed
  <2>. QED BY <2>1
<1>. QED BY <1>1, Invariant, PTL DEF Spec, ResetByNewestCode

-----------------------------------------------------------------------------
(***************************************************************************)
(* The customer app's tabs, any number of them and any number of renewals: *)
(* where they take turns they never end their session, and a restored tab  *)
(* can write.                                                              *)
(***************************************************************************)
USE DEF TakesTurns

LEMMA RowTypes ==
  ASSUME NEW r \in SessionRow
  PROVE  /\ Revoked(r) \in SessionRow
         /\ [r EXCEPT !.fresh = FALSE] \in SessionRow
BY DEF SessionRow, Revoked

LEMMA RotatedRow ==
  ASSUME NEW r \in SessionRow, r.issued < MaxIssued, r.unspent = {r.issued}, ~r.lapsed, r.state = "live"
  PROVE  /\ Rotated(r, r.issued) \in SessionRow
         /\ Rotated(r, r.issued).unspent = {Rotated(r, r.issued).issued}
         /\ ~Rotated(r, r.issued).lapsed /\ Rotated(r, r.issued).state = "live"
         /\ Rotated(r, r.issued).issued = r.issued + 1
<1>1. r.issued \in 0..MaxIssued /\ r.issued + 1 \in Issues /\ r.issued + 1 \in 0..MaxIssued
  BY IssuedAssumption DEF SessionRow, Issues
<1>2. Rotated(r, r.issued) = [r EXCEPT !.issued = r.issued + 1, !.unspent = {r.issued + 1}, !.fresh = TRUE]
  BY DEF Rotated, SessionRow
<1> DEFINE q == [r EXCEPT !.issued = r.issued + 1, !.unspent = {r.issued + 1}, !.fresh = TRUE]
<1>3. q.issued = r.issued + 1 /\ q.unspent = {r.issued + 1} /\ q.state = r.state /\ q.lapsed = r.lapsed
  BY DEF SessionRow
<1>4. q \in SessionRow BY <1>1 DEF SessionRow
<1> QED BY <1>2, <1>3, <1>4

(* With the current token and the current CSRF value a refresh renews.     *)
LEMMA CurrentRenews ==
  ASSUME NEW r \in SessionRow, r.unspent = {r.issued}, ~r.lapsed, r.state = "live", r.issued # 0
  PROVE  /\ Renews(r, r.issued, r.issued)
         /\ Refreshed(r, r.issued, r.issued) = Rotated(r, r.issued)
<1>1. r.issued \in Nat BY IssuedAssumption DEF SessionRow
<1> QED BY <1>1 DEF Renews, Known, Replays, Refreshed

LEMMA InitHolds == TakesTurns /\ RefreshInit => RefreshInv
<1> SUFFICES ASSUME TakesTurns, RefreshInit PROVE RefreshInv OBVIOUS
<1>1. 1 \in 0..MaxIssued /\ 0 \in 0..MaxIssued /\ 1 \in Issues BY IssuedAssumption DEF Issues
<1>2. NewSession \in SessionRow BY <1>1 DEF NewSession, SessionRow
<1>3. NoCall \in Call BY <1>1 DEF NoCall, Call, Stages, Replies
<1>4. RefreshTypeOK BY <1>1, <1>2, <1>3 DEF RefreshTypeOK, RefreshInit, Stages
<1>5. LastIssueCounts /\ OwnTabsKeepSession BY DEF RefreshInit, NewSession, LastIssueCounts, OwnTabsKeepSession
<1>6. OneRestores /\ CarriesJar BY DEF RefreshInit, OneRestores, CarriesJar, Restoring
<1>7. ShownCurrent BY DEF RefreshInit, ShownCurrent, NoCall
<1> QED BY <1>4, <1>5, <1>6, <1>7 DEF RefreshInv

(* The session row after a request is served: renewed or as it was.        *)
LEMMA ServedRow ==
  ASSUME RefreshInv, TakesTurns, NEW t \in Tabs, Serve(t)
  PROVE  /\ row' \in SessionRow /\ LastIssueCounts' /\ OwnTabsKeepSession'
         /\ \/ row' = row /\ wire[t].stage # "refresh"
            \/ /\ wire[t].stage = "refresh" /\ row'.issued = row.issued + 1
               /\ wire'[t] = [wire[t] EXCEPT !.answer = "ok", !.value = row'.issued]
<1> USE DEF RefreshInv, RefreshTypeOK
<1>0. wire[t] # NoCall /\ wire[t].answer = "pending" /\ wire[t].stage = tab[t].stage /\ wire[t] \in Call
  BY DEF Serve, CarriesJar
<1>1. CASE wire[t].stage # "refresh"
  BY <1>0, <1>1 DEF Serve, LastIssueCounts, OwnTabsKeepSession
<1>2. CASE wire[t].stage = "refresh"
  <2>1. wire[t].refresh = row.issued /\ wire[t].csrf = row.issued
    BY <1>0, <1>2 DEF ShownCurrent, CarriesJar
  <2>2. row.issued < MaxIssued /\ row' = Refreshed(row, row.issued, row.issued)
    BY <1>2, <2>1 DEF Serve, AsksMe
  <2>3. row.issued # 0
    BY IssuedAssumption DEF LastIssueCounts, SessionRow, Issues
  <2>4. row' = Rotated(row, row.issued) /\ Renews(row, row.issued, row.issued)
    BY <2>2, <2>3, CurrentRenews DEF LastIssueCounts, OwnTabsKeepSession
  <2>5. row' \in SessionRow /\ row'.unspent = {row'.issued} /\ ~row'.lapsed /\ row'.state = "live"
        /\ row'.issued = row.issued + 1
    BY <2>2, <2>4, RotatedRow DEF LastIssueCounts, OwnTabsKeepSession
  <2>6. wire'[t] = [wire[t] EXCEPT !.answer = "ok", !.value = row'.issued]
    BY <1>2, <2>1, <2>4 DEF Serve, AsksMe
  <2> QED BY <1>2, <2>5, <2>6 DEF LastIssueCounts, OwnTabsKeepSession
<1> QED BY <1>1, <1>2

LEMMA StepHolds == TakesTurns /\ RefreshInv /\ [RefreshNext]_refreshVars => RefreshInv'
<1> SUFFICES ASSUME TakesTurns, RefreshInv, [RefreshNext]_refreshVars PROVE RefreshInv' OBVIOUS
<1> USE DEF RefreshInv
<1>t. ASSUME NEW t \in Tabs, Restore(t) PROVE RefreshInv'
  <2>1. RefreshTypeOK' BY <1>t DEF RefreshTypeOK, Restore, Stages
  <2>2. OneRestores' /\ CarriesJar' BY <1>t DEF RefreshTypeOK, Restore, OneRestores, CarriesJar, Restoring
  <2>3. LastIssueCounts' /\ OwnTabsKeepSession' BY <1>t DEF Restore, LastIssueCounts, OwnTabsKeepSession
  <2>4. ShownCurrent' BY <1>t DEF RefreshTypeOK, Restore, ShownCurrent
  <2> QED BY <2>1, <2>2, <2>3, <2>4
<1>b. ASSUME NEW t \in Tabs, Begin(t) PROVE RefreshInv'
  <2>1. RefreshTypeOK' BY <1>b DEF RefreshTypeOK, Begin, Stages, First
  <2>2. OneRestores' /\ CarriesJar'
    BY <1>b DEF RefreshTypeOK, Begin, OneRestores, CarriesJar, Restoring, FreeToStart
  <2>3. LastIssueCounts' /\ OwnTabsKeepSession' BY <1>b DEF Begin, LastIssueCounts, OwnTabsKeepSession
  <2>4. ShownCurrent' BY <1>b DEF RefreshTypeOK, Begin, First, ShownCurrent
  <2> QED BY <2>1, <2>2, <2>3, <2>4
<1>n. ASSUME NEW t \in Tabs, Send(t) PROVE RefreshInv'
  <2>0. [NoCall EXCEPT !.stage = tab[t].stage, !.access = jar.access, !.refresh = jar.refresh,
                       !.csrf = tab[t].csrf] \in Call
    BY <1>n, IssuedAssumption DEF RefreshTypeOK, Send, NoCall, Call, Stages, Replies
  <2>1. RefreshTypeOK' BY <1>n, <2>0 DEF RefreshTypeOK, Send
  <2>2. OneRestores' /\ CarriesJar'
    BY <1>n DEF RefreshTypeOK, Send, OneRestores, CarriesJar, Restoring, NoCall
  <2>3. LastIssueCounts' /\ OwnTabsKeepSession' BY <1>n DEF Send, LastIssueCounts, OwnTabsKeepSession
  <2>4. ShownCurrent' BY <1>n DEF RefreshTypeOK, Send, ShownCurrent, NoCall
  <2> QED BY <2>1, <2>2, <2>3, <2>4
<1>s. ASSUME NEW t \in Tabs, Serve(t) PROVE RefreshInv'
  <2>0. /\ row' \in SessionRow /\ LastIssueCounts' /\ OwnTabsKeepSession'
        /\ \/ row' = row /\ wire[t].stage # "refresh"
           \/ /\ wire[t].stage = "refresh" /\ row'.issued = row.issued + 1
              /\ wire'[t] = [wire[t] EXCEPT !.answer = "ok", !.value = row'.issued]
    BY <1>s, ServedRow
  <2>1. row'.issued \in 0..MaxIssued /\ row.issued \in 0..MaxIssued BY <2>0 DEF SessionRow, RefreshTypeOK
  <2>2. PICK ok \in {"ok", "refused"}, v \in 0..MaxIssued :
          /\ wire' = [wire EXCEPT ![t].answer = ok, ![t].value = v]
          /\ ok = "ok" /\ wire[t].stage \in {"csrf", "confirm"} => v = row.issued /\ MayReadCSRF(row, wire[t].refresh)
    BY <1>s, <2>1, IssuedAssumption DEF Serve, AsksMe
  <2>3. RefreshTypeOK' BY <1>s, <2>0, <2>2 DEF RefreshTypeOK, Serve, Call, Replies
  <2>4. wire[t] # NoCall /\ wire[t].answer = "pending" /\ wire[t].stage = tab[t].stage /\ lock = {t}
    BY <1>s DEF Serve, CarriesJar, OneRestores
  <2>5. \A u \in Tabs \ {t} : wire'[u] = wire[u] /\ wire[u] = NoCall /\ tab[u].stage \in {"idle", "waiting"}
    BY <2>2, <2>4 DEF RefreshTypeOK, OneRestores, CarriesJar, Restoring
  <2>6. tab' = tab /\ lock' = lock /\ jar' = jar BY <1>s DEF Serve
  <2>7. wire'[t].stage = wire[t].stage /\ wire'[t].answer = ok /\ wire'[t].value = v
        /\ wire'[t].refresh = wire[t].refresh /\ wire'[t].csrf = wire[t].csrf
    BY <2>2 DEF RefreshTypeOK, Call
  <2>8. OneRestores' /\ CarriesJar'
    BY <2>4, <2>5, <2>6, <2>7 DEF OneRestores, CarriesJar, Restoring
  <2>9. ShownCurrent'
    <3>1. tab[t].stage = "csrf" /\ ok = "ok" => jar.refresh = row.issued /\ row' = row
      BY <2>0, <2>2, <2>4 DEF CarriesJar, MayReadCSRF, LastIssueCounts
    <3>2. tab[t].stage = "refresh" => ok = "ok" /\ v = row'.issued
      BY <2>0, <2>4, <2>7 DEF RefreshTypeOK, Call
    <3>3. wire[t].stage \in {"csrf", "confirm"} /\ ok = "ok" => v = row.issued /\ row' = row
      BY <2>0, <2>2, <2>4
    <3>4. \A u \in Tabs \ {t} : wire'[u].answer = "pending" /\ tab'[u].stage # "refresh"
      BY <2>5, <2>6 DEF NoCall
    <3> QED BY <2>4, <2>6, <2>7, <3>1, <3>2, <3>3, <3>4 DEF ShownCurrent
  <2> QED BY <2>0, <2>3, <2>8, <2>9
<1>r. ASSUME NEW t \in Tabs, Receive(t) PROVE RefreshInv'
  <2> DEFINE call == wire[t]
             ok   == call.answer = "ok"
             next == Following(call.stage, ok)
             csrf == IF ok /\ ~AsksMe(call) THEN call.value ELSE tab[t].csrf
             result == IF next # "idle" THEN tab[t].result
                       ELSE IF Succeeds(call.stage, ok) THEN "in" ELSE "out"
  <2>0. tab' = [tab EXCEPT ![t].stage = next, ![t].csrf = csrf, ![t].result = result]
    BY <1>r DEF Receive
  <2>1. /\ call \in Call /\ call # NoCall /\ call.stage = tab[t].stage /\ lock = {t}
        /\ call.answer \in {"ok", "refused"}
    BY <1>r DEF RefreshTypeOK, Receive, NoCall, CarriesJar, OneRestores
  <2>2. next \in Stages \ {"waiting"} BY DEF Following, Stages
  <2>3. /\ wire' = [wire EXCEPT ![t] = NoCall] /\ row' = row
        /\ jar' = IF call.stage = "refresh" /\ ok THEN [access |-> call.value, refresh |-> call.value] ELSE jar
        /\ lock' = IF next = "idle" THEN {} ELSE lock
        /\ \A u \in Tabs \ {t} : tab'[u] = tab[u]
        /\ tab'[t].stage = next
        /\ tab'[t].csrf = csrf
    <3>1. /\ wire' = [wire EXCEPT ![t] = NoCall] /\ row' = row
          /\ jar' = IF call.stage = "refresh" /\ ok THEN [access |-> call.value, refresh |-> call.value] ELSE jar
          /\ lock' = IF next = "idle" THEN lock \ {t} ELSE lock
      <4>1. wire' = [wire EXCEPT ![t] = NoCall] /\ row' = row BY <1>r DEF Receive
      <4>2. jar' = IF call.stage = "refresh" /\ ok THEN [access |-> call.value, refresh |-> call.value] ELSE jar
        BY <1>r, Zenon DEF Receive
      <4>3. IF next = "idle" THEN Release(t) ELSE UNCHANGED lock BY <1>r, Zenon DEF Receive
      <4>4. lock' = IF next = "idle" THEN lock \ {t} ELSE lock BY <4>3 DEF Release
      <4> HIDE DEF call, ok, next, csrf, result
      <4> QED BY <4>1, <4>2, <4>4
    <3>2. /\ \A u \in Tabs \ {t} : tab'[u] = tab[u]
          /\ tab'[t].stage = next
          /\ tab'[t].csrf = csrf
      <4> HIDE DEF call, ok, next, csrf, result
      <4>1. tab'[t] = [tab[t] EXCEPT !.stage = next, !.csrf = csrf, !.result = result]
        BY <2>0 DEF RefreshTypeOK
      <4>2. tab[t] \in [stage : Stages, csrf : 0..MaxIssued, result : {"in", "out"}] BY DEF RefreshTypeOK
      <4>3. tab'[t].stage = next /\ tab'[t].csrf = csrf BY <4>1, <4>2
      <4>4. \A u \in Tabs \ {t} : tab'[u] = tab[u] BY <2>0 DEF RefreshTypeOK
      <4> QED BY <4>3, <4>4
    <3>3. lock' = IF next = "idle" THEN {} ELSE lock BY <2>1, <3>1
    <3> HIDE DEF call, ok, next, csrf, result
    <3> QED BY <3>1, <3>2, <3>3
  <2>4. NoCall \in Call BY IssuedAssumption DEF NoCall, Call, Stages, Replies
  <2>5. call.value \in 0..MaxIssued BY <2>1 DEF Call
  <2>6. RefreshTypeOK'
    <3>1. tab' \in [Tabs -> [stage : Stages, csrf : 0..MaxIssued, result : {"in", "out"}]]
      <4>1. csrf \in 0..MaxIssued /\ result \in {"in", "out"} BY <2>5 DEF RefreshTypeOK
      <4> HIDE DEF next, csrf, result
      <4> QED BY <2>0, <2>2, <4>1 DEF RefreshTypeOK
    <3>2. jar' \in [access : 0..MaxIssued, refresh : 0..MaxIssued]
      BY <2>3, <2>5 DEF RefreshTypeOK
    <3> QED BY <2>1, <2>3, <2>4, <3>1, <3>2 DEF RefreshTypeOK
  <2>7. \A u \in Tabs \ {t} : wire[u] = NoCall /\ wire'[u] = NoCall /\ tab'[u].stage \in {"idle", "waiting"}
    BY <2>1, <2>3 DEF RefreshTypeOK, OneRestores, CarriesJar, Restoring
  <2>8. wire'[t] = NoCall BY <2>3 DEF RefreshTypeOK
  <2>9. OneRestores' /\ CarriesJar'
    BY <2>1, <2>2, <2>3, <2>7, <2>8 DEF OneRestores, CarriesJar, Restoring
  <2>10. LastIssueCounts' /\ OwnTabsKeepSession' BY <2>3 DEF LastIssueCounts, OwnTabsKeepSession
  <2>11. ShownCurrent'
    <3>1. ASSUME next = "refresh" PROVE jar'.refresh = row'.issued /\ tab'[t].csrf = row'.issued
      <4>1. call.stage = "csrf" /\ ok BY <3>1 DEF Following
      <4> QED BY <2>3, <4>1 DEF ShownCurrent, AsksMe
    <3> QED BY <2>3, <2>7, <2>8, <3>1 DEF ShownCurrent, NoCall
  <2> QED BY <2>6, <2>9, <2>10, <2>11
<1>a. ASSUME NEW t \in Tabs, Abandon(t) PROVE RefreshInv'
  <2>0. NoCall \in Call BY IssuedAssumption DEF NoCall, Call, Stages, Replies
  <2>1. RefreshTypeOK' BY <1>a, <2>0 DEF RefreshTypeOK, Abandon, Release, Stages
  <2>2. OneRestores' /\ CarriesJar'
    BY <1>a DEF RefreshTypeOK, Abandon, Release, OneRestores, CarriesJar, Restoring
  <2>3. LastIssueCounts' /\ OwnTabsKeepSession' BY <1>a DEF Abandon, LastIssueCounts, OwnTabsKeepSession
  <2>4. ShownCurrent' BY <1>a DEF RefreshTypeOK, Abandon, ShownCurrent, NoCall
  <2> QED BY <2>1, <2>2, <2>3, <2>4
<1>e. ASSUME AccessExpires PROVE RefreshInv'
  <2>1. row' \in SessionRow /\ row'.issued = row.issued /\ row'.unspent = row.unspent
        /\ row'.lapsed = row.lapsed /\ row'.state = row.state
    BY <1>e, RowTypes DEF AccessExpires, RefreshTypeOK, SessionRow
  <2> QED BY <1>e, <2>1 DEF AccessExpires, RefreshTypeOK, OneRestores, CarriesJar, Restoring, LastIssueCounts,
                            OwnTabsKeepSession, ShownCurrent
<1>u. ASSUME UNCHANGED refreshVars PROVE RefreshInv'
  BY <1>u DEF refreshVars, RefreshTypeOK, OneRestores, CarriesJar, Restoring, LastIssueCounts, OwnTabsKeepSession, ShownCurrent
<1> QED BY <1>t, <1>b, <1>n, <1>s, <1>r, <1>a, <1>e, <1>u DEF RefreshNext

(* The strengthening holds in every state of an app whose tabs take turns. *)
THEOREM RefreshInvariant == TakesTurns => (RefreshSpec => []RefreshInv)
<1> SUFFICES ASSUME TakesTurns PROVE RefreshSpec => []RefreshInv OBVIOUS
<1>1. RefreshInit => RefreshInv BY InitHolds
<1>2. RefreshInv /\ [RefreshNext]_refreshVars => RefreshInv' BY StepHolds
<1> QED BY <1>1, <1>2, PTL DEF RefreshSpec

(* However many tabs share a session, none of them ends it by refreshing,  *)
(* whatever replies are lost and whichever tabs are closed, in a browser   *)
(* that has locks (client.ts:91-99).                                       *)
THEOREM AppKeepsSession == TakesTurns => (RefreshSpec => []OwnTabsKeepSession)
<1> SUFFICES ASSUME TakesTurns PROVE RefreshSpec => []OwnTabsKeepSession OBVIOUS
<1>1. RefreshInv => OwnTabsKeepSession BY DEF RefreshInv
<1> QED BY <1>1, RefreshInvariant, PTL

(* A tab of the app that reports success holds the CSRF value in force.    *)
THEOREM RestoredWrites == TakesTurns => (RefreshSpec => RestoredTabsCanWrite)
<1> SUFFICES ASSUME TakesTurns PROVE RefreshSpec => RestoredTabsCanWrite OBVIOUS
<1> DEFINE Done == \A t \in Tabs : tab[t].stage # "idle" /\ tab'[t].stage = "idle" /\ tab'[t].result = "in"
                     => tab'[t].csrf = row'.issued
<1>1. RefreshInv /\ [RefreshNext]_refreshVars => [Done]_refreshVars
  <2> SUFFICES ASSUME RefreshInv, RefreshNext, NEW u \in Tabs, tab[u].stage # "idle", tab'[u].stage = "idle",
                      tab'[u].result = "in"
               PROVE  tab'[u].csrf = row'.issued
    OBVIOUS
  <2>1. ASSUME NEW t \in Tabs, Restore(t) \/ Begin(t) \/ Send(t) \/ Serve(t) PROVE FALSE
    BY <2>1 DEF Restore, Begin, Send, Serve, First, RefreshInv, RefreshTypeOK
  <2>2. ASSUME NEW t \in Tabs, Abandon(t) PROVE FALSE
    BY <2>2 DEF Abandon, RefreshInv, RefreshTypeOK
  <2>3. ASSUME NEW t \in Tabs, Receive(t) PROVE tab'[u].csrf = row'.issued
    <3>1. u = t BY <2>3 DEF Receive, RefreshInv, RefreshTypeOK
    <3>2. wire[t].answer = "ok" /\ Following(wire[t].stage, TRUE) = "idle"
      BY <2>3, <3>1 DEF Receive, Succeeds, RefreshInv, RefreshTypeOK
    <3>3. wire[t].stage \in {"confirm", "refresh"}
      <4>1. wire[t] # NoCall BY <2>3 DEF Receive, NoCall
      <4>2. wire[t].stage = tab[t].stage /\ tab[t].stage \in Stages BY <4>1 DEF RefreshInv, CarriesJar, RefreshTypeOK
      <4> QED BY <3>1, <3>2, <4>1, <4>2 DEF Following, Stages, RefreshInv, CarriesJar, Restoring
    <3> QED BY <2>3, <3>1, <3>2, <3>3 DEF Receive, AsksMe, ShownCurrent, RefreshInv, RefreshTypeOK
  <2>4. ~AccessExpires BY DEF AccessExpires
  <2> QED BY <2>1, <2>2, <2>3, <2>4 DEF RefreshNext
<1>2. RefreshSpec => [][Done]_refreshVars BY <1>1, RefreshInvariant, PTL DEF RefreshSpec
<1> QED BY <1>2 DEF RestoredTabsCanWrite
=============================================================================
