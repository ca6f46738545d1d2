-------------------------------- MODULE Sessions --------------------------------
(***************************************************************************)
(* One account, its credentials and the sessions opened with them          *)
(* (auth.go, passkeys.go, customer_parity.go, admin_recovery.go).          *)
(*                                                                         *)
(* Passwords and authenticator secrets are numbered in the order they are  *)
(* set; secret 0 is none.  A session remembers, for the properties only,   *)
(* the password that was current when it was opened and the secret it      *)
(* proved.  A six-digit code is the pair of its secret and its half minute.*)
(* A request is authenticated first (Authenticate, outside a transaction)  *)
(* and acts later, in a transaction that locks the users row and looks at  *)
(* its session again (activePrincipal).                                    *)
(***************************************************************************)
EXTENDS Integers

CONSTANTS Sessions,      \* slots: rows of sessions, sign-ins and ceremonies under way
          Accounts,      \* bounds: the accounts considered, see AccountsAssumption
          Passwords, Secrets, Instants, Challenges,   \* bounds: 1..n or 0..n, see below
          AttemptLimit,  \* 5 in the code (auth.go:160)
          PasskeyLimit   \* 10 in the code (passkeys.go:114)

VARIABLES account,    \* never changes: its role and the bounds of what happens to it
          user,       \* the row of users
          made,       \* secrets generated by MFAStart
          session,    \* per slot: the row, or the sign-in that may make it
          arrived,    \* slots with an authenticated request not yet executed
          enrolment,  \* per slot: password current when its passkey ceremony began, 0 for none
          passkeys,   \* unrevoked passkeys of the account
          challenge,  \* per reset code issued: its row
          now,        \* half minutes
          accepted, recovered, reset   \* history: how often each code was accepted

vars == <<account, user, made, session, arrived, enrolment, passkeys, challenge, now,
          accepted, recovered, reset>>

(* Numbers from 1; 0 stands for none.                                      *)
AccountsAssumption ==
  /\ Passwords \in Nat \ {0} /\ Secrets \in Nat /\ Instants \in Nat \ {0} /\ Challenges \in Nat
  /\ AttemptLimit \in Nat /\ PasskeyLimit \in Nat
  /\ Accounts \subseteq [role : {"customer", "staff"}, passwords : 1..Passwords, secrets : 0..Secrets,
                         instants : 1..Instants, challenges : 0..Challenges, passkeys : BOOLEAN]

ASSUME AccountsAssumption

Counters == 0..Instants + 1          \* half minutes a code may bear
NoCode   == -1

User == [password : 1..Passwords, secret : 0..Secrets, pending : 0..Secrets,
         counter : Counters \cup {-1}, recovery : 0..Secrets, closed : BOOLEAN]

Row == [state : {"dead", "verifying", "ceremony", "live"}, born : 0..Passwords,
        factor : 0..Secrets, ready : BOOLEAN]

Dead == [state |-> "dead", born |-> 0, factor |-> 0, ready |-> FALSE]

ChallengeRow == [state : {"none", "open", "lapsed", "consumed"}, attempts : 0..AttemptLimit]

TypeOK == /\ account \in Accounts
          /\ user \in User
          /\ made \in 0..Secrets
          /\ session \in [Sessions -> Row]
          /\ arrived \subseteq Sessions
          /\ enrolment \in [Sessions -> 0..Passwords]
          /\ passkeys \in 0..PasskeyLimit
          /\ challenge \in [1..Challenges -> ChallengeRow]
          /\ now \in 1..Instants
          /\ accepted \in [1..Secrets -> [Counters -> Nat]]
          /\ recovered \in [1..Secrets -> Nat]
          /\ reset \in [1..Challenges -> Nat]

Init == /\ account \in Accounts
        /\ user = [password |-> 1, secret |-> 0, pending |-> 0, counter |-> -1, recovery |-> 0,
                   closed |-> FALSE]
        /\ made = 0
        /\ session = [s \in Sessions |-> Dead]
        /\ arrived = {}
        /\ enrolment = [s \in Sessions |-> 0]
        /\ passkeys = 0
        /\ challenge = [i \in 1..Challenges |-> [state |-> "none", attempts |-> 0]]
        /\ now = 1
        /\ accepted = [k \in 1..Secrets |-> [c \in Counters |-> 0]]
        /\ recovered = [k \in 1..Secrets |-> 0]
        /\ reset = [i \in 1..Challenges |-> 0]

Customer == account.role = "customer"

-----------------------------------------------------------------------------
(* VerifyTOTP: the code of this half minute or a neighbour's, later than   *)
(* the last one accepted.                                                  *)
Fits(code, last) == code \in {now, now - 1, now + 1} /\ code > last

(* checkTOTP where the account has a second factor, no code elsewhere.     *)
Proves(code) == IF user.secret = 0 THEN code = NoCode ELSE Fits(code, user.counter)

WithProof(code) == IF code = NoCode THEN user ELSE [user EXCEPT !.counter = code]

CountCode(secret, code) ==
  accepted' = IF code = NoCode THEN accepted ELSE [accepted EXCEPT ![secret][code] = @ + 1]

(* The secret a sign-in has proved.                                        *)
ProvenBy(code) == IF code = NoCode THEN 0 ELSE user.secret

(* UPDATE sessions SET revoked=true WHERE user_id=$1 [AND id<>$2]          *)
AllEnded       == [t \in Sessions |-> IF session[t].state = "live" THEN Dead ELSE session[t]]
OthersEnded(s) == [t \in Sessions |-> IF t # s /\ session[t].state = "live" THEN Dead ELSE session[t]]

(* newSession under the password that is current.                          *)
Opened(factor) == [state |-> "live", born |-> user.password, factor |-> factor,
                   ready |-> user.secret # 0 \/ Customer]

-----------------------------------------------------------------------------
(* Signing in.  A slot is free when nothing of its last use is under way.  *)
Free(s) == session[s] = Dead /\ s \notin arrived /\ enrolment[s] = 0

(* Login outside the transaction: the hash read matches the password given.*)
LoginVerifies(s) ==
  /\ Free(s)
  /\ session' = [session EXCEPT ![s] = [Dead EXCEPT !.state = "verifying", !.born = user.password]]
  /\ UNCHANGED <<account, user, made, arrived, enrolment, passkeys, challenge, now, accepted, recovered, reset>>

SameHash_Unchecked(s) == TRUE   \* mutant: the hash is not compared again

(* Login inside it: the row is locked and the hash must be the one verified.*)
SameHash(s) == session[s].born = user.password

MayEnter(s) == session[s].state = "verifying" /\ ~user.closed /\ SameHash(s)

(* The session of one who gave the password that was verified.             *)
LoggedIn(s, factor) == [Opened(factor) EXCEPT !.born = session[s].born]

LoginOpens(s) ==
  /\ MayEnter(s)
  /\ \E code \in Counters \cup {NoCode} :
       /\ Proves(code)
       /\ user' = WithProof(code)
       /\ CountCode(user.secret, code)
       /\ session' = [session EXCEPT ![s] = LoggedIn(s, ProvenBy(code))]
  /\ UNCHANGED <<account, made, arrived, enrolment, passkeys, challenge, now, recovered, reset>>

(* A recovery code instead.  The ten of a set behave alike: one is kept.   *)
LoginRecovers(s) ==
  /\ MayEnter(s)
  /\ user.secret # 0 /\ user.recovery # 0
  /\ user' = [user EXCEPT !.recovery = 0]
  /\ recovered' = [recovered EXCEPT ![user.recovery] = @ + 1]
  /\ session' = [session EXCEPT ![s] = LoggedIn(s, user.recovery)]
  /\ UNCHANGED <<account, made, arrived, enrolment, passkeys, challenge, now, accepted, reset>>

(* PasskeyBegin and PasskeyFinish for a sign-in.  The ceremony knows no    *)
(* account until the credential names it; the passkey must be unrevoked.   *)
PasskeyBegins(s) ==
  /\ Free(s)
  /\ account.passkeys
  /\ session' = [session EXCEPT ![s].state = "ceremony"]
  /\ UNCHANGED <<account, user, made, arrived, enrolment, passkeys, challenge, now, accepted, recovered, reset>>

PasskeyOpens(s) ==
  /\ session[s].state = "ceremony"
  /\ Customer /\ ~user.closed /\ passkeys > 0
  /\ \E code \in Counters \cup {NoCode} :
       /\ Proves(code)
       /\ user' = WithProof(code)
       /\ CountCode(user.secret, code)
       /\ session' = [session EXCEPT ![s] = Opened(ProvenBy(code))]
  /\ UNCHANGED <<account, made, arrived, enrolment, passkeys, challenge, now, recovered, reset>>

(* A wrong code, a changed password, a closed account, an invalid or late  *)
(* response: the sign-in is over, and the ceremony consumed.               *)
SignInFails(s) ==
  /\ session[s].state \in {"verifying", "ceremony"}
  /\ session' = [session EXCEPT ![s] = Dead]
  /\ UNCHANGED <<account, user, made, arrived, enrolment, passkeys, challenge, now, accepted, recovered, reset>>

-----------------------------------------------------------------------------
(* Requests under a session.                                               *)
Authenticate(s) ==
  /\ session[s].state = "live" /\ ~user.closed /\ s \notin arrived
  /\ arrived' = arrived \cup {s}
  /\ UNCHANGED <<account, user, made, session, enrolment, passkeys, challenge, now, accepted, recovered, reset>>

(* The request is refused, or does nothing that matters here.              *)
RequestEnds(s) ==
  /\ s \in arrived
  /\ arrived' = arrived \ {s}
  /\ UNCHANGED <<account, user, made, session, enrolment, passkeys, challenge, now, accepted, recovered, reset>>

StillLive_AsAuthenticated(s) == TRUE   \* mutant: what Authenticate found is trusted

(* activePrincipal: the session is not revoked and the account not closed. *)
StillLive(s) == session[s].state = "live"

Acts(s) == /\ s \in arrived /\ StillLive(s) /\ ~user.closed
           /\ arrived' = arrived \ {s}
           /\ UNCHANGED <<account, now, challenge, reset, recovered>>

(* A request under reauthenticate: the current password and, with a second *)
(* factor, an unused code.                                                 *)
ActsWithProof(s, code) == Acts(s) /\ Proves(code) /\ CountCode(user.secret, code)

MFAStart(s) ==
  /\ made < account.secrets
  /\ \E code \in Counters \cup {NoCode} :
       /\ ActsWithProof(s, code)
       /\ user' = [WithProof(code) EXCEPT !.pending = made + 1]
  /\ made' = made + 1
  /\ UNCHANGED <<session, enrolment, passkeys>>

Confirmed_KeepsCounter(code) ==   \* mutant: the code that confirms is not remembered
  [user EXCEPT !.secret = user.pending, !.pending = 0, !.counter = -1, !.recovery = user.pending]

Confirmed(code) ==
  [user EXCEPT !.secret = user.pending, !.pending = 0, !.counter = code, !.recovery = user.pending]

ConfirmedSessions_Others(s) ==   \* mutant: the other sessions stay
  [session EXCEPT ![s].ready = TRUE, ![s].factor = user.pending]

ConfirmedSessions(s) == [OthersEnded(s) EXCEPT ![s].ready = TRUE, ![s].factor = user.pending]

(* The pending secret replaces the current one; recovery codes are renewed.*)
MFAConfirm(s) ==
  /\ Acts(s)
  /\ user.pending # 0
  /\ \E code \in Counters :
       /\ Fits(code, -1)
       /\ user' = Confirmed(code)
       /\ CountCode(user.pending, code)
  /\ session' = ConfirmedSessions(s)
  /\ UNCHANGED <<made, enrolment, passkeys>>

ChangePassword(s) ==
  /\ user.password < account.passwords
  /\ \E code \in Counters \cup {NoCode} :
       /\ ActsWithProof(s, code)
       /\ user' = [WithProof(code) EXCEPT !.password = @ + 1]
  /\ session' = AllEnded
  /\ UNCHANGED <<made, enrolment, passkeys>>

(* Authorise, StaffElevate and BeginEmailChange: a proof is spent and the  *)
(* sessions stay.                                                          *)
SpendsProof(s) ==
  /\ \E code \in Counters \cup {NoCode} : ActsWithProof(s, code) /\ user' = WithProof(code)
  /\ UNCHANGED <<made, session, enrolment, passkeys>>

(* ChangeCredential of a PIN takes a proof; SignOutAll and FinishEmailChange*)
(* take none.  All three end every session.                                *)
ChangePIN(s) ==
  /\ Customer
  /\ \E code \in Counters \cup {NoCode} : ActsWithProof(s, code) /\ user' = WithProof(code)
  /\ session' = AllEnded
  /\ UNCHANGED <<made, enrolment, passkeys>>

SignOutAll(s) ==
  /\ Acts(s)
  /\ session' = AllEnded
  /\ UNCHANGED <<user, made, enrolment, passkeys, accepted>>

CloseAccount(s) ==
  /\ Customer
  /\ \E code \in Counters \cup {NoCode} :
       ActsWithProof(s, code) /\ user' = [WithProof(code) EXCEPT !.closed = TRUE]
  /\ session' = AllEnded
  /\ UNCHANGED <<made, enrolment, passkeys>>

(* SecureAccount with frozen=true, and RevokePasskey, keep the caller.     *)
SecureAccount(s) ==
  /\ Customer
  /\ \E code \in Counters \cup {NoCode} : ActsWithProof(s, code) /\ user' = WithProof(code)
  /\ session' = OthersEnded(s)
  /\ UNCHANGED <<made, enrolment, passkeys>>

RevokePasskey(s) ==
  /\ passkeys > 0
  /\ \E code \in Counters \cup {NoCode} : ActsWithProof(s, code) /\ user' = WithProof(code)
  /\ passkeys' = passkeys - 1
  /\ session' = OthersEnded(s)
  /\ UNCHANGED <<made, enrolment>>

(* RevokeSession takes what Authenticate found and looks no further.       *)
RevokeSession(s, t) ==
  /\ s \in arrived
  /\ arrived' = arrived \ {s}
  /\ session' = [session EXCEPT ![t] = IF @.state = "live" THEN Dead ELSE @]
  /\ UNCHANGED <<account, user, made, enrolment, passkeys, challenge, now, accepted, recovered, reset>>

(* PasskeyBegin and PasskeyFinish for an enrolment: proof at the start,    *)
(* the same session at the end.                                            *)
EnrolmentBegins(s) ==
  /\ account.passkeys /\ Customer /\ passkeys < PasskeyLimit
  /\ \E code \in Counters \cup {NoCode} : ActsWithProof(s, code) /\ user' = WithProof(code)
  /\ enrolment' = [enrolment EXCEPT ![s] = user.password]
  /\ UNCHANGED <<made, session, passkeys>>

OwnCeremony_Any(s, t) == TRUE   \* mutant: any session may finish a ceremony

OwnCeremony(s, t) == t = s

Enrols(s, t) ==
  /\ Acts(s)
  /\ OwnCeremony(s, t) /\ enrolment[t] # 0
  /\ enrolment' = [enrolment EXCEPT ![t] = 0]
  /\ passkeys < PasskeyLimit
  /\ passkeys' = passkeys + 1
  /\ UNCHANGED <<user, made, session, accepted>>

(* The ceremony expires, or its response is invalid.                       *)
EnrolmentEnds(s) ==
  /\ enrolment[s] # 0
  /\ enrolment' = [enrolment EXCEPT ![s] = 0]
  /\ UNCHANGED <<account, user, made, session, arrived, passkeys, challenge, now, accepted, recovered, reset>>

-----------------------------------------------------------------------------
(* RequestChallenge for a reset: the code issued replaces those before it. *)
Waiting(i) == challenge[i].state \in {"open", "lapsed"}
Issued(i)  == challenge[i].state # "none"
Newest(i)  == Issued(i) /\ \A j \in 1..Challenges : j > i => ~Issued(j)
Answers(i) == Waiting(i) /\ \A j \in 1..Challenges : j > i => ~Waiting(j)   \* ORDER BY created_at DESC

Replaced_None == challenge   \* mutant: older codes stay open

Replaced == [i \in 1..Challenges |-> IF Waiting(i) THEN [challenge[i] EXCEPT !.state = "consumed"]
                                     ELSE challenge[i]]

RequestChallenge(i) ==
  /\ Customer /\ ~user.closed
  /\ i <= account.challenges /\ ~Issued(i) /\ \A j \in 1..i - 1 : Issued(j)
  /\ challenge' = [Replaced EXCEPT ![i] = [state |-> "open", attempts |-> 0]]
  /\ UNCHANGED <<account, user, made, session, arrived, enrolment, passkeys, now, accepted, recovered, reset>>

TriedOut(i) == challenge[i].attempts >= AttemptLimit

(* VerifyChallenge with the code of challenge j, or with a guess (j = 0),  *)
(* against the newest unconsumed row i.                                    *)
VerifyChallenge(i, j) ==
  /\ Customer /\ ~user.closed
  /\ Answers(i)
  /\ \/ /\ TriedOut(i) \/ challenge[i].state = "lapsed"
        /\ challenge' = [challenge EXCEPT ![i].state = "consumed"]
        /\ UNCHANGED <<user, session, reset>>
     \/ /\ ~TriedOut(i) /\ challenge[i].state = "open" /\ j # i
        /\ challenge' = [challenge EXCEPT ![i].attempts = IF @ < AttemptLimit THEN @ + 1 ELSE @]
        /\ UNCHANGED <<user, session, reset>>
     \/ /\ ~TriedOut(i) /\ challenge[i].state = "open" /\ j = i
        /\ user.password < account.passwords
        /\ challenge' = [challenge EXCEPT ![i].state = "consumed"]
        /\ user' = [user EXCEPT !.password = @ + 1]
        /\ session' = AllEnded
        /\ reset' = [reset EXCEPT ![i] = @ + 1]
  /\ UNCHANGED <<account, made, arrived, enrolment, passkeys, now, accepted, recovered>>

-----------------------------------------------------------------------------
(* What others and time do.                                                *)
(* customer_sessions_revoke, and role and status decisions about staff.    *)
StaffEndSessions ==
  /\ session' = AllEnded
  /\ UNCHANGED <<account, user, made, arrived, enrolment, passkeys, challenge, now, accepted, recovered, reset>>

RecoveredSessions == AllEnded

(* AcceptStaffRecovery, with a grant (Approvals): a new password and no    *)
(* second factor until one is enrolled again.                              *)
AcceptStaffRecovery ==
  /\ ~Customer /\ user.password < account.passwords
  /\ user' = [user EXCEPT !.password = @ + 1, !.secret = 0, !.pending = 0, !.counter = -1, !.recovery = 0]
  /\ session' = RecoveredSessions
  /\ UNCHANGED <<account, made, arrived, enrolment, passkeys, challenge, now, accepted, recovered, reset>>

(* Refreshing ends: thirty days pass (Scheduler) or a token is replayed.   *)
SessionEnds(s) ==
  /\ session[s].state = "live"
  /\ session' = [session EXCEPT ![s] = Dead]
  /\ UNCHANGED <<account, user, made, arrived, enrolment, passkeys, challenge, now, accepted, recovered, reset>>

PendingLapses ==   \* mfa_pending_expires
  /\ user.pending # 0
  /\ user' = [user EXCEPT !.pending = 0]
  /\ UNCHANGED <<account, made, session, arrived, enrolment, passkeys, challenge, now, accepted, recovered, reset>>

ChallengeLapses(i) ==   \* expires_at passes, or the Scheduler has seen that it did
  /\ Waiting(i)
  /\ challenge' = [challenge EXCEPT ![i].state = IF @ = "open" THEN "lapsed" ELSE "consumed"]
  /\ UNCHANGED <<account, user, made, session, arrived, enrolment, passkeys, now, accepted, recovered, reset>>

Tick ==
  /\ now < account.instants
  /\ now' = now + 1
  /\ UNCHANGED <<account, user, made, session, arrived, enrolment, passkeys, challenge, accepted, recovered, reset>>

SignInStep(s) == \/ LoginVerifies(s) \/ LoginOpens(s) \/ LoginRecovers(s)
                 \/ PasskeyBegins(s) \/ PasskeyOpens(s) \/ SignInFails(s)

RequestStep(s) == \/ Authenticate(s) \/ RequestEnds(s)
                  \/ MFAStart(s) \/ MFAConfirm(s) \/ ChangePassword(s) \/ SpendsProof(s) \/ ChangePIN(s) \/ SignOutAll(s)
                  \/ CloseAccount(s) \/ SecureAccount(s) \/ RevokePasskey(s)
                  \/ \E t \in Sessions : RevokeSession(s, t) \/ Enrols(s, t)
                  \/ EnrolmentBegins(s) \/ EnrolmentEnds(s)

ChallengeStep(i) == \/ RequestChallenge(i) \/ ChallengeLapses(i)
                    \/ \E j \in 0..Challenges : VerifyChallenge(i, j)

Next == \/ \E s \in Sessions : SignInStep(s) \/ RequestStep(s) \/ SessionEnds(s)
        \/ \E i \in 1..Challenges : ChallengeStep(i)
        \/ StaffEndSessions \/ AcceptStaffRecovery \/ PendingLapses \/ Tick

Spec == Init /\ [][Next]_vars

-----------------------------------------------------------------------------
Live(s) == session[s].state = "live"

(* A live session was opened since the password was last set, whoever set  *)
(* it and however: a sign-in that verified the old password before the     *)
(* change and is stored after it does not get in.                          *)
LiveSessionsAreCurrent == \A s \in Sessions : Live(s) => session[s].born = user.password

(* A live session has proved the second factor the account has now: by its *)
(* code, a recovery code of its set or the code that confirmed it; and a   *)
(* staff session is ready for the console (mfa_ready) just when there is   *)
(* one.                                                                    *)
SecondFactorCovered == \A s \in Sessions : Live(s) =>
  /\ session[s].factor = user.secret
  /\ session[s].ready = (Customer \/ user.secret # 0)

(* A code counts once, over sign-ins, confirmations and proofs of all      *)
(* sessions, and across the change of secrets and staff recovery.          *)
CodesWorkOnce == /\ \A k \in 1..Secrets, c \in Counters : accepted[k][c] <= 1
                 /\ \A k \in 1..Secrets : recovered[k] <= 1

(* A session revoked while its request was under way changes no credential,*)
(* enrols nothing and starts nothing: what it read before the revocation   *)
(* counts for nothing.  RevokeSession alone acts on what it read.          *)
SignedOutChangeNothing ==
  [][\A s \in arrived : s \notin arrived' /\ ~Live(s) => UNCHANGED <<user, made, passkeys, enrolment>>]_vars

(* A passkey is stored only by a ceremony begun, with the password, since  *)
(* the password was last set.                                              *)
EnrolledUnderCurrentPassword ==
  [][\A t \in Sessions : arrived' # arrived /\ enrolment[t] # 0 /\ enrolment'[t] = 0
       => enrolment[t] = user.password]_vars

(* A reset code sets a password once, only while it is the last one issued,*)
(* and not once the wrong guesses are used up.                             *)
ResetByNewestCode ==
  [][\A i \in 1..Challenges : reset'[i] # reset[i] =>
       /\ reset[i] = 0 /\ Newest(i)
       /\ challenge[i].attempts < AttemptLimit]_vars

-----------------------------------------------------------------------------
(* Why it holds.  Sign-ins have no request and no ceremony; a ceremony of a*)
(* live session knows the current password; secrets are met in the order   *)
(* they are made; a code accepted for the current secret is not later than *)
(* the counter; the codes of what is not current yet are untouched; at most*)
(* the newest challenge waits.                                             *)
SignInsAreBare == \A s \in Sessions : session[s].state \in {"verifying", "ceremony"} =>
  s \notin arrived /\ enrolment[s] = 0

CeremoniesAreCurrent == \A s \in Sessions : Live(s) /\ enrolment[s] # 0 => enrolment[s] = user.password

SecretsInOrder == /\ user.secret <= made /\ user.pending \in {0, made}
                  /\ user.pending # 0 => user.secret < user.pending
                  /\ user.recovery \in {0, user.secret}

CodesCounted == /\ CodesWorkOnce
                /\ \A k \in 1..Secrets : k > made \/ k = user.pending =>
                     recovered[k] = 0 /\ \A c \in Counters : accepted[k][c] = 0
                /\ \A c \in Counters : user.secret # 0 /\ accepted[user.secret][c] = 1 => c <= user.counter
                /\ user.recovery # 0 => recovered[user.recovery] = 0

NewestWaits == \A i \in 1..Challenges :
  /\ Waiting(i) => Newest(i)
  /\ Issued(i) => \A j \in 1..i : Issued(j)
  /\ Waiting(i) \/ ~Issued(i) => reset[i] = 0

IInv == /\ TypeOK
        /\ LiveSessionsAreCurrent /\ SecondFactorCovered
        /\ SignInsAreBare /\ CeremoniesAreCurrent
        /\ SecretsInOrder /\ CodesCounted /\ NewestWaits
=============================================================================
