------------------------------ MODULE LockOrder -----------------------------
(***************************************************************************)
(* The transactions of the service as sequences of row locks, and what     *)
(* keeps them from waiting for one another in a circle (service/model.go   *)
(* 229-257, payments.go 22-49).  PostgreSQL holds a lock to the end of the *)
(* transaction, notices a circle after a second and aborts a transaction   *)
(* of it; transact tries four times and then gives up.  A call also holds  *)
(* one of the process's connections, and one call asks for a second.       *)
(*                                                                         *)
(* A call is the sequence of its locks.  A row is named by its table and   *)
(* by the customer or member of staff it belongs to.  An INSERT and an     *)
(* UPDATE lock the rows their foreign keys name FOR KEY SHARE, notices     *)
(* (notification_intents.owner_id) among them; those on rows the call has  *)
(* locked already, or has made itself, are left out, and so are the calls  *)
(* that lock their principal's row alone.                                  *)
(***************************************************************************)
EXTENDS Integers, Sequences, FiniteSets

CONSTANTS Txns,
          Customers, Staff,  \* numbers: ids are compared as the code compares strings
          MaxId,
          PoolSize,          \* db.SetMaxOpenConns
          Workloads          \* bound: which calls are made together

ASSUME LockAssumption ==
  /\ MaxId \in Nat /\ PoolSize \in Nat \ {0}
  /\ Customers \subseteq 0..MaxId /\ Staff \subseteq 0..MaxId /\ Customers \cap Staff = {}

VARIABLES
  call,    \* what each transaction does
  phase,   \* "new", "running" (it holds a connection) or "over"
  got,     \* how many of its locks it holds
  tries    \* attempts of transact that a deadlock ended

vars == <<call, phase, got, tries>>

Attempts == 4

-----------------------------------------------------------------------------
(* Locks                                                                   *)

Modes == {"key", "share", "nokey", "update"}
Lock(table, key, mode) == [table |-> table, key |-> key, mode |-> mode, skip |-> FALSE]

Update(table, key)  == Lock(table, key, "update")   \* SELECT ... FOR UPDATE
Written(table, key) == Lock(table, key, "nokey")    \* UPDATE of columns that are no key
Shared(table)       == Lock(table, 0, "share")      \* FOR SHARE of the one row
Only(table)         == Update(table, 0)             \* the one row, or an advisory lock
Referred(c)         == Lock("users", c, "key")      \* named by a foreign key
Skipping(table, c)  == [Update(table, c) EXCEPT !.skip = TRUE]   \* SKIP LOCKED
SecondConnection    == Only("pool")

(* PostgreSQL's table of conflicting row locks.                            *)
Conflict(m, n) ==
  \/ "update" \in {m, n}
  \/ m \in {"share", "nokey"} /\ n \in {"share", "nokey"} /\ ~(m = "share" /\ n = "share")

User(c)   == Update("users", c)
Member(s) == Update("staff", s)          \* the users row of staff

-----------------------------------------------------------------------------
(* Calls in which every lock is in order                                   *)

(* Mutant: the rows are locked as the caller names them.                   *)
LockUsers_AsGiven(c, d) == <<User(c), User(d)>>

LockUsers(c, d) == IF c < d THEN <<User(c), User(d)>> ELSE <<User(d), User(c)>>

(* "house:clearing", "house:fees" and "wallet:..." in this order.          *)
LockWallets(c, d) == IF c < d THEN <<Update("wallet", c), Update("wallet", d)>>
                              ELSE <<Update("wallet", d), Update("wallet", c)>>

PayCustomer(c, d) ==
  LET users   == LockUsers(c, d)
      wallets == LockWallets(c, d)
  IN <<users[1], users[2], Update("session", c), Update("quote", c), Update("authorisation", c),
       Shared("policies"), Only("clearing"), Only("fees"), wallets[1], wallets[2]>>

(* applyRequestShare: the request is the recipient's, the share the payer's. *)
PayShare(c, d) ==
  LET users   == LockUsers(c, d)
      wallets == LockWallets(c, d)
  IN <<users[1], users[2], Update("session", c), Update("quote", c), Update("authorisation", c),
       Shared("policies"), Only("clearing"), Only("fees"), wallets[1], wallets[2],
       Update("request", d), Update("share", c)>>

PayExternal(c) ==
  <<User(c), Update("session", c), Update("quote", c), Shared("product"), Update("authorisation", c),
    Shared("policies"), Only("clearing"), Only("fees"), Update("wallet", c)>>

WorkMandate(c, d) ==
  LET users   == LockUsers(c, d)
      wallets == LockWallets(c, d)
  IN <<users[1], users[2], Update("mandate", c), Shared("policies"), Only("fees"), wallets[1], wallets[2]>>

LeaseJob(c)     == <<Skipping("job", c)>>
BeginPayment(c) == <<User(c), Update("payment", c), Update("job", c)>>
RetryPayment(c) == <<Update("payment", c), Update("job", c)>>
ApplyResult(c)  == <<User(c), Update("payment", c), Update("job", c), Only("clearing"), Update("wallet", c)>>
RetryJob(s, c)  == <<Member(s), Update("payment", c), Written("job", c)>>

CreditFunding(c) == <<Update("evidence", c), User(c), Only("clearing"), Update("wallet", c)>>

CloseAccount(c) ==
  <<User(c), Update("session", c), Update("wallet", c), Written("reminder", c), Written("controls", c),
    Written("mandate", c), Written("funding", c)>>

(* MandateState, ReminderState, SaveIdentityDraft, EscalateCase and others *)
(* that lock one more row of the same customer.                            *)
OwnTables == {"mandate", "reminder", "draft", "upload", "case", "controls", "quote"}
OwnerCall(c, table) == <<User(c), Update("session", c), Update(table, c)>>

(* Codes: the one asked for, the one presented, and the two of a change of *)
(* address, which is also locked by the address it changes to.             *)
RequestChallenge(c)  == <<User(c), Written("challenge", c)>>
VerifyChallenge(c)   ==
  <<User(c), Update("challenge", c), Written("notice", c), Written("session", c)>>
FinishEmailChange(c) ==
  <<User(c), Update("session", c), Update("change", c), Only("address"), Written("notice", c)>>

(* The handle is locked by its name.                                       *)
ChangeControls(c) ==
  <<User(c), Update("session", c), Shared("policies"), Only("handle"), Update("controls", c)>>

CancelRequest(c)     == <<User(c), Update("session", c), Update("request", c)>>
DeclineShare(c, d)   == <<User(c), Update("session", c), Update("request", d), Written("share", c)>>

Refresh(c)           == <<Update("session", c)>>
ScheduleStop(s, c)   == <<Member(s), Only("console"), Written("mandate", c)>>
EmergencyStop(s)     == <<Member(s), Only("console"), Written("policies", 0)>>
RevokeSessions(s, c) == <<Member(s), Only("console"), User(c), Written("session", c)>>
SuppressByStaff(s, c) == <<Member(s), Only("console"), Written("notice", c)>>
InviteStaff(s)       == <<Member(s), Only("address"), Only("invitation")>>
DecideInvitation(s)  == <<Member(s), Only("invitation")>>
ReplyByStaff(s, c)   == <<Member(s), User(c), Update("case", c)>>
DecidePolicy(s)      == <<Member(s), Only("proposal"), Written("policies", 0)>>
DecideStanding(s, c) == <<Member(s), Only("proposal"), User(c)>>
DecideKYC(s, c)      == <<Member(s), Only("proposal"), Update("kyc", c), User(c)>>

Pairs == {p \in Customers \X Customers : p[1] # p[2]}

Orderly ==
  UNION {
    {PayCustomer(p[1], p[2]) : p \in Pairs}, {PayShare(p[1], p[2]) : p \in Pairs},
    {WorkMandate(p[1], p[2]) : p \in Pairs}, {DeclineShare(p[1], p[2]) : p \in Pairs},
    {PayExternal(c) : c \in Customers}, {CreditFunding(c) : c \in Customers},
    {LeaseJob(c) : c \in Customers}, {BeginPayment(c) : c \in Customers},
    {RetryPayment(c) : c \in Customers}, {ApplyResult(c) : c \in Customers},
    {RetryJob(s, c) : s \in Staff, c \in Customers},
    {RequestChallenge(c) : c \in Customers}, {VerifyChallenge(c) : c \in Customers},
    {FinishEmailChange(c) : c \in Customers}, {ChangeControls(c) : c \in Customers},
    {SuppressByStaff(s, c) : s \in Staff, c \in Customers},
    {InviteStaff(s) : s \in Staff}, {DecideInvitation(s) : s \in Staff},
    {CloseAccount(c) : c \in Customers}, {CancelRequest(c) : c \in Customers},
    {OwnerCall(c, table) : c \in Customers, table \in OwnTables},
    {Refresh(c) : c \in Customers}, {ScheduleStop(s, c) : s \in Staff, c \in Customers},
    {EmergencyStop(s) : s \in Staff}, {RevokeSessions(s, c) : s \in Staff, c \in Customers},
    {ReplyByStaff(s, c) : s \in Staff, c \in Customers}, {DecidePolicy(s) : s \in Staff},
    {DecideStanding(s, c) : s \in Staff, c \in Customers},
    {DecideKYC(s, c) : s \in Staff, c \in Customers}}

-----------------------------------------------------------------------------
(* Calls that cross this order, each with the row it takes too late; a     *)
(* work_update locks as a support_assign does.                             *)

WorkReminder(c)        == <<Skipping("reminder", c), Referred(c)>>
RecordFunding(c)       == <<Written("funding", c), Referred(c)>>
RequestMoney(c, d)     == <<User(c), Update("session", c), Referred(d)>>
Remind(c, d)           == <<User(c), Update("session", c), Update("request", c), SecondConnection, Referred(d)>>
BillerObserved(s, c, d) == <<Member(s), Only("biller"), Referred(c), Referred(d)>>
AssignCase(s, o, c)    == <<Member(s), Only("console"), Written("case", c), Lock("staff", o, "key")>>
DecideOnStaff(s, o)    == <<Member(s), Only("console"), Only("control"), Member(o)>>
RecoverStaff(s)        == <<Only("console"), Only("grant"), Member(s)>>

(* The scheduler's sweep of everyone's expired rows, table by table, and   *)
(* that of a worker, which then leases a notice: the rows of a table come  *)
(* in no order, and those of several customers are held at once.           *)
Sweep(table, c, d)     == <<Written(table, c), Written(table, d)>>
ExpireAll(c, d)        == Sweep("notice", c, d) \o Sweep("challenge", c, d) \o Sweep("session", c, d)
LeaseNoticeOf(c, d)    == Sweep("notice", c, d) \o <<Skipping("notice", c)>>

Crossing ==
  UNION {
    {ExpireAll(p[1], p[2]) : p \in Pairs}, {LeaseNoticeOf(p[1], p[2]) : p \in Pairs},
    {WorkReminder(c) : c \in Customers}, {RecordFunding(c) : c \in Customers},
    {RequestMoney(p[1], p[2]) : p \in Pairs}, {Remind(p[1], p[2]) : p \in Pairs},
    {BillerObserved(s, p[1], p[2]) : s \in Staff, p \in Pairs},
    {AssignCase(s, o, c) : s \in Staff, o \in Staff, c \in Customers},
    {DecideOnStaff(s, o) : s \in Staff, o \in Staff}, {RecoverStaff(s) : s \in Staff}}

NoCall == <<>>
Calls  == Orderly \cup Crossing \cup {NoCall}

ASSUME WorkloadsAssumption == Workloads \subseteq [Txns -> Calls]

-----------------------------------------------------------------------------
(* Who waits for whom                                                      *)

Running == {t \in Txns : phase[t] = "running"}
Wants(t) == call[t][got[t] + 1]
Wanting  == {t \in Running : got[t] < Len(call[t])}

SameRow(x, y)  == x.table = y.table /\ x.key = y.key
Excludes(x, y) == SameRow(x, y) /\ Conflict(x.mode, y.mode)

(* u holds a lock that keeps t from the one it wants.                      *)
Blocks(u, t) == u # t /\ \E i \in 1..got[u] : Excludes(call[u][i], Wants(t))

NeedsConnection(t) == t \in Wanting /\ Wants(t) = SecondConnection
FreeConnection     == Cardinality(Running) < PoolSize
Granted(t)         == \A u \in Running : ~Blocks(u, t)

(* A standstill: each waits for a row that another of them holds, or for a *)
(* connection while they hold them all.                                    *)
Standstill(S) ==
  /\ S # {} /\ S \subseteq Wanting
  /\ \A t \in S :
       \/ ~NeedsConnection(t) /\ \E u \in S : Blocks(u, t)
       \/ NeedsConnection(t) /\ ~FreeConnection /\ Running = S

(* What PostgreSQL sees: a circle of row locks through t.                  *)
InCircle(t) ==
  \E S \in SUBSET Wanting :
    /\ t \in S
    /\ \A u \in S : /\ ~NeedsConnection(u)
                    /\ \E v \in S : Blocks(u, v)
                    /\ \E v \in S : Blocks(v, u)

-----------------------------------------------------------------------------
Begin(t) ==
  /\ phase[t] = "new" /\ FreeConnection
  /\ phase' = [phase EXCEPT ![t] = "running"]
  /\ UNCHANGED <<call, got, tries>>

Acquire(t) ==
  /\ t \in Wanting
  /\ IF NeedsConnection(t) THEN FreeConnection ELSE Granted(t)
  /\ got' = [got EXCEPT ![t] = @ + 1]
  /\ UNCHANGED <<call, phase, tries>>

Ends(t) ==
  /\ phase' = [phase EXCEPT ![t] = "over"]
  /\ got' = [got EXCEPT ![t] = 0]
  /\ UNCHANGED <<call, tries>>

Commit(t) == phase[t] = "running" /\ got[t] = Len(call[t]) /\ Ends(t)

(* SKIP LOCKED: there is nothing to do.                                    *)
SkipLocked(t) == t \in Wanting /\ Wants(t).skip /\ ~Granted(t) /\ Ends(t)

(* The client leaves or the process stops; a check refuses the call.       *)
RollBack(t) == phase[t] = "running" /\ Ends(t)

(* The victim tries again, or answers 503 after its last attempt.          *)
Deadlocked(t) ==
  /\ InCircle(t)
  /\ tries' = [tries EXCEPT ![t] = @ + 1]
  /\ phase' = [phase EXCEPT ![t] = IF tries[t] + 1 < Attempts THEN "new" ELSE "over"]
  /\ got' = [got EXCEPT ![t] = 0]
  /\ UNCHANGED call

Init ==
  /\ call \in Workloads
  /\ phase = [t \in Txns |-> IF call[t] = NoCall THEN "over" ELSE "new"]
  /\ got = [t \in Txns |-> 0]
  /\ tries = [t \in Txns |-> 0]

Next ==
  \E t \in Txns :
    Begin(t) \/ Acquire(t) \/ Commit(t) \/ SkipLocked(t) \/ RollBack(t) \/ Deadlocked(t)

Spec == Init /\ [][Next]_vars

-----------------------------------------------------------------------------
(* Properties                                                              *)

(* Payments, scheduled transfers, the payment worker, funding, closures,   *)
(* codes, decisions and a customer's own calls never wait for one another  *)
(* in a circle, whatever rows they share: every standstill has a call in   *)
(* it that takes a row out of order (lockUsers, lockAccounts, and "the     *)
(* same payment-before-job locking order", worker.go 122).                 *)
OrderlyNeverStandStill ==
  \A S \in SUBSET Txns : Standstill(S) => \E t \in S : call[t] \in Crossing
=============================================================================
