------------------------- MODULE LocksAndLeasesProofs -------------------------
(***************************************************************************)
(* Proofs about Notifications and LockOrder, which both ask who holds what *)
(* while others want it: the leases of notices, and the rows and locks of  *)
(* database transactions.                                                  *)
(***************************************************************************)
EXTENDS Notifications, LockOrder, WellFoundedInduction, TLAPS

-----------------------------------------------------------------------------
(***************************************************************************)
(* Novu is called at most once for a notice, for any number of notices and *)
(* workers.  The argument: a notice enters the queue only when it is       *)
(* written, or when the one worker that holds it puts it back before       *)
(* calling Novu; so it is leased while nobody holds it, and the round that *)
(* calls Novu was the only one and does not put it back.                   *)
(***************************************************************************)

USE NoticeAssumption

(* A worker that is not idle is in a round of a notice.                    *)
LEMMA BusyRound ==
  ASSUME NoticeTypeOK, NEW w \in Workers, worker[w].stage # "idle"
  PROVE  worker[w] \in Round
  BY DEF NoticeTypeOK, Idle

(* Ending a round leaves the holders of every notice as they are, less one. *)
LEMMA EndRoundInv ==
  ASSUME NoticeTypeOK, NEW w \in Workers, EndRound(w)
  PROVE  /\ worker' \in [Workers -> Round \cup {Idle}]
         /\ \A n : ~Holds(w, n)'
         /\ \A v \in Workers \ {w} : worker'[v] = worker[v]
         /\ \A v \in Workers : \A n : Holds(v, n)' => v # w /\ Holds(v, n) /\ worker'[v] = worker[v]
<1>1. /\ worker' \in [Workers -> Round \cup {Idle}]
      /\ worker'[w] = Idle
      /\ \A v \in Workers \ {w} : worker'[v] = worker[v]
  BY DEF NoticeTypeOK, EndRound
<1>2. \A n : ~Holds(w, n)'
  BY <1>1 DEF Holds, Idle
<1>3. \A v \in Workers : \A n : Holds(v, n)' => v # w /\ Holds(v, n) /\ worker'[v] = worker[v]
  BY <1>1, <1>2 DEF Holds
<1> QED BY <1>1, <1>2, <1>3

(* A round that just ends disturbs nothing.                                *)
LEMMA FewerHolders ==
  ASSUME NoticeInv, NEW w \in Workers, EndRound(w), UNCHANGED <<rows, facts, posts>>
  PROVE  NoticeInv'
<1> USE DEF NoticeInv
<1>1. /\ worker' \in [Workers -> Round \cup {Idle}]
      /\ \A v \in Workers : \A n : Holds(v, n)' => v # w /\ Holds(v, n) /\ worker'[v] = worker[v]
  BY EndRoundInv
<1>2. NoticeTypeOK' /\ SubmittedAtMostOnce' /\ StateTellsOfPosts'
  BY <1>1 DEF NoticeTypeOK, rows, facts, SubmittedAtMostOnce, StateTellsOfPosts
<1>3. HolderInv'
  BY <1>1 DEF HolderInv, Closed, rows
<1> QED BY <1>2, <1>3

(* The initial states satisfy the invariant.                               *)
LEMMA InitInv == NoticeInit => NoticeInv
  BY DEF NoticeInit, NoticeInv, NoticeTypeOK, SubmittedAtMostOnce, StateTellsOfPosts, HolderInv, Closed, Holds, Idle, Settled

(* A step of the invariant, one case for each action.                      *)
LEMMA StepInv == NoticeInv /\ [NoticeNext]_noticeVars => NoticeInv'
<1> SUFFICES ASSUME NoticeInv, [NoticeNext]_noticeVars PROVE NoticeInv'
  OBVIOUS
<1> USE DEF NoticeInv
<1>0. CASE UNCHANGED noticeVars
  BY <1>0 DEF noticeVars, rows, facts, NoticeTypeOK, SubmittedAtMostOnce, StateTellsOfPosts, HolderInv, Closed, Holds
<1>1. ASSUME NEW n \in Notices, NoticeStep(n) PROVE NoticeInv'
  <2>1. NoticeTypeOK'
    BY <1>1 DEF NoticeStep, Notify, StaffSuppress, CodeUsed, NoLongerWanted, LeaseLapses, WaitEnds,
       Expires, Becomes, Suppressible, NoticeTypeOK, Settled, rows, facts
  <2>2. SubmittedAtMostOnce'
    BY <1>1 DEF NoticeStep, Notify, StaffSuppress, CodeUsed, NoLongerWanted, LeaseLapses, WaitEnds,
       Expires, SubmittedAtMostOnce
  <2>3. StateTellsOfPosts'
    BY <1>1 DEF NoticeStep, Notify, StaffSuppress, CodeUsed, NoLongerWanted, LeaseLapses, WaitEnds,
       Expires, Becomes, Suppressible, NoticeTypeOK, StateTellsOfPosts, rows, facts
  <2>4. HolderInv'
    BY <1>1 DEF NoticeStep, Notify, StaffSuppress, CodeUsed, NoLongerWanted, LeaseLapses, WaitEnds,
       Expires, Becomes, Suppressible, NoticeTypeOK, StateTellsOfPosts, HolderInv, Closed, Holds, rows, facts
  <2> QED BY <2>1, <2>2, <2>3, <2>4
<1>2. CASE Scheduler
  <2>1. NoticeTypeOK' /\ SubmittedAtMostOnce' /\ StateTellsOfPosts'
    BY <1>2 DEF Scheduler, Expirable, NoticeTypeOK, Settled, facts, SubmittedAtMostOnce, StateTellsOfPosts
  <2>2. HolderInv'
    BY <1>2 DEF Scheduler, Expirable, NoticeTypeOK, facts, HolderInv, Closed, Holds
  <2> QED BY <2>1, <2>2
<1>3. ASSUME NEW w \in Workers, WorkerStep(w) PROVE NoticeInv'
  <2>1. ASSUME NEW n \in Notices, LeaseNotice(w, n) PROVE NoticeInv'
    <3>0. worker' \in [Workers -> Round \cup {Idle}]
      <4>1. [Idle EXCEPT !.stage = "leased", !.notice = n] \in Round
        BY DEF Idle, Round, Answers
      <4> QED BY <2>1, <4>1 DEF LeaseNotice, NoticeTypeOK
    <3>1. NoticeTypeOK' /\ SubmittedAtMostOnce'
      BY <2>1, <3>0 DEF LeaseNotice, Swept, AfterLapse, NoticeTypeOK, Settled, facts, SubmittedAtMostOnce
    <3>2. n \notin lapsed /\ state[n] = "queued"
      BY <2>1 DEF LeaseNotice, Due, Swept, AfterLapse
    <3>3. StateTellsOfPosts'
      BY <2>1, <3>2 DEF LeaseNotice, Swept, AfterLapse, NoticeTypeOK, StateTellsOfPosts
    <3>4. posts[n] = 0 /\ \A v \in Workers : ~Holds(v, n)
      BY <3>2 DEF StateTellsOfPosts, HolderInv, Closed
    <3>5. Holds(w, n)' /\ worker'[w].stage = "leased" /\ worker'[w].notice = n
      BY <2>1 DEF LeaseNotice, Holds, NoticeTypeOK, Idle
    <3>6. \A v \in Workers \ {w} : worker'[v] = worker[v]
      BY <2>1 DEF LeaseNotice, NoticeTypeOK
    <3>7. posts' = posts /\ lapsed' = {} /\ state' = [Swept EXCEPT ![n] = "leased"]
      BY <2>1 DEF LeaseNotice
    <3>8. HolderInv'
      BY <3>4, <3>5, <3>6, <3>7 DEF HolderInv, Closed, Holds, Swept, AfterLapse, NoticeTypeOK
    <3> QED BY <3>1, <3>3, <3>8
  <2>2. CASE SweepOnly(w)
    BY <2>2 DEF SweepOnly, Swept, AfterLapse, NoticeTypeOK, Settled, facts, SubmittedAtMostOnce,
       StateTellsOfPosts, HolderInv, Closed, Holds
  <2>3. CASE PutBack(w)
    <3>1. worker[w] \in Round /\ Holds(w, worker[w].notice)
      BY <2>3, BusyRound DEF PutBack, Holds
    <3>2. posts[worker[w].notice] = 0
      BY <2>3, <3>1 DEF PutBack, HolderInv, Round, NoticeTypeOK, SubmittedAtMostOnce
    <3>3. NoticeTypeOK' /\ SubmittedAtMostOnce'
      <4>1. worker[w].notice \in Notices
        BY <3>1 DEF Round
      <4> QED BY <2>3, <4>1, EndRoundInv DEF PutBack, Becomes, NoticeTypeOK, facts, SubmittedAtMostOnce
    <3>4. StateTellsOfPosts'
      BY <2>3, <3>1, <3>2 DEF PutBack, Becomes, NoticeTypeOK, StateTellsOfPosts, Round
    <3>5. HolderInv'
      BY <2>3, <3>1, EndRoundInv DEF PutBack, Becomes, NoticeTypeOK, HolderInv, Closed, Holds, Round
    <3> QED BY <3>3, <3>4, <3>5
  <2>4. CASE Refuse(w)
    <3>1. worker[w] \in Round /\ Holds(w, worker[w].notice)
      BY <2>4, BusyRound DEF Refuse, Holds
    <3>2. NoticeTypeOK' /\ SubmittedAtMostOnce' /\ StateTellsOfPosts'
      BY <2>4, <3>1, EndRoundInv DEF Refuse, Becomes, NoticeTypeOK, Round, Settled, facts,
         SubmittedAtMostOnce, StateTellsOfPosts
    <3>3. HolderInv'
      BY <2>4, <3>1, EndRoundInv DEF Refuse, Becomes, NoticeTypeOK, HolderInv, Closed, Holds, Round
    <3> QED BY <3>2, <3>3
  <2>5. CASE Pass(w)
    <3>1. worker[w] \in Round
      BY <2>5, BusyRound DEF Pass
    <3>2. /\ worker'[w] \in Round /\ worker'[w].notice = worker[w].notice
          /\ worker'[w].stage = "eligible" /\ worker[w].stage = "leased"
          /\ \A v \in Workers \ {w} : worker'[v] = worker[v]
      BY <2>5, <3>1 DEF Pass, NoticeTypeOK, Round
    <3>3. NoticeTypeOK' /\ SubmittedAtMostOnce' /\ StateTellsOfPosts'
      BY <2>5, <3>1, <3>2 DEF Pass, NoticeTypeOK, rows, facts, SubmittedAtMostOnce, StateTellsOfPosts
    <3>4. \A v \in Workers, n \in Notices :
            /\ Holds(v, n)' = Holds(v, n)
            /\ (worker'[v].stage = "posted") = (worker[v].stage = "posted")
      BY <3>2 DEF Holds
    <3>5. HolderInv'
      BY <2>5, <3>4 DEF Pass, HolderInv, Closed, rows
    <3> QED BY <3>3, <3>5
  <2>6. CASE Post(w)
    <3>1. PICK n \in Notices : n = worker[w].notice
      BY <2>6, BusyRound DEF Post, Round
    <3>2. /\ worker[w] \in Round /\ worker[w].stage = "eligible" /\ Holds(w, n)
          /\ posts' = [posts EXCEPT ![n] = @ + 1]
      BY <2>6, <3>1, BusyRound DEF Post, Holds
    <3>3. posts[n] = 0 /\ posts'[n] = 1 /\ \A m \in Notices \ {n} : posts'[m] = posts[m]
      BY <3>2 DEF HolderInv, Closed, NoticeTypeOK, SubmittedAtMostOnce
    <3>4. /\ worker'[w] \in Round /\ worker'[w].notice = n /\ worker'[w].stage = "posted"
          /\ \A v \in Workers \ {w} : worker'[v] = worker[v]
      <4>1. PICK a \in Answers :
              worker' = [worker EXCEPT ![w] = [@ EXCEPT !.stage = "posted", !.answer = a]]
        BY <2>6 DEF Post
      <4>2. [worker[w] EXCEPT !.stage = "posted", !.answer = a] \in Round
        BY <3>2 DEF Round
      <4> QED BY <4>1, <4>2, <3>1, <3>2 DEF NoticeTypeOK, Round
    <3>5. state[n] \notin {"none", "queued"}
      BY <3>2 DEF HolderInv, Closed
    <3>6. NoticeTypeOK' /\ SubmittedAtMostOnce'
      <4>1. worker' \in [Workers -> Round \cup {Idle}]
        <5>1. DOMAIN worker' = Workers /\ worker' = [v \in Workers |-> worker'[v]]
          BY <2>6 DEF Post, NoticeTypeOK
        <5> QED BY <3>4, <5>1 DEF NoticeTypeOK
      <4>2. posts' \in [Notices -> Nat]
        BY <3>2 DEF NoticeTypeOK
      <4> QED BY <2>6, <3>3, <4>1, <4>2 DEF Post, NoticeTypeOK, rows, facts, SubmittedAtMostOnce
    <3>7. StateTellsOfPosts'
      BY <2>6, <3>2, <3>3, <3>5 DEF Post, rows, StateTellsOfPosts, HolderInv, Closed
    <3>8. \A v \in Workers, m \in Notices : Holds(v, m)' = Holds(v, m)
      BY <3>1, <3>2, <3>4 DEF Holds
    <3>9. \A v \in Workers, m \in Notices : Holds(v, m)' =>
            (worker'[v].stage = "posted" <=> posts'[m] = 1)
      <4> SUFFICES ASSUME NEW v \in Workers, NEW m \in Notices, Holds(v, m)'
                   PROVE  worker'[v].stage = "posted" <=> posts'[m] = 1
        OBVIOUS
      <4>1. CASE v = w
        BY <4>1, <3>3, <3>4 DEF Holds
      <4>2. CASE v # w
        <5>1. m # n
          BY <4>2, <3>2, <3>8 DEF HolderInv, Closed
        <5> QED BY <5>1, <4>2, <3>3, <3>4, <3>8 DEF HolderInv, Closed
      <4> QED BY <4>1, <4>2
    <3>10. HolderInv'
      BY <2>6, <3>8, <3>9 DEF Post, HolderInv, Closed, rows
    <3> QED BY <3>6, <3>7, <3>10
  <2>7. CASE Record(w)
    <3>1. PICK n \in Notices : n = worker[w].notice
      BY <2>7, BusyRound DEF Record, Round
    <3>2. worker[w] \in Round /\ worker[w].stage = "posted" /\ Holds(w, n) /\ posts[n] = 1
      BY <2>7, <3>1, BusyRound DEF Record, Holds, HolderInv
    <3>3. CASE state[n] = "leased"
      <4>1. StateFor(worker[w].answer) \in {"submitted", "dead", "unknown"}
        BY DEF StateFor
      <4>2. state' = [state EXCEPT ![n] = StateFor(worker[w].answer)] /\ lapsed' = lapsed \ {n}
        BY <2>7, <3>1, <3>3 DEF Record, Becomes
      <4>3. /\ worker' \in [Workers -> Round \cup {Idle}]
            /\ \A v \in Workers : \A m : Holds(v, m)' => v # w /\ Holds(v, m) /\ worker'[v] = worker[v]
        BY <2>7, EndRoundInv DEF Record
      <4>4. NoticeTypeOK' /\ SubmittedAtMostOnce'
        BY <2>7, <4>1, <4>2, <4>3 DEF Record, NoticeTypeOK, Settled, facts, SubmittedAtMostOnce
      <4>5. StateTellsOfPosts'
        BY <2>7, <4>1, <4>2, <3>2 DEF Record, NoticeTypeOK, StateTellsOfPosts
      <4>6. \A v \in Workers : ~Holds(v, n)'
        BY <4>3, <3>2 DEF HolderInv, Closed
      <4>7. HolderInv'
        <5>1. posts' = posts /\ \A m \in Notices \ {n} : state'[m] = state[m]
          BY <2>7, <4>2 DEF Record, NoticeTypeOK
        <5>2. \A m \in lapsed' : state'[m] = "leased"
          BY <4>2, <5>1 DEF HolderInv, Closed, NoticeTypeOK
        <5>3. \A v \in Workers, m \in Notices : Holds(v, m)' =>
                /\ state'[m] \notin {"none", "queued"}
                /\ worker'[v].stage = "posted" <=> posts'[m] = 1
          BY <4>3, <4>6, <5>1 DEF HolderInv, Closed
        <5>4. \A v, u \in Workers, m \in Notices : Holds(v, m)' /\ Holds(u, m)' => v = u
          BY <4>3 DEF HolderInv, Closed
        <5>5. \A m \in Notices : Closed(m)' => \A v \in Workers : ~Holds(v, m)'
          BY <4>3, <4>6, <5>1 DEF HolderInv, Closed
        <5> QED BY <5>2, <5>3, <5>4, <5>5 DEF HolderInv, Closed
      <4> QED BY <4>4, <4>5, <4>7
    <3>4. CASE state[n] # "leased"
      <4>1. UNCHANGED <<rows, facts, posts>> /\ EndRound(w)
        BY <2>7, <3>1, <3>4 DEF Record, rows
      <4> QED BY <4>1, FewerHolders
    <3> QED BY <3>3, <3>4
  <2>8. CASE Crash(w)
    BY <2>8, FewerHolders DEF Crash
  <2> QED BY <1>3, <2>1, <2>2, <2>3, <2>4, <2>5, <2>6, <2>7, <2>8 DEF WorkerStep
<1> QED BY <1>0, <1>1, <1>2, <1>3 DEF NoticeNext, Quiet

(* The invariant of every behaviour.                                       *)
THEOREM NoticeInvariant == NoticeSpec => []NoticeInv
  BY InitInv, StepInv, PTL DEF NoticeSpec

(* Novu is called at most once for a notice (WorkNotification).            *)
THEOREM OnePost == NoticeSpec => []SubmittedAtMostOnce
<1>1. NoticeInv => SubmittedAtMostOnce
  BY DEF NoticeInv
<1> QED BY <1>1, NoticeInvariant, PTL

(* The recorded state of a notice tells whether it was handed over: what   *)
(* is queued was not, what is submitted or dead was.                       *)
THEOREM TruthfulState == NoticeSpec => []StateTellsOfPosts
<1>1. NoticeInv => StateTellsOfPosts
  BY DEF NoticeInv
<1> QED BY <1>1, NoticeInvariant, PTL

(* A notice that is no code and was suppressed stays suppressed (staff     *)
(* suppression admin_commands.go 238, refusals of WorkNotification).       *)
THEOREM SuppressionStays == NoticeSpec => SuppressionIsFinal
<1> DEFINE Kept == \A n \in Notices \ Codes : state[n] = "suppressed" => state'[n] = "suppressed"
<1>1. NoticeInv /\ [NoticeNext]_noticeVars => [Kept]_noticeVars
  <2> SUFFICES ASSUME NoticeInv, NoticeNext, NEW n \in Notices \ Codes, state[n] = "suppressed"
               PROVE  state'[n] = "suppressed"
    OBVIOUS
  <2>1. NoticeTypeOK /\ n \notin lapsed /\ \A w \in Workers : ~Holds(w, n)
    BY DEF NoticeInv, HolderInv, Closed
  <2>2. ASSUME NEW m \in Notices, NoticeStep(m) PROVE state'[n] = "suppressed"
    BY <2>2, <2>1 DEF NoticeStep, Notify, StaffSuppress, CodeUsed, NoLongerWanted, LeaseLapses,
       WaitEnds, Expires, Becomes, Suppressible, NoticeTypeOK, rows, facts
  <2>3. CASE Scheduler
    BY <2>3 DEF Scheduler, Expirable
  <2>4. ASSUME NEW w \in Workers, WorkerStep(w) PROVE state'[n] = "suppressed"
    <3>1. ASSUME NEW m \in Notices, LeaseNotice(w, m) PROVE state'[n] = "suppressed"
      <4>1. m # n
        BY <3>1, <2>1 DEF LeaseNotice, Due, Swept
      <4> QED BY <3>1, <2>1, <4>1 DEF LeaseNotice, Swept
    <3>2. CASE SweepOnly(w)
      BY <3>2, <2>1 DEF SweepOnly, Swept
    <3>3. worker[w].stage # "idle" => worker[w].notice # n
      BY <2>1, <2>4 DEF Holds
    <3>4. CASE PutBack(w) \/ Refuse(w) \/ Record(w)
      BY <3>4, <3>3, <2>1 DEF PutBack, Refuse, Record, Becomes, NoticeTypeOK
    <3>5. CASE Pass(w) \/ Post(w) \/ Crash(w)
      BY <3>5 DEF Pass, Post, Crash, rows
    <3> QED BY <2>4, <3>1, <3>2, <3>4, <3>5 DEF WorkerStep
  <2> QED BY <2>2, <2>3, <2>4 DEF NoticeNext, Quiet, noticeVars, rows
<1> QED BY <1>1, NoticeInvariant, PTL DEF NoticeSpec, SuppressionIsFinal
-----------------------------------------------------------------------------
(***************************************************************************)
(* Orderly calls never stand still, for any number of transactions,        *)
(* customers and members of staff.                                         *)
(*                                                                         *)
(* The argument: a lock of an orderly call is either behind the users row  *)
(* of the customer it belongs to, which keeps other orderly calls away, or *)
(* it ranks above every lock taken before it.  So in a standstill of       *)
(* orderly calls each waits for one that waits for a row of higher rank,   *)
(* and there is a highest.                                                 *)
(***************************************************************************)

(* The rows of one customer that his own calls lock behind his users row.  *)
Owned == {"session", "quote", "authorisation", "wallet", "mandate", "reminder", "controls",
          "funding", "draft", "upload", "case", "challenge", "change", "notice"}
Gated(x) == x.table \in Owned

Rank(x) ==
  IF x.table = "staff" THEN 0
  ELSE IF x.table = "console" THEN 1
  ELSE IF x.table = "proposal" THEN 2
  ELSE IF x.table = "kyc" THEN 3
  ELSE IF x.table = "evidence" THEN 4
  ELSE IF x.table = "users" THEN 5 + x.key
  ELSE IF x.table \in Owned THEN MaxId + 6
  ELSE IF x.table = "product" THEN MaxId + 7
  ELSE IF x.table = "policies" THEN MaxId + 8
  ELSE IF x.table = "payment" THEN MaxId + 9
  ELSE IF x.table = "job" THEN MaxId + 10
  ELSE IF x.table = "clearing" THEN MaxId + 11
  ELSE IF x.table = "fees" THEN MaxId + 12
  ELSE IF x.table = "request" THEN MaxId + 13
  ELSE IF x.table = "share" THEN MaxId + 14
  ELSE IF x.table = "handle" THEN MaxId + 15
  ELSE IF x.table = "address" THEN MaxId + 16
  ELSE MaxId + 17

Highest == MaxId + 17

(* What an orderly call keeps to at its j-th lock.                         *)
Behind(L, j)    == Gated(L[j]) /\ \E i \in 1..(j - 1) : L[i] = User(L[j].key)
Ascending(L, j) == /\ \A i \in 1..(j - 1) : Rank(L[i]) < Rank(L[j])
                   /\ Gated(L[j]) => j = Len(L)

Kept(L, j) == /\ L[j].table = "users" => L[j].key \in 0..MaxId
              /\ L[j].table # "pool"
              /\ Behind(L, j) \/ Ascending(L, j)

Disciplined(L) == Len(L) \in Nat /\ \A j \in 1..Len(L) : Kept(L, j)

-----------------------------------------------------------------------------
(* The greatest element of a bounded set of numbers.                       *)
LEMMA LeastOf ==
  ASSUME NEW T, T \subseteq Nat, T # {}
  PROVE  \E x \in T : \A y \in T : x <= y
<1>1. PICK x \in T : \A y \in T : <<y, x>> \notin OpToRel(<, Nat)
  BY NatLessThanWellFounded, WFMin
<1>2. \A y \in T : ~(y < x)
  BY <1>1 DEF OpToRel
<1> QED
  BY <1>2

LEMMA GreatestOf ==
  ASSUME NEW N \in Nat, NEW T, T \subseteq 0..N, T # {}
  PROVE  \E x \in T : \A y \in T : y <= x
<1> DEFINE D == {N - y : y \in T}
<1>1. D \subseteq Nat /\ D # {}
  <2>1. PICK y \in T : TRUE
    OBVIOUS
  <2>2. N - y \in D
    BY <2>1
  <2>3. \A e \in D : e \in Nat
    OBVIOUS
  <2> QED
    BY <2>2, <2>3
<1>2. PICK d \in D : \A e \in D : d <= e
  BY <1>1, LeastOf
<1>3. PICK x \in T : d = N - x
  BY <1>2
<1>4. \A y \in T : N - x <= N - y
  BY <1>2, <1>3
<1> QED
  BY <1>3, <1>4

-----------------------------------------------------------------------------
(* Every orderly call is disciplined.                                      *)
LEMMA IdsBounded ==
  /\ \A c \in Customers : c \in 0..MaxId
  /\ \A s \in Staff : s \in 0..MaxId
  /\ MaxId \in Nat
BY LockAssumption

(* The row of a lock.                                                      *)
LEMMA Rows ==
  /\ \A table, key : Update(table, key).table = table /\ Update(table, key).key = key
  /\ \A table, key : Written(table, key).table = table /\ Written(table, key).key = key
  /\ \A table : Shared(table).table = table /\ Only(table).table = table
  /\ \A table, c : Skipping(table, c).table = table
  /\ \A c : User(c).table = "users" /\ User(c).key = c
  /\ \A s : Member(s).table = "staff"
BY DEF Update, Written, Shared, Only, Skipping, User, Member, Lock

LEMMA Ranks ==
  ASSUME NEW x
  PROVE  /\ x.table = "staff" => Rank(x) = 0 /\ ~Gated(x)
         /\ x.table = "console" => Rank(x) = 1 /\ ~Gated(x)
         /\ x.table = "proposal" => Rank(x) = 2 /\ ~Gated(x)
         /\ x.table = "kyc" => Rank(x) = 3 /\ ~Gated(x)
         /\ x.table = "evidence" => Rank(x) = 4 /\ ~Gated(x)
         /\ x.table = "users" => Rank(x) = 5 + x.key /\ ~Gated(x)
         /\ Gated(x) => Rank(x) = MaxId + 6
         /\ x.table = "product" => Rank(x) = MaxId + 7 /\ ~Gated(x)
         /\ x.table = "policies" => Rank(x) = MaxId + 8 /\ ~Gated(x)
         /\ x.table = "payment" => Rank(x) = MaxId + 9 /\ ~Gated(x)
         /\ x.table = "job" => Rank(x) = MaxId + 10 /\ ~Gated(x)
         /\ x.table = "clearing" => Rank(x) = MaxId + 11 /\ ~Gated(x)
         /\ x.table = "fees" => Rank(x) = MaxId + 12 /\ ~Gated(x)
         /\ x.table = "request" => Rank(x) = MaxId + 13 /\ ~Gated(x)
         /\ x.table = "share" => Rank(x) = MaxId + 14 /\ ~Gated(x)
         /\ x.table = "handle" => Rank(x) = MaxId + 15 /\ ~Gated(x)
         /\ x.table = "address" => Rank(x) = MaxId + 16 /\ ~Gated(x)
         /\ x.table = "invitation" => Rank(x) = MaxId + 17 /\ ~Gated(x)
BY DEF Rank, Gated, Owned

LEMMA PairInOrder ==
  ASSUME NEW c \in Customers, NEW d \in Customers, c # d
  PROVE  \E a \in 0..MaxId, b \in 0..MaxId :
           /\ a < b /\ c \in {a, b} /\ d \in {a, b} /\ LockUsers(c, d) = <<User(a), User(b)>>
           /\ LockWallets(c, d) = <<Update("wallet", a), Update("wallet", b)>>
<1>1. CASE c < d
  <2>1. /\ LockUsers(c, d) = <<User(c), User(d)>>
        /\ LockWallets(c, d) = <<Update("wallet", c), Update("wallet", d)>>
    BY <1>1 DEF LockUsers, LockWallets
  <2> QED
    BY <1>1, <2>1, IdsBounded
<1>2. CASE ~(c < d)
  <2>1. /\ LockUsers(c, d) = <<User(d), User(c)>>
        /\ LockWallets(c, d) = <<Update("wallet", d), Update("wallet", c)>>
    BY <1>2 DEF LockUsers, LockWallets
  <2>2. d < c
    BY <1>2, IdsBounded
  <2> QED
    BY <2>1, <2>2, IdsBounded
<1> QED
  BY <1>1, <1>2

LEMMA PayCustomerKept == \A p \in Pairs : Disciplined(PayCustomer(p[1], p[2]))
<1> SUFFICES ASSUME NEW c \in Customers, NEW d \in Customers, c # d PROVE Disciplined(PayCustomer(c, d))
  BY DEF Pairs
<1> DEFINE L == PayCustomer(c, d)
<1>0. PICK a \in 0..MaxId, b \in 0..MaxId :
         /\ a < b /\ c \in {a, b} /\ d \in {a, b} /\ LockUsers(c, d) = <<User(a), User(b)>>
         /\ LockWallets(c, d) = <<Update("wallet", a), Update("wallet", b)>>
  BY PairInOrder
<1>1. /\ Len(L) = 10 /\ L[1] = User(a) /\ L[1].table = "users" /\ L[1].key = a
      /\ L[2] = User(b) /\ L[2].table = "users" /\ L[2].key = b /\ L[3].table = "session"
      /\ L[3].key = c /\ L[4].table = "quote" /\ L[4].key = c /\ L[5].table = "authorisation"
      /\ L[5].key = c /\ L[6].table = "policies" /\ L[7].table = "clearing"
      /\ L[8].table = "fees" /\ L[9].table = "wallet" /\ L[9].key = a
      /\ L[10].table = "wallet" /\ L[10].key = b
  BY <1>0, Rows DEF PayCustomer
<1> HIDE DEF L
<1>2. \A j \in {3, 4, 5, 9, 10} : Kept(L, j)
  BY <1>0, <1>1 DEF Kept, Behind, Gated, Owned
<1>3. /\ Rank(L[1]) = 5 + a /\ Rank(L[2]) = 5 + b /\ Rank(L[3]) = MaxId + 6
      /\ Rank(L[4]) = MaxId + 6 /\ Rank(L[5]) = MaxId + 6 /\ Rank(L[6]) = MaxId + 8
      /\ Rank(L[7]) = MaxId + 11 /\ Rank(L[8]) = MaxId + 12
      /\ \A j \in {1, 2, 6, 7, 8} : ~Gated(L[j])
  BY <1>1, Ranks DEF Gated, Owned
<1>4. \A j \in {1, 2, 6, 7, 8} : Kept(L, j)
  BY <1>0, <1>1, <1>3, IdsBounded DEF Kept, Ascending
<1> QED
  BY <1>1, <1>2, <1>4 DEF Disciplined, L

LEMMA PayShareKept == \A p \in Pairs : Disciplined(PayShare(p[1], p[2]))
<1> SUFFICES ASSUME NEW c \in Customers, NEW d \in Customers, c # d PROVE Disciplined(PayShare(c, d))
  BY DEF Pairs
<1> DEFINE L == PayShare(c, d)
<1>0. PICK a \in 0..MaxId, b \in 0..MaxId :
         /\ a < b /\ c \in {a, b} /\ d \in {a, b} /\ LockUsers(c, d) = <<User(a), User(b)>>
         /\ LockWallets(c, d) = <<Update("wallet", a), Update("wallet", b)>>
  BY PairInOrder
<1>1. /\ Len(L) = 12 /\ L[1] = User(a) /\ L[1].table = "users" /\ L[1].key = a
      /\ L[2] = User(b) /\ L[2].table = "users" /\ L[2].key = b /\ L[3].table = "session"
      /\ L[3].key = c /\ L[4].table = "quote" /\ L[4].key = c /\ L[5].table = "authorisation"
      /\ L[5].key = c /\ L[6].table = "policies" /\ L[7].table = "clearing"
      /\ L[8].table = "fees" /\ L[9].table = "wallet" /\ L[9].key = a
      /\ L[10].table = "wallet" /\ L[10].key = b /\ L[11].table = "request"
      /\ L[12].table = "share"
  BY <1>0, Rows DEF PayShare
<1> HIDE DEF L
<1>2. \A j \in {3, 4, 5, 9, 10} : Kept(L, j)
  BY <1>0, <1>1 DEF Kept, Behind, Gated, Owned
<1>3. /\ Rank(L[1]) = 5 + a /\ Rank(L[2]) = 5 + b /\ Rank(L[3]) = MaxId + 6
      /\ Rank(L[4]) = MaxId + 6 /\ Rank(L[5]) = MaxId + 6 /\ Rank(L[6]) = MaxId + 8
      /\ Rank(L[7]) = MaxId + 11 /\ Rank(L[8]) = MaxId + 12 /\ Rank(L[9]) = MaxId + 6
      /\ Rank(L[10]) = MaxId + 6 /\ Rank(L[11]) = MaxId + 13 /\ Rank(L[12]) = MaxId + 14
      /\ \A j \in {1, 2, 6, 7, 8, 11, 12} : ~Gated(L[j])
  BY <1>1, Ranks DEF Gated, Owned
<1>4. \A j \in {1, 2, 6, 7, 8, 11, 12} : Kept(L, j)
  BY <1>0, <1>1, <1>3, IdsBounded DEF Kept, Ascending
<1> QED
  BY <1>1, <1>2, <1>4 DEF Disciplined, L

LEMMA WorkMandateKept == \A p \in Pairs : Disciplined(WorkMandate(p[1], p[2]))
<1> SUFFICES ASSUME NEW c \in Customers, NEW d \in Customers, c # d PROVE Disciplined(WorkMandate(c, d))
  BY DEF Pairs
<1> DEFINE L == WorkMandate(c, d)
<1>0. PICK a \in 0..MaxId, b \in 0..MaxId :
         /\ a < b /\ c \in {a, b} /\ d \in {a, b} /\ LockUsers(c, d) = <<User(a), User(b)>>
         /\ LockWallets(c, d) = <<Update("wallet", a), Update("wallet", b)>>
  BY PairInOrder
<1>1. /\ Len(L) = 7 /\ L[1] = User(a) /\ L[1].table = "users" /\ L[1].key = a
      /\ L[2] = User(b) /\ L[2].table = "users" /\ L[2].key = b /\ L[3].table = "mandate"
      /\ L[3].key = c /\ L[4].table = "policies" /\ L[5].table = "fees"
      /\ L[6].table = "wallet" /\ L[6].key = a /\ L[7].table = "wallet" /\ L[7].key = b
  BY <1>0, Rows DEF WorkMandate
<1> HIDE DEF L
<1>2. \A j \in {3, 6, 7} : Kept(L, j)
  BY <1>0, <1>1 DEF Kept, Behind, Gated, Owned
<1>3. /\ Rank(L[1]) = 5 + a /\ Rank(L[2]) = 5 + b /\ Rank(L[3]) = MaxId + 6
      /\ Rank(L[4]) = MaxId + 8 /\ Rank(L[5]) = MaxId + 12
      /\ \A j \in {1, 2, 4, 5} : ~Gated(L[j])
  BY <1>1, Ranks DEF Gated, Owned
<1>4. \A j \in {1, 2, 4, 5} : Kept(L, j)
  BY <1>0, <1>1, <1>3, IdsBounded DEF Kept, Ascending
<1> QED
  BY <1>1, <1>2, <1>4 DEF Disciplined, L

LEMMA DeclineShareKept == \A p \in Pairs : Disciplined(DeclineShare(p[1], p[2]))
<1> SUFFICES ASSUME NEW c \in Customers, NEW d \in Customers, c # d PROVE Disciplined(DeclineShare(c, d))
  BY DEF Pairs
<1> DEFINE L == DeclineShare(c, d)
<1>1. /\ Len(L) = 4 /\ L[1] = User(c) /\ L[1].table = "users" /\ L[1].key = c
      /\ L[2].table = "session" /\ L[2].key = c /\ L[3].table = "request"
      /\ L[4].table = "share"
  BY Rows DEF DeclineShare
<1> HIDE DEF L
<1>2. \A j \in {2} : Kept(L, j)
  BY <1>1 DEF Kept, Behind, Gated, Owned
<1>3. /\ Rank(L[1]) = 5 + c /\ Rank(L[2]) = MaxId + 6 /\ Rank(L[3]) = MaxId + 13
      /\ Rank(L[4]) = MaxId + 14 /\ \A j \in {1, 3, 4} : ~Gated(L[j])
  BY <1>1, Ranks DEF Gated, Owned
<1>4. \A j \in {1, 3, 4} : Kept(L, j)
  BY <1>1, <1>3, IdsBounded DEF Kept, Ascending
<1> QED
  BY <1>1, <1>2, <1>4 DEF Disciplined, L

LEMMA PayExternalKept == \A c \in Customers : Disciplined(PayExternal(c))
<1> SUFFICES ASSUME NEW c \in Customers PROVE Disciplined(PayExternal(c))
  OBVIOUS
<1> DEFINE L == PayExternal(c)
<1>1. /\ Len(L) = 9 /\ L[1] = User(c) /\ L[1].table = "users" /\ L[1].key = c
      /\ L[2].table = "session" /\ L[2].key = c /\ L[3].table = "quote" /\ L[3].key = c
      /\ L[4].table = "product" /\ L[5].table = "authorisation" /\ L[5].key = c
      /\ L[6].table = "policies" /\ L[7].table = "clearing" /\ L[8].table = "fees"
      /\ L[9].table = "wallet" /\ L[9].key = c
  BY Rows DEF PayExternal
<1> HIDE DEF L
<1>2. \A j \in {2, 3, 5, 9} : Kept(L, j)
  BY <1>1 DEF Kept, Behind, Gated, Owned
<1>3. /\ Rank(L[1]) = 5 + c /\ Rank(L[2]) = MaxId + 6 /\ Rank(L[3]) = MaxId + 6
      /\ Rank(L[4]) = MaxId + 7 /\ Rank(L[5]) = MaxId + 6 /\ Rank(L[6]) = MaxId + 8
      /\ Rank(L[7]) = MaxId + 11 /\ Rank(L[8]) = MaxId + 12
      /\ \A j \in {1, 4, 6, 7, 8} : ~Gated(L[j])
  BY <1>1, Ranks DEF Gated, Owned
<1>4. \A j \in {1, 4, 6, 7, 8} : Kept(L, j)
  BY <1>1, <1>3, IdsBounded DEF Kept, Ascending
<1> QED
  BY <1>1, <1>2, <1>4 DEF Disciplined, L

LEMMA CreditFundingKept == \A c \in Customers : Disciplined(CreditFunding(c))
<1> SUFFICES ASSUME NEW c \in Customers PROVE Disciplined(CreditFunding(c))
  OBVIOUS
<1> DEFINE L == CreditFunding(c)
<1>1. /\ Len(L) = 4 /\ L[1].table = "evidence" /\ L[2] = User(c) /\ L[2].table = "users"
      /\ L[2].key = c /\ L[3].table = "clearing" /\ L[4].table = "wallet" /\ L[4].key = c
  BY Rows DEF CreditFunding
<1> HIDE DEF L
<1>2. \A j \in {4} : Kept(L, j)
  BY <1>1 DEF Kept, Behind, Gated, Owned
<1>3. /\ Rank(L[1]) = 4 /\ Rank(L[2]) = 5 + c /\ Rank(L[3]) = MaxId + 11
      /\ \A j \in {1, 2, 3} : ~Gated(L[j])
  BY <1>1, Ranks DEF Gated, Owned
<1>4. \A j \in {1, 2, 3} : Kept(L, j)
  BY <1>1, <1>3, IdsBounded DEF Kept, Ascending
<1> QED
  BY <1>1, <1>2, <1>4 DEF Disciplined, L

LEMMA LeaseJobKept == \A c \in Customers : Disciplined(LeaseJob(c))
<1> SUFFICES ASSUME NEW c \in Customers PROVE Disciplined(LeaseJob(c))
  OBVIOUS
<1> DEFINE L == LeaseJob(c)
<1>1. Len(L) = 1 /\ L[1].table = "job"
  BY Rows DEF LeaseJob
<1> HIDE DEF L
<1>2. Rank(L[1]) = MaxId + 10 /\ \A j \in {1} : ~Gated(L[j])
  BY <1>1, Ranks DEF Gated, Owned
<1>3. \A j \in {1} : Kept(L, j)
  BY <1>1, <1>2, IdsBounded DEF Kept, Ascending
<1> QED
  BY <1>1, <1>3 DEF Disciplined, L

LEMMA BeginPaymentKept == \A c \in Customers : Disciplined(BeginPayment(c))
<1> SUFFICES ASSUME NEW c \in Customers PROVE Disciplined(BeginPayment(c))
  OBVIOUS
<1> DEFINE L == BeginPayment(c)
<1>1. /\ Len(L) = 3 /\ L[1] = User(c) /\ L[1].table = "users" /\ L[1].key = c
      /\ L[2].table = "payment" /\ L[3].table = "job"
  BY Rows DEF BeginPayment
<1> HIDE DEF L
<1>2. /\ Rank(L[1]) = 5 + c /\ Rank(L[2]) = MaxId + 9 /\ Rank(L[3]) = MaxId + 10
      /\ \A j \in {1, 2, 3} : ~Gated(L[j])
  BY <1>1, Ranks DEF Gated, Owned
<1>3. \A j \in {1, 2, 3} : Kept(L, j)
  BY <1>1, <1>2, IdsBounded DEF Kept, Ascending
<1> QED
  BY <1>1, <1>3 DEF Disciplined, L

LEMMA RetryPaymentKept == \A c \in Customers : Disciplined(RetryPayment(c))
<1> SUFFICES ASSUME NEW c \in Customers PROVE Disciplined(RetryPayment(c))
  OBVIOUS
<1> DEFINE L == RetryPayment(c)
<1>1. Len(L) = 2 /\ L[1].table = "payment" /\ L[2].table = "job"
  BY Rows DEF RetryPayment
<1> HIDE DEF L
<1>2. Rank(L[1]) = MaxId + 9 /\ Rank(L[2]) = MaxId + 10 /\ \A j \in {1, 2} : ~Gated(L[j])
  BY <1>1, Ranks DEF Gated, Owned
<1>3. \A j \in {1, 2} : Kept(L, j)
  BY <1>1, <1>2, IdsBounded DEF Kept, Ascending
<1> QED
  BY <1>1, <1>3 DEF Disciplined, L

LEMMA ApplyResultKept == \A c \in Customers : Disciplined(ApplyResult(c))
<1> SUFFICES ASSUME NEW c \in Customers PROVE Disciplined(ApplyResult(c))
  OBVIOUS
<1> DEFINE L == ApplyResult(c)
<1>1. /\ Len(L) = 5 /\ L[1] = User(c) /\ L[1].table = "users" /\ L[1].key = c
      /\ L[2].table = "payment" /\ L[3].table = "job" /\ L[4].table = "clearing"
      /\ L[5].table = "wallet" /\ L[5].key = c
  BY Rows DEF ApplyResult
<1> HIDE DEF L
<1>2. \A j \in {5} : Kept(L, j)
  BY <1>1 DEF Kept, Behind, Gated, Owned
<1>3. /\ Rank(L[1]) = 5 + c /\ Rank(L[2]) = MaxId + 9 /\ Rank(L[3]) = MaxId + 10
      /\ Rank(L[4]) = MaxId + 11 /\ \A j \in {1, 2, 3, 4} : ~Gated(L[j])
  BY <1>1, Ranks DEF Gated, Owned
<1>4. \A j \in {1, 2, 3, 4} : Kept(L, j)
  BY <1>1, <1>3, IdsBounded DEF Kept, Ascending
<1> QED
  BY <1>1, <1>2, <1>4 DEF Disciplined, L

LEMMA RetryJobKept == \A s \in Staff, c \in Customers : Disciplined(RetryJob(s, c))
<1> SUFFICES ASSUME NEW s \in Staff, NEW c \in Customers PROVE Disciplined(RetryJob(s, c))
  OBVIOUS
<1> DEFINE L == RetryJob(s, c)
<1>1. Len(L) = 3 /\ L[1].table = "staff" /\ L[2].table = "payment" /\ L[3].table = "job"
  BY Rows DEF RetryJob
<1> HIDE DEF L
<1>2. /\ Rank(L[1]) = 0 /\ Rank(L[2]) = MaxId + 9 /\ Rank(L[3]) = MaxId + 10
      /\ \A j \in {1, 2, 3} : ~Gated(L[j])
  BY <1>1, Ranks DEF Gated, Owned
<1>3. \A j \in {1, 2, 3} : Kept(L, j)
  BY <1>1, <1>2, IdsBounded DEF Kept, Ascending
<1> QED
  BY <1>1, <1>3 DEF Disciplined, L

LEMMA CloseAccountKept == \A c \in Customers : Disciplined(CloseAccount(c))
<1> SUFFICES ASSUME NEW c \in Customers PROVE Disciplined(CloseAccount(c))
  OBVIOUS
<1> DEFINE L == CloseAccount(c)
<1>1. /\ Len(L) = 7 /\ L[1] = User(c) /\ L[1].table = "users" /\ L[1].key = c
      /\ L[2].table = "session" /\ L[2].key = c /\ L[3].table = "wallet" /\ L[3].key = c
      /\ L[4].table = "reminder" /\ L[4].key = c /\ L[5].table = "controls" /\ L[5].key = c
      /\ L[6].table = "mandate" /\ L[6].key = c /\ L[7].table = "funding" /\ L[7].key = c
  BY Rows DEF CloseAccount
<1> HIDE DEF L
<1>2. \A j \in {2, 3, 4, 5, 6, 7} : Kept(L, j)
  BY <1>1 DEF Kept, Behind, Gated, Owned
<1>3. Rank(L[1]) = 5 + c /\ \A j \in {1} : ~Gated(L[j])
  BY <1>1, Ranks DEF Gated, Owned
<1>4. \A j \in {1} : Kept(L, j)
  BY <1>1, <1>3, IdsBounded DEF Kept, Ascending
<1> QED
  BY <1>1, <1>2, <1>4 DEF Disciplined, L

LEMMA CancelRequestKept == \A c \in Customers : Disciplined(CancelRequest(c))
<1> SUFFICES ASSUME NEW c \in Customers PROVE Disciplined(CancelRequest(c))
  OBVIOUS
<1> DEFINE L == CancelRequest(c)
<1>1. /\ Len(L) = 3 /\ L[1] = User(c) /\ L[1].table = "users" /\ L[1].key = c
      /\ L[2].table = "session" /\ L[2].key = c /\ L[3].table = "request"
  BY Rows DEF CancelRequest
<1> HIDE DEF L
<1>2. \A j \in {2} : Kept(L, j)
  BY <1>1 DEF Kept, Behind, Gated, Owned
<1>3. /\ Rank(L[1]) = 5 + c /\ Rank(L[2]) = MaxId + 6 /\ Rank(L[3]) = MaxId + 13
      /\ \A j \in {1, 3} : ~Gated(L[j])
  BY <1>1, Ranks DEF Gated, Owned
<1>4. \A j \in {1, 3} : Kept(L, j)
  BY <1>1, <1>3, IdsBounded DEF Kept, Ascending
<1> QED
  BY <1>1, <1>2, <1>4 DEF Disciplined, L

LEMMA OwnerCallKept == \A c \in Customers, table \in OwnTables : Disciplined(OwnerCall(c, table))
<1> SUFFICES ASSUME NEW c \in Customers, NEW table \in OwnTables PROVE Disciplined(OwnerCall(c, table))
  OBVIOUS
<1> DEFINE L == OwnerCall(c, table)
<1>1. /\ Len(L) = 3 /\ L[1] = User(c) /\ L[1].table = "users" /\ L[1].key = c
      /\ L[2].table = "session" /\ L[2].key = c /\ L[3].table = table /\ L[3].key = c
  BY Rows DEF OwnerCall, OwnTables
<1> HIDE DEF L
<1>2. \A j \in {2, 3} : Kept(L, j)
  BY <1>1 DEF Kept, Behind, Gated, Owned, OwnTables
<1>3. Rank(L[1]) = 5 + c /\ \A j \in {1} : ~Gated(L[j])
  BY <1>1, Ranks DEF Gated, Owned, OwnTables
<1>4. \A j \in {1} : Kept(L, j)
  BY <1>1, <1>3, IdsBounded DEF Kept, Ascending
<1> QED
  BY <1>1, <1>2, <1>4 DEF Disciplined, L

LEMMA RefreshKept == \A c \in Customers : Disciplined(Refresh(c))
<1> SUFFICES ASSUME NEW c \in Customers PROVE Disciplined(Refresh(c))
  OBVIOUS
<1> DEFINE L == Refresh(c)
<1>1. Len(L) = 1 /\ L[1].table = "session"
  BY Rows DEF Refresh
<1> HIDE DEF L
<1>2. Rank(L[1]) = MaxId + 6
  BY <1>1, Ranks DEF Gated, Owned
<1>3. \A j \in {1} : Kept(L, j)
  BY <1>1, <1>2, IdsBounded DEF Kept, Ascending
<1> QED
  BY <1>1, <1>3 DEF Disciplined, L

LEMMA ScheduleStopKept == \A s \in Staff, c \in Customers : Disciplined(ScheduleStop(s, c))
<1> SUFFICES ASSUME NEW s \in Staff, NEW c \in Customers PROVE Disciplined(ScheduleStop(s, c))
  OBVIOUS
<1> DEFINE L == ScheduleStop(s, c)
<1>1. /\ Len(L) = 3 /\ L[1].table = "staff" /\ L[2].table = "console"
      /\ L[3].table = "mandate"
  BY Rows DEF ScheduleStop
<1> HIDE DEF L
<1>2. /\ Rank(L[1]) = 0 /\ Rank(L[2]) = 1 /\ Rank(L[3]) = MaxId + 6
      /\ \A j \in {1, 2} : ~Gated(L[j])
  BY <1>1, Ranks DEF Gated, Owned
<1>3. \A j \in {1, 2, 3} : Kept(L, j)
  BY <1>1, <1>2, IdsBounded DEF Kept, Ascending
<1> QED
  BY <1>1, <1>3 DEF Disciplined, L

LEMMA EmergencyStopKept == \A s \in Staff : Disciplined(EmergencyStop(s))
<1> SUFFICES ASSUME NEW s \in Staff PROVE Disciplined(EmergencyStop(s))
  OBVIOUS
<1> DEFINE L == EmergencyStop(s)
<1>1. /\ Len(L) = 3 /\ L[1].table = "staff" /\ L[2].table = "console"
      /\ L[3].table = "policies"
  BY Rows DEF EmergencyStop
<1> HIDE DEF L
<1>2. /\ Rank(L[1]) = 0 /\ Rank(L[2]) = 1 /\ Rank(L[3]) = MaxId + 8
      /\ \A j \in {1, 2, 3} : ~Gated(L[j])
  BY <1>1, Ranks DEF Gated, Owned
<1>3. \A j \in {1, 2, 3} : Kept(L, j)
  BY <1>1, <1>2, IdsBounded DEF Kept, Ascending
<1> QED
  BY <1>1, <1>3 DEF Disciplined, L

LEMMA RevokeSessionsKept == \A s \in Staff, c \in Customers : Disciplined(RevokeSessions(s, c))
<1> SUFFICES ASSUME NEW s \in Staff, NEW c \in Customers PROVE Disciplined(RevokeSessions(s, c))
  OBVIOUS
<1> DEFINE L == RevokeSessions(s, c)
<1>1. /\ Len(L) = 4 /\ L[1].table = "staff" /\ L[2].table = "console" /\ L[3] = User(c)
      /\ L[3].table = "users" /\ L[3].key = c /\ L[4].table = "session" /\ L[4].key = c
  BY Rows DEF RevokeSessions
<1> HIDE DEF L
<1>2. \A j \in {4} : Kept(L, j)
  BY <1>1 DEF Kept, Behind, Gated, Owned
<1>3. /\ Rank(L[1]) = 0 /\ Rank(L[2]) = 1 /\ Rank(L[3]) = 5 + c
      /\ \A j \in {1, 2, 3} : ~Gated(L[j])
  BY <1>1, Ranks DEF Gated, Owned
<1>4. \A j \in {1, 2, 3} : Kept(L, j)
  BY <1>1, <1>3, IdsBounded DEF Kept, Ascending
<1> QED
  BY <1>1, <1>2, <1>4 DEF Disciplined, L

LEMMA ReplyByStaffKept == \A s \in Staff, c \in Customers : Disciplined(ReplyByStaff(s, c))
<1> SUFFICES ASSUME NEW s \in Staff, NEW c \in Customers PROVE Disciplined(ReplyByStaff(s, c))
  OBVIOUS
<1> DEFINE L == ReplyByStaff(s, c)
<1>1. /\ Len(L) = 3 /\ L[1].table = "staff" /\ L[2] = User(c) /\ L[2].table = "users"
      /\ L[2].key = c /\ L[3].table = "case" /\ L[3].key = c
  BY Rows DEF ReplyByStaff
<1> HIDE DEF L
<1>2. \A j \in {3} : Kept(L, j)
  BY <1>1 DEF Kept, Behind, Gated, Owned
<1>3. Rank(L[1]) = 0 /\ Rank(L[2]) = 5 + c /\ \A j \in {1, 2} : ~Gated(L[j])
  BY <1>1, Ranks DEF Gated, Owned
<1>4. \A j \in {1, 2} : Kept(L, j)
  BY <1>1, <1>3, IdsBounded DEF Kept, Ascending
<1> QED
  BY <1>1, <1>2, <1>4 DEF Disciplined, L

LEMMA DecidePolicyKept == \A s \in Staff : Disciplined(DecidePolicy(s))
<1> SUFFICES ASSUME NEW s \in Staff PROVE Disciplined(DecidePolicy(s))
  OBVIOUS
<1> DEFINE L == DecidePolicy(s)
<1>1. /\ Len(L) = 3 /\ L[1].table = "staff" /\ L[2].table = "proposal"
      /\ L[3].table = "policies"
  BY Rows DEF DecidePolicy
<1> HIDE DEF L
<1>2. /\ Rank(L[1]) = 0 /\ Rank(L[2]) = 2 /\ Rank(L[3]) = MaxId + 8
      /\ \A j \in {1, 2, 3} : ~Gated(L[j])
  BY <1>1, Ranks DEF Gated, Owned
<1>3. \A j \in {1, 2, 3} : Kept(L, j)
  BY <1>1, <1>2, IdsBounded DEF Kept, Ascending
<1> QED
  BY <1>1, <1>3 DEF Disciplined, L

LEMMA DecideStandingKept == \A s \in Staff, c \in Customers : Disciplined(DecideStanding(s, c))
<1> SUFFICES ASSUME NEW s \in Staff, NEW c \in Customers PROVE Disciplined(DecideStanding(s, c))
  OBVIOUS
<1> DEFINE L == DecideStanding(s, c)
<1>1. /\ Len(L) = 3 /\ L[1].table = "staff" /\ L[2].table = "proposal" /\ L[3] = User(c)
      /\ L[3].table = "users" /\ L[3].key = c
  BY Rows DEF DecideStanding
<1> HIDE DEF L
<1>2. /\ Rank(L[1]) = 0 /\ Rank(L[2]) = 2 /\ Rank(L[3]) = 5 + c
      /\ \A j \in {1, 2, 3} : ~Gated(L[j])
  BY <1>1, Ranks DEF Gated, Owned
<1>3. \A j \in {1, 2, 3} : Kept(L, j)
  BY <1>1, <1>2, IdsBounded DEF Kept, Ascending
<1> QED
  BY <1>1, <1>3 DEF Disciplined, L

LEMMA DecideKYCKept == \A s \in Staff, c \in Customers : Disciplined(DecideKYC(s, c))
<1> SUFFICES ASSUME NEW s \in Staff, NEW c \in Customers PROVE Disciplined(DecideKYC(s, c))
  OBVIOUS
<1> DEFINE L == DecideKYC(s, c)
<1>1. /\ Len(L) = 4 /\ L[1].table = "staff" /\ L[2].table = "proposal" /\ L[3].table = "kyc"
      /\ L[4] = User(c) /\ L[4].table = "users" /\ L[4].key = c
  BY Rows DEF DecideKYC
<1> HIDE DEF L
<1>2. /\ Rank(L[1]) = 0 /\ Rank(L[2]) = 2 /\ Rank(L[3]) = 3 /\ Rank(L[4]) = 5 + c
      /\ \A j \in {1, 2, 3, 4} : ~Gated(L[j])
  BY <1>1, Ranks DEF Gated, Owned
<1>3. \A j \in {1, 2, 3, 4} : Kept(L, j)
  BY <1>1, <1>2, IdsBounded DEF Kept, Ascending
<1> QED
  BY <1>1, <1>3 DEF Disciplined, L

LEMMA RequestChallengeKept == \A c \in Customers : Disciplined(RequestChallenge(c))
<1> SUFFICES ASSUME NEW c \in Customers PROVE Disciplined(RequestChallenge(c))
  OBVIOUS
<1> DEFINE L == RequestChallenge(c)
<1>1. /\ Len(L) = 2 /\ L[1] = User(c) /\ L[1].table = "users" /\ L[1].key = c
      /\ L[2].table = "challenge" /\ L[2].key = c
  BY Rows DEF RequestChallenge
<1> HIDE DEF L
<1>2. \A j \in {2} : Kept(L, j)
  BY <1>1 DEF Kept, Behind, Gated, Owned
<1>3. Rank(L[1]) = 5 + c /\ \A j \in {1} : ~Gated(L[j])
  BY <1>1, Ranks DEF Gated, Owned
<1>4. \A j \in {1} : Kept(L, j)
  BY <1>1, <1>3, IdsBounded DEF Kept, Ascending
<1> QED
  BY <1>1, <1>2, <1>4 DEF Disciplined, L

LEMMA VerifyChallengeKept == \A c \in Customers : Disciplined(VerifyChallenge(c))
<1> SUFFICES ASSUME NEW c \in Customers PROVE Disciplined(VerifyChallenge(c))
  OBVIOUS
<1> DEFINE L == VerifyChallenge(c)
<1>1. /\ Len(L) = 4 /\ L[1] = User(c) /\ L[1].table = "users" /\ L[1].key = c
      /\ L[2].table = "challenge" /\ L[2].key = c /\ L[3].table = "notice" /\ L[3].key = c
      /\ L[4].table = "session" /\ L[4].key = c
  BY Rows DEF VerifyChallenge
<1> HIDE DEF L
<1>2. \A j \in {2, 3, 4} : Kept(L, j)
  BY <1>1 DEF Kept, Behind, Gated, Owned
<1>3. Rank(L[1]) = 5 + c /\ \A j \in {1} : ~Gated(L[j])
  BY <1>1, Ranks DEF Gated, Owned
<1>4. \A j \in {1} : Kept(L, j)
  BY <1>1, <1>3, IdsBounded DEF Kept, Ascending
<1> QED
  BY <1>1, <1>2, <1>4 DEF Disciplined, L

LEMMA FinishEmailChangeKept == \A c \in Customers : Disciplined(FinishEmailChange(c))
<1> SUFFICES ASSUME NEW c \in Customers PROVE Disciplined(FinishEmailChange(c))
  OBVIOUS
<1> DEFINE L == FinishEmailChange(c)
<1>1. /\ Len(L) = 5 /\ L[1] = User(c) /\ L[1].table = "users" /\ L[1].key = c
      /\ L[2].table = "session" /\ L[2].key = c /\ L[3].table = "change" /\ L[3].key = c
      /\ L[4].table = "address" /\ L[5].table = "notice" /\ L[5].key = c
  BY Rows DEF FinishEmailChange
<1> HIDE DEF L
<1>2. \A j \in {2, 3, 5} : Kept(L, j)
  BY <1>1 DEF Kept, Behind, Gated, Owned
<1>3. /\ Rank(L[1]) = 5 + c /\ Rank(L[2]) = MaxId + 6 /\ Rank(L[3]) = MaxId + 6
      /\ Rank(L[4]) = MaxId + 16 /\ \A j \in {1, 4} : ~Gated(L[j])
  BY <1>1, Ranks DEF Gated, Owned
<1>4. \A j \in {1, 4} : Kept(L, j)
  BY <1>1, <1>3, IdsBounded DEF Kept, Ascending
<1> QED
  BY <1>1, <1>2, <1>4 DEF Disciplined, L

LEMMA ChangeControlsKept == \A c \in Customers : Disciplined(ChangeControls(c))
<1> SUFFICES ASSUME NEW c \in Customers PROVE Disciplined(ChangeControls(c))
  OBVIOUS
<1> DEFINE L == ChangeControls(c)
<1>1. /\ Len(L) = 5 /\ L[1] = User(c) /\ L[1].table = "users" /\ L[1].key = c
      /\ L[2].table = "session" /\ L[2].key = c /\ L[3].table = "policies"
      /\ L[4].table = "handle" /\ L[5].table = "controls" /\ L[5].key = c
  BY Rows DEF ChangeControls
<1> HIDE DEF L
<1>2. \A j \in {2, 5} : Kept(L, j)
  BY <1>1 DEF Kept, Behind, Gated, Owned
<1>3. /\ Rank(L[1]) = 5 + c /\ Rank(L[2]) = MaxId + 6 /\ Rank(L[3]) = MaxId + 8
      /\ Rank(L[4]) = MaxId + 15 /\ \A j \in {1, 3, 4} : ~Gated(L[j])
  BY <1>1, Ranks DEF Gated, Owned
<1>4. \A j \in {1, 3, 4} : Kept(L, j)
  BY <1>1, <1>3, IdsBounded DEF Kept, Ascending
<1> QED
  BY <1>1, <1>2, <1>4 DEF Disciplined, L

LEMMA SuppressByStaffKept == \A s \in Staff, c \in Customers : Disciplined(SuppressByStaff(s, c))
<1> SUFFICES ASSUME NEW s \in Staff, NEW c \in Customers PROVE Disciplined(SuppressByStaff(s, c))
  OBVIOUS
<1> DEFINE L == SuppressByStaff(s, c)
<1>1. /\ Len(L) = 3 /\ L[1].table = "staff" /\ L[2].table = "console"
      /\ L[3].table = "notice"
  BY Rows DEF SuppressByStaff
<1> HIDE DEF L
<1>2. /\ Rank(L[1]) = 0 /\ Rank(L[2]) = 1 /\ Rank(L[3]) = MaxId + 6
      /\ \A j \in {1, 2} : ~Gated(L[j])
  BY <1>1, Ranks DEF Gated, Owned
<1>3. \A j \in {1, 2, 3} : Kept(L, j)
  BY <1>1, <1>2, IdsBounded DEF Kept, Ascending
<1> QED
  BY <1>1, <1>3 DEF Disciplined, L

LEMMA InviteStaffKept == \A s \in Staff : Disciplined(InviteStaff(s))
<1> SUFFICES ASSUME NEW s \in Staff PROVE Disciplined(InviteStaff(s))
  OBVIOUS
<1> DEFINE L == InviteStaff(s)
<1>1. /\ Len(L) = 3 /\ L[1].table = "staff" /\ L[2].table = "address"
      /\ L[3].table = "invitation"
  BY Rows DEF InviteStaff
<1> HIDE DEF L
<1>2. /\ Rank(L[1]) = 0 /\ Rank(L[2]) = MaxId + 16 /\ Rank(L[3]) = MaxId + 17
      /\ \A j \in {1, 2, 3} : ~Gated(L[j])
  BY <1>1, Ranks DEF Gated, Owned
<1>3. \A j \in {1, 2, 3} : Kept(L, j)
  BY <1>1, <1>2, IdsBounded DEF Kept, Ascending
<1> QED
  BY <1>1, <1>3 DEF Disciplined, L

LEMMA DecideInvitationKept == \A s \in Staff : Disciplined(DecideInvitation(s))
<1> SUFFICES ASSUME NEW s \in Staff PROVE Disciplined(DecideInvitation(s))
  OBVIOUS
<1> DEFINE L == DecideInvitation(s)
<1>1. Len(L) = 2 /\ L[1].table = "staff" /\ L[2].table = "invitation"
  BY Rows DEF DecideInvitation
<1> HIDE DEF L
<1>2. /\ Rank(L[1]) = 0 /\ Rank(L[2]) = MaxId + 17 /\ \A j \in {1, 2} : ~Gated(L[j])
  BY <1>1, Ranks DEF Gated, Owned
<1>3. \A j \in {1, 2} : Kept(L, j)
  BY <1>1, <1>2, IdsBounded DEF Kept, Ascending
<1> QED
  BY <1>1, <1>3 DEF Disciplined, L

LEMMA OrderlyKept == \A L \in Orderly : Disciplined(L)
BY PayCustomerKept, PayShareKept, WorkMandateKept, DeclineShareKept, PayExternalKept,
   CreditFundingKept, LeaseJobKept, BeginPaymentKept, RetryPaymentKept, ApplyResultKept,
   RetryJobKept, CloseAccountKept, CancelRequestKept, OwnerCallKept, RefreshKept,
   ScheduleStopKept, EmergencyStopKept, RevokeSessionsKept, ReplyByStaffKept,
   DecidePolicyKept, DecideStandingKept, DecideKYCKept, RequestChallengeKept,
   VerifyChallengeKept, FinishEmailChangeKept, ChangeControlsKept, SuppressByStaffKept,
   InviteStaffKept, DecideInvitationKept
DEF Orderly

-----------------------------------------------------------------------------
(* Two transactions never hold locks that exclude each other.              *)

TypeOK ==
  /\ call \in [Txns -> Calls]
  /\ phase \in [Txns -> {"new", "running", "over"}]
  /\ got \in [Txns -> Nat]
  /\ tries \in [Txns -> Nat]
  /\ \A t \in Txns : phase[t] # "running" => got[t] = 0

Exclusive ==
  \A t, u \in Txns : t # u =>
    \A i \in 1..got[t], j \in 1..got[u] :
      call[t][i].table # "pool" => ~Excludes(call[t][i], call[u][j])

Invariant == TypeOK /\ Exclusive

LEMMA ExcludesSymmetric ==
  ASSUME NEW x, NEW y, Excludes(x, y)
  PROVE  Excludes(y, x) /\ x.table = y.table /\ x.key = y.key
BY DEF Excludes, SameRow, Conflict

(* The locks a transaction waited for come last; nothing else changes.     *)
LEMMA AcquireKeeps ==
  ASSUME NEW t \in Txns, Invariant, Acquire(t)
  PROVE  Invariant'
<1>1. /\ phase[t] = "running" /\ got[t] < Len(call[t])
      /\ got' = [got EXCEPT ![t] = @ + 1] /\ UNCHANGED <<call, phase, tries>>
  BY DEF Acquire, Wanting, Running
<1>2. TypeOK'
  BY <1>1 DEF Invariant, TypeOK
<1>3. ASSUME NEW u \in Txns, u # t, NEW j \in 1..got[u], Wants(t).table # "pool"
      PROVE  ~Excludes(call[u][j], Wants(t))
  <2>1. u \in Running
    BY <1>3 DEF Invariant, TypeOK, Running
  <2>2. ~NeedsConnection(t)
    BY <1>3 DEF NeedsConnection, SecondConnection, Only, Update, Lock
  <2> QED
    BY <1>3, <2>1, <2>2 DEF Acquire, Granted, Blocks
<1>4. ASSUME NEW u \in Txns, u # t, NEW i \in 1..got'[t], NEW j \in 1..got[u],
             call[t][i].table # "pool"
      PROVE  ~Excludes(call[t][i], call[u][j])
  <2>1. CASE i \in 1..got[t]
    BY <1>4, <2>1 DEF Invariant, Exclusive
  <2>2. CASE i = got[t] + 1
    BY <1>3, <1>4, <2>2, ExcludesSymmetric DEF Wants
  <2> QED
    BY <1>1, <1>4, <2>1, <2>2 DEF Invariant, TypeOK
<1>5. Exclusive'
  <2> SUFFICES ASSUME NEW u \in Txns, NEW v \in Txns, u # v,
                      NEW i \in 1..got'[u], NEW j \in 1..got'[v], call[u][i].table # "pool"
               PROVE  ~Excludes(call[u][i], call[v][j])
    BY <1>1 DEF Exclusive
  <2>1. CASE u = t
    BY <1>1, <1>4, <2>1 DEF Invariant, TypeOK
  <2>2. CASE v = t
    <3>1. i \in 1..got[u]
      BY <1>1, <2>2 DEF Invariant, TypeOK
    <3>2. CASE Excludes(call[u][i], call[v][j])
      <4>1. Excludes(call[v][j], call[u][i]) /\ call[v][j].table # "pool"
        BY <3>2, ExcludesSymmetric
      <4> QED
        BY <1>4, <2>2, <3>1, <4>1
    <3> QED
      BY <3>2
  <2>3. CASE u # t /\ v # t
    BY <1>1, <2>3 DEF Invariant, Exclusive, TypeOK
  <2> QED
    BY <2>1, <2>2, <2>3
<1> QED
  BY <1>2, <1>5 DEF Invariant

(* A transaction that ends or is aborted holds nothing any more.           *)
LEMMA ReleaseKeeps ==
  ASSUME NEW t \in Txns, Invariant, UNCHANGED call,
         tries' \in [Txns -> Nat],
         got' = [got EXCEPT ![t] = 0],
         NEW p \in {"new", "over"}, phase' = [phase EXCEPT ![t] = p]
  PROVE  Invariant'
<1>1. TypeOK'
  BY DEF Invariant, TypeOK
<1>2. \A u \in Txns : 1..got'[u] \subseteq 1..got[u]
  BY DEF Invariant, TypeOK
<1>3. Exclusive'
  BY <1>2 DEF Invariant, Exclusive
<1> QED
  BY <1>1, <1>3 DEF Invariant

LEMMA StepKeeps == Invariant /\ [Next]_vars => Invariant'
<1> SUFFICES ASSUME Invariant, [Next]_vars PROVE Invariant'
  OBVIOUS
<1>1. ASSUME NEW t \in Txns, Begin(t) PROVE Invariant'
  <2>1. TypeOK'
    BY <1>1 DEF Begin, Invariant, TypeOK
  <2>2. Exclusive'
    BY <1>1 DEF Begin, Invariant, Exclusive
  <2> QED
    BY <2>1, <2>2 DEF Invariant
<1>2. ASSUME NEW t \in Txns, Acquire(t) PROVE Invariant'
  BY <1>2, AcquireKeeps
<1>3. ASSUME NEW t \in Txns, Commit(t) \/ SkipLocked(t) \/ RollBack(t) PROVE Invariant'
  <2>1. Ends(t)
    BY <1>3 DEF Commit, SkipLocked, RollBack
  <2>2. tries' \in [Txns -> Nat]
    BY <2>1 DEF Ends, Invariant, TypeOK
  <2> QED
    BY <2>1, <2>2, ReleaseKeeps DEF Ends
<1>4. ASSUME NEW t \in Txns, Deadlocked(t) PROVE Invariant'
  <2>1. tries' \in [Txns -> Nat]
    BY <1>4 DEF Deadlocked, Invariant, TypeOK
  <2>2. \E p \in {"new", "over"} : phase' = [phase EXCEPT ![t] = p]
    BY <1>4 DEF Deadlocked
  <2> QED
    BY <1>4, <2>1, <2>2, ReleaseKeeps DEF Deadlocked
<1>5. CASE UNCHANGED vars
  BY <1>5 DEF vars, Invariant, TypeOK, Exclusive
<1> QED
  BY <1>1, <1>2, <1>3, <1>4, <1>5 DEF Next

(* The transactions' bookkeeping is well formed and no two of them hold    *)
(* locks that exclude each other, whatever calls are made together.        *)
LEMMA LocksExclusive == Spec => []Invariant
<1>1. Init => Invariant
  <2> SUFFICES ASSUME Init PROVE Invariant
    OBVIOUS
  <2>1. call \in [Txns -> Calls]
    BY WorkloadsAssumption DEF Init
  <2> QED
    BY <2>1 DEF Init, Invariant, TypeOK, Exclusive
<1> QED
  BY <1>1, StepKeeps, PTL DEF Spec

-----------------------------------------------------------------------------
(* A standstill of orderly calls.                                          *)

Orderlies(S) == \A t \in S : call[t] \in Orderly

(* In such a standstill one waits for the row another holds.               *)
LEMMA WaitsForRow ==
  ASSUME NEW S \in SUBSET Txns, Invariant, Standstill(S), Orderlies(S), NEW t \in S
  PROVE  /\ got[t] + 1 \in 1..Len(call[t]) /\ Kept(call[t], got[t] + 1)
         /\ \E u \in S : u # t /\ \E i \in 1..got[u] : Excludes(call[u][i], Wants(t))
<1>1. t \in Wanting /\ Disciplined(call[t])
  BY OrderlyKept DEF Standstill, Orderlies
<1>2. got[t] \in Nat /\ got[t] < Len(call[t]) /\ Len(call[t]) \in Nat
  BY <1>1 DEF Wanting, Disciplined, Invariant, TypeOK
<1>3. got[t] + 1 \in 1..Len(call[t])
  BY <1>2
<1>4. Kept(call[t], got[t] + 1)
  BY <1>1, <1>3 DEF Disciplined
<1>5. ~NeedsConnection(t)
  <2>1. SecondConnection.table = "pool"
    BY Rows DEF SecondConnection
  <2> QED
    BY <1>4, <2>1 DEF NeedsConnection, Wants, Kept
<1>6. PICK u \in S : Blocks(u, t)
  BY <1>5 DEF Standstill
<1> QED
  BY <1>3, <1>4, <1>6 DEF Blocks

(* Nobody in it waits behind a users row: who holds the row he waits for   *)
(* has either taken his last lock or holds the same users row.             *)
LEMMA NobodyBehind ==
  ASSUME NEW S \in SUBSET Txns, Invariant, Standstill(S), Orderlies(S), NEW t \in S
  PROVE  Ascending(call[t], got[t] + 1)
<1> DEFINE x == Wants(t)
<1>1. Kept(call[t], got[t] + 1) /\ call[t][got[t] + 1] = x
  BY WaitsForRow DEF Wants
<1>2. PICK u \in S : u # t /\ \E i \in 1..got[u] : Excludes(call[u][i], x)
  BY WaitsForRow
<1>3. PICK i \in 1..got[u] : Excludes(call[u][i], x)
  BY <1>2
<1>4. got[t] \in Nat /\ got[u] \in Nat /\ t \in Txns /\ u \in Txns
  BY DEF Invariant, TypeOK
<1>5. i \in 1..Len(call[u]) /\ i # Len(call[u]) /\ Kept(call[u], i)
  <2>1. got[u] + 1 \in 1..Len(call[u]) /\ Disciplined(call[u])
    BY WaitsForRow, OrderlyKept DEF Orderlies
  <2>2. i \in 1..Len(call[u]) /\ i # Len(call[u])
    BY <1>4, <2>1 DEF Disciplined
  <2> QED
    BY <2>1, <2>2 DEF Disciplined
<1>6. call[u][i].table = x.table /\ call[u][i].key = x.key
  BY <1>3, ExcludesSymmetric
<1>7. ASSUME Behind(call[t], got[t] + 1) PROVE FALSE
  <2>1. PICK k \in 1..((got[t] + 1) - 1) : call[t][k] = User(x.key)
    BY <1>1, <1>7 DEF Behind
  <2>2. Gated(call[u][i])
    BY <1>1, <1>6, <1>7 DEF Behind, Gated
  <2>3. Behind(call[u], i)
    BY <1>5, <2>2 DEF Kept, Ascending
  <2>4. PICK j \in 1..(i - 1) : call[u][j] = User(x.key)
    BY <1>6, <2>3 DEF Behind
  <2>5. k \in 1..got[t] /\ j \in 1..got[u]
    BY <1>4, <2>1, <2>4
  <2>6. Excludes(User(x.key), User(x.key)) /\ User(x.key).table # "pool"
    BY DEF Excludes, SameRow, Conflict, User, Update, Lock
  <2> QED
    BY <1>2, <1>4, <2>1, <2>4, <2>5, <2>6 DEF Invariant, Exclusive
<1> QED
  BY <1>1, <1>7 DEF Kept

LEMMA RankBounded ==
  ASSUME NEW x, x.table = "users" => x.key \in 0..MaxId
  PROVE  Rank(x) \in 0..Highest
<1>1. MaxId \in Nat
  BY IdsBounded
<1>2. CASE x.table = "users"
  <2>1. Rank(x) = 5 + x.key
    BY <1>2, Ranks
  <2> QED
    BY <1>1, <1>2, <2>1 DEF Highest
<1>3. CASE x.table # "users"
  BY <1>1, <1>3 DEF Rank, Highest
<1> QED
  BY <1>2, <1>3

(* Each waits for one that waits for a row of higher rank.                 *)
LEMMA RankGrows ==
  ASSUME NEW S \in SUBSET Txns, Invariant, Standstill(S), Orderlies(S), NEW t \in S
  PROVE  \E u \in S : Rank(Wants(t)) < Rank(Wants(u))
<1>1. PICK u \in S : u # t /\ \E i \in 1..got[u] : Excludes(call[u][i], Wants(t))
  BY WaitsForRow
<1>2. PICK i \in 1..got[u] : Excludes(call[u][i], Wants(t))
  BY <1>1
<1>3. Rank(call[u][i]) = Rank(Wants(t))
  BY <1>2, ExcludesSymmetric DEF Rank
<1>4. Ascending(call[u], got[u] + 1)
  BY NobodyBehind
<1>5. got[u] \in Nat /\ i \in 1..((got[u] + 1) - 1)
  BY <1>2 DEF Invariant, TypeOK
<1> QED
  BY <1>3, <1>4, <1>5 DEF Ascending, Wants

LEMMA OrderlyMoveOn ==
  ASSUME NEW S \in SUBSET Txns, Invariant, Standstill(S), Orderlies(S)
  PROVE  FALSE
<1> DEFINE T == {Rank(Wants(t)) : t \in S}
<1>1. T \subseteq 0..Highest
  <2> SUFFICES ASSUME NEW t \in S PROVE Rank(Wants(t)) \in 0..Highest
    OBVIOUS
  <2>1. Kept(call[t], got[t] + 1)
    BY WaitsForRow
  <2> QED
    BY <2>1, RankBounded DEF Kept, Wants
<1>2. T # {}
  <2>1. PICK t \in S : TRUE
    BY DEF Standstill
  <2>2. Rank(Wants(t)) \in T
    BY <2>1
  <2> QED
    BY <2>2
<1>3. Highest \in Nat
  BY IdsBounded DEF Highest
<1>4. PICK r \in T : \A y \in T : y <= r
  BY <1>1, <1>2, <1>3, GreatestOf
<1>5. PICK t \in S : r = Rank(Wants(t))
  BY <1>4
<1>6. PICK u \in S : Rank(Wants(t)) < Rank(Wants(u))
  BY RankGrows
<1>7. Rank(Wants(u)) \in T /\ r \in Int /\ Rank(Wants(u)) \in Int
  BY <1>1, <1>3, <1>4
<1> QED
  BY <1>4, <1>5, <1>6, <1>7

(* Every standstill has a call in it that takes a row out of order, for    *)
(* any number of transactions, customers, staff and connections.           *)
THEOREM NeverStandStill == Spec => []OrderlyNeverStandStill
<1>1. Invariant => OrderlyNeverStandStill
  <2> SUFFICES ASSUME Invariant, NEW S \in SUBSET Txns, Standstill(S),
                      \A t \in S : call[t] \notin Crossing
               PROVE  FALSE
    BY DEF OrderlyNeverStandStill
  <2>1. ASSUME NEW t \in S PROVE call[t] \in Orderly
    <3>1. got[t] < Len(call[t]) /\ got[t] \in Nat /\ call[t] \in Calls
      BY <2>1 DEF Standstill, Wanting, Running, Invariant, TypeOK
    <3>2. call[t] # NoCall
      BY <3>1 DEF NoCall
    <3> QED
      BY <2>1, <3>1, <3>2 DEF Calls
  <2> QED
    BY <2>1, OrderlyMoveOn DEF Orderlies
<1> QED
  BY <1>1, LocksExclusive, PTL
=============================================================================
