--------------------------- MODULE MandatesProofs ---------------------------
(***************************************************************************)
(* For any number of mandates, schedulers and customers: the occurrence a  *)
(* mandate waits for has no row yet, a stopped mandate is stopped for      *)
(* good, a closed account stays empty, and debits stay within the consent  *)
(* and the day's limit.  The argument is that of the code: whatever was    *)
(* looked up before, the transaction looks again.                          *)
(***************************************************************************)
EXTENDS Mandates, Sums, TLAPS

USE MandateAssumption, HouseAssumption, MaxBalanceAssumption

(* Terms of a row.                                                         *)
LEMMA RowTerms ==
  ASSUME TypeOK, NEW m \in MandateIds, Exists(m)
  PROVE  mandate[m] \in Progress /\ mandate[m].terms \in Offers
  BY DEF TypeOK, Exists, Progress

(* Changing the status of a row.                                           *)
LEMMA StatusRow ==
  ASSUME NEW r \in Progress, NEW status \in Live \cup {"cancelled", "completed"}
  PROVE  LET q == [r EXCEPT !.status = status] IN
         /\ q \in Progress /\ q.status = status /\ q # None
         /\ q.terms = r.terms /\ q.next = r.next /\ q.count = r.count /\ q.committed = r.committed
  BY DEF Progress

(* The row after a debit.                                                  *)
LEMMA AdvancedRow ==
  ASSUME NEW r \in Progress, NEW total \in Nat
  PROVE  LET q == Advanced(r, total) IN
         /\ q \in Progress
         /\ q.terms = r.terms /\ q.count = r.count + 1 /\ q.committed = r.committed + total
         /\ q.status \in {"active", "completed"}
         /\ q.status = "active" => q.next = r.next + Period
         /\ q.status = "completed" => q.next = r.next
<1> DEFINE next == r.next + Period
           ends == \/ r.terms.once \/ r.count + 1 >= r.terms.max
                   \/ r.committed + total >= r.terms.maxTotal \/ next > r.terms.ends
<1>1. next \in Nat /\ r.count + 1 \in Nat /\ r.committed + total \in Nat
  BY DEF Progress
<1>2. Advanced(r, total) = [r EXCEPT !.count = @ + 1, !.committed = @ + total,
                                     !.next = IF ends THEN @ ELSE next,
                                     !.status = IF ends THEN "completed" ELSE "active"]
  BY DEF Advanced
<1> HIDE DEF next, ends
<1>3. CASE ends
  BY <1>1, <1>2, <1>3 DEF Progress, Live
<1>4. CASE ~ends
  BY <1>1, <1>2, <1>4 DEF Progress, Live, next
<1> QED BY <1>3, <1>4

(* A row that changes keeps every part of the invariant the others have.   *)
LEMMA RowChange ==
  ASSUME IInv, NEW m \in MandateIds, NEW row \in Progress,
         mandate' = [mandate EXCEPT ![m] = row], UNCHANGED occurrence,
         row.count <= row.terms.max, row.committed <= row.terms.maxTotal,
         Exists(m) => row.next = mandate[m].next,
         row.status = "active" => ~Exists(m)
  PROVE  RowsBehind' /\ NextIsFresh' /\ CapsHold' /\ mandate' \in [MandateIds -> Progress \cup {None}]
<1>1. mandate \in [MandateIds -> Progress \cup {None}] /\ row # None
  BY DEF IInv, TypeOK
<1>2. mandate'[m] = row /\ \A n \in MandateIds \ {m} : mandate'[n] = mandate[n]
  BY <1>1
<1>3. RowsBehind'
  BY <1>1, <1>2 DEF IInv, TypeOK, RowsBehind, Exists
<1>4. NextIsFresh'
  BY <1>1, <1>2 DEF IInv, TypeOK, RowsBehind, NextIsFresh, Is, Recorded, Exists
<1>5. CapsHold'
  BY <1>1, <1>2 DEF IInv, CapsHold, Exists
<1> QED BY <1>1, <1>3, <1>4, <1>5

(* Nor do changes elsewhere matter.                                        *)
LEMMA RowsKept ==
  ASSUME IInv, UNCHANGED <<mandate, occurrence>>
  PROVE  RowsBehind' /\ NextIsFresh' /\ CapsHold' /\ mandate' \in [MandateIds -> Progress \cup {None}]
BY DEF IInv, TypeOK, RowsBehind, NextIsFresh, CapsHold, Is, Recorded, Exists

(* The balances of a transfer, seen from a customer.                       *)
LEMMA TransferBalances ==
  ASSUME TypeOK, NEW reference, NEW from \in Customers, NEW to \in Customers, from # to,
         NEW amount \in Nat, Transfer(reference, from, to, amount)
  PROVE  /\ LedgerTypeOK'
         /\ \A c \in Customers \ {from, to} : balance'[c] = balance[c]
<1> DEFINE entries == Entries(from, to, amount)
<1>1. balance' = Posted(entries) /\ reserved' = reserved
  BY DEF Transfer, PostJournal
<1>2. Fees \notin Customers /\ policy.fee \in Nat
  BY DEF TypeOK, Account
<1>3. DOMAIN entries = {from, to, Fees} /\ \A x \in DOMAIN entries : entries[x] \in Int
  BY <1>2 DEF Entries
<1> HIDE DEF entries
<1>4. \A x \in Account : balance'[x] = IF x \in {from, to, Fees} THEN balance[x] + entries[x] ELSE balance[x]
  BY <1>1, <1>3 DEF Posted
<1>5. balance' = [x \in Account |-> balance'[x]]
  BY <1>1 DEF Posted
<1>6. balance' \in [Account -> Int]
  BY <1>3, <1>4, <1>5 DEF TypeOK, LedgerTypeOK
<1> QED BY <1>1, <1>2, <1>4, <1>6 DEF TypeOK, LedgerTypeOK, Account

(* The transaction of WorkMandate keeps the invariant.                     *)
LEMMA ExecuteInv == ASSUME IInv, NEW s \in Schedulers, Execute(s) PROVE IInv'
<1> DEFINE m == scheduler[s]
           r == mandate[m]
           total == r.terms.amount + policy.fee
<1> USE DEF IInv
<1>1. m \in MandateIds /\ UNCHANGED <<controlVars, now>>
  BY DEF Execute, TypeOK
<1>2. scheduler' \in [Schedulers -> MandateIds \cup {None}]
  BY DEF Execute, RoundEnds, TypeOK
<1>3. SUFFICES /\ LedgerTypeOK' /\ RowsBehind' /\ NextIsFresh' /\ CapsHold'
               /\ mandate' \in [MandateIds -> Progress \cup {None}]
               /\ occurrence' \subseteq [mandate : MandateIds, due : Nat, status : {"submitted", "action_required"}]
  BY <1>1, <1>2 DEF TypeOK, controlVars
<1>4. CASE UNCHANGED <<ledgerVars, mandateVars>>
  BY <1>4, RowsKept DEF mandateVars, ledgerVars, LedgerTypeOK, TypeOK
<1>5. ASSUME Due(m) PROVE Exists(m) /\ r \in Progress /\ r.terms \in Offers /\ r.status = "active" /\ total \in Nat
  BY <1>1, <1>5, RowTerms DEF Due, Is, TypeOK, OfferType
<1>6. ASSUME Due(m), Unsafe(r, total), PauseFor(m), UNCHANGED <<ledgerVars, payment>>
      PROVE  LedgerTypeOK' /\ RowsBehind' /\ NextIsFresh' /\ CapsHold'
             /\ mandate' \in [MandateIds -> Progress \cup {None}]
             /\ occurrence' \subseteq [mandate : MandateIds, due : Nat, status : {"submitted", "action_required"}]
  <2> DEFINE row == [r EXCEPT !.status = "paused"]
  <2>0. Exists(m) /\ r \in Progress /\ r.terms \in Offers /\ r.status = "active"
    BY <1>5, <1>6
  <2>1. /\ row \in Progress /\ row.status = "paused" /\ row # None /\ row.terms = r.terms
        /\ row.next = r.next /\ row.count = r.count /\ row.committed = r.committed
    <3>1. "paused" \in Live \cup {"cancelled", "completed"}
      BY DEF Live
    <3> QED BY <2>0, <3>1, StatusRow
  <2>9. mandate' = [mandate EXCEPT ![m] = row]
    BY <1>6 DEF PauseFor, SetStatus
  <2> HIDE DEF row
  <2>2. mandate' = [mandate EXCEPT ![m] = row]
    BY <2>9
  <2>3. \A o \in occurrence' : o \in occurrence \/ o = Row(m, "action_required")
    BY <1>6 DEF PauseFor
  <2>4. Row(m, "action_required") \in [mandate : MandateIds, due : Nat, status : {"submitted", "action_required"}]
    BY <1>1, <1>5, <1>6 DEF Row, Progress
  <2>5. mandate'[m] = row /\ \A n \in MandateIds \ {m} : mandate'[n] = mandate[n]
    BY <1>1, <2>2 DEF TypeOK
  <2>6. RowsBehind'
    BY <1>1, <1>5, <1>6, <2>1, <2>3, <2>4, <2>5 DEF RowsBehind, Row, Exists, TypeOK, Progress
  <2>7. NextIsFresh'
    <3> SUFFICES ASSUME NEW n \in MandateIds, Is(n, {"active"})', NEW o \in occurrence', o.mandate = n
                 PROVE  o.due # mandate'[n].next
      BY DEF NextIsFresh, Recorded
    <3>1. n # m
      BY <2>1, <2>5 DEF Is
    <3>2. o \in occurrence
      BY <2>3, <3>1 DEF Row
    <3> QED BY <2>5, <3>1, <3>2 DEF NextIsFresh, Is, Recorded, Exists
  <2>8. CapsHold'
    BY <2>0, <2>1, <2>5 DEF CapsHold, Exists
  <2>10. LedgerTypeOK'
    BY <1>6 DEF ledgerVars, LedgerTypeOK, TypeOK
  <2>11. mandate' \in [MandateIds -> Progress \cup {None}]
    BY <1>1, <2>1, <2>9 DEF TypeOK
  <2>12. occurrence' \subseteq [mandate : MandateIds, due : Nat, status : {"submitted", "action_required"}]
    BY <2>3, <2>4 DEF TypeOK
  <2> QED BY <2>6, <2>7, <2>8, <2>10, <2>11, <2>12
<1>7. ASSUME Due(m), ~Unsafe(r, total), ~Recorded(m),
             Transfer(<<m, r.next>>, r.terms.owner, r.terms.payee, r.terms.amount),
             occurrence' = occurrence \cup {Row(m, "submitted")},
             mandate' = [mandate EXCEPT ![m] = Advanced(r, total)]
      PROVE  LedgerTypeOK' /\ RowsBehind' /\ NextIsFresh' /\ CapsHold'
             /\ mandate' \in [MandateIds -> Progress \cup {None}]
             /\ occurrence' \subseteq [mandate : MandateIds, due : Nat, status : {"submitted", "action_required"}]
  <2> DEFINE row == Advanced(r, total)
  <2>0. Exists(m) /\ r \in Progress /\ r.terms \in Offers /\ r.status = "active" /\ total \in Nat
    BY <1>5, <1>7
  <2>1. /\ row \in Progress /\ row.terms = r.terms /\ row.count = r.count + 1
        /\ row.committed = r.committed + total
        /\ row.status = "active" => row.next = r.next + Period
        /\ row.status # "active" => row.next = r.next
    BY <2>0, AdvancedRow
  <2>9. mandate' = [mandate EXCEPT ![m] = row]
    BY <1>7
  <2> HIDE DEF row
  <2>2. mandate'[m] = row /\ \A n \in MandateIds \ {m} : mandate'[n] = mandate[n]
    BY <1>1, <2>9 DEF TypeOK
  <2>3. /\ Row(m, "submitted") \in [mandate : MandateIds, due : Nat, status : {"submitted", "action_required"}]
        /\ Row(m, "submitted").mandate = m /\ Row(m, "submitted").due = r.next
    BY <1>1, <1>5, <1>7 DEF Row, Progress
  <2>4. r.next \in Nat /\ r.count \in Nat /\ r.committed \in Nat /\ row.next >= r.next /\ row # None
    BY <1>5, <1>7, <2>1 DEF Progress
  <2>5. RowsBehind'
    <3> SUFFICES ASSUME NEW o \in occurrence'
                 PROVE  Exists(o.mandate)' /\ o.due <= mandate'[o.mandate].next
      BY DEF RowsBehind
    <3>1. CASE o = Row(m, "submitted")
      BY <2>2, <2>3, <2>4, <3>1 DEF Exists
    <3>2. CASE o \in occurrence /\ o.mandate # m
      BY <2>2, <3>2 DEF RowsBehind, Exists, TypeOK
    <3>3. CASE o \in occurrence /\ o.mandate = m
      <4>1. o.due \in Nat /\ o.due <= r.next /\ row.next \in Nat
        BY <2>1, <3>3 DEF RowsBehind, TypeOK, Progress
      <4> QED BY <2>2, <2>4, <3>3, <4>1 DEF Exists
    <3> QED BY <1>7, <3>1, <3>2, <3>3
  <2>6. NextIsFresh'
    <3> SUFFICES ASSUME NEW n \in MandateIds, Is(n, {"active"})', NEW o \in occurrence', o.mandate = n
                 PROVE  o.due # mandate'[n].next
      BY DEF NextIsFresh, Recorded
    <3>1. CASE n = m
      <4>1. row.next = r.next + Period /\ row.next > r.next
        BY <2>1, <2>2, <2>4, <3>1 DEF Is
      <4>2. o.due \in Nat /\ o.due <= r.next
        BY <1>7, <2>3, <2>4, <3>1 DEF RowsBehind, TypeOK
      <4> QED BY <2>2, <2>4, <3>1, <4>1, <4>2
    <3>2. CASE n # m
      BY <1>7, <2>2, <2>3, <3>2 DEF NextIsFresh, Is, Recorded, Exists
    <3> QED BY <3>1, <3>2
  <2>7. CapsHold'
    <3>1. r.count < r.terms.max /\ r.committed + total <= r.terms.maxTotal
      BY <1>5, <1>7, <2>4 DEF Unsafe, Withheld, Beyond, OfferType
    <3>2. row.count <= row.terms.max /\ row.committed <= row.terms.maxTotal
      BY <2>0, <2>1, <2>4, <3>1 DEF OfferType
    <3> QED BY <2>2, <3>2 DEF CapsHold, Exists
  <2>8. LedgerTypeOK'
    <3>1. r.terms.owner \in Customers /\ r.terms.payee \in Customers /\ r.terms.amount \in Nat
      BY <1>5, <1>7 DEF OfferType
    <3>2. r.terms.owner # r.terms.payee
      BY <1>5, <1>7, <1>1 DEF Exists, OfferType
    <3> QED BY <1>7, <3>1, <3>2, TransferBalances
  <2> QED BY <1>7, <2>1, <2>9, <2>3, <2>5, <2>6, <2>7, <2>8 DEF TypeOK
<1> QED BY <1>4, <1>6, <1>7 DEF Execute

(* The initial states satisfy the invariant.                               *)
LEMMA InitInv == Init => IInv
<1> SUFFICES ASSUME Init PROVE IInv
  OBVIOUS
<1>1. LedgerTypeOK
  BY DEF Init, LedgerTypeOK, Account
<1>2. TypeOK
  BY <1>1 DEF Init, TypeOK, PolicyTerms
<1>3. \A m \in MandateIds : ~Exists(m)
  BY DEF Init, Exists
<1> QED BY <1>2, <1>3 DEF Init, IInv, RowsBehind, NextIsFresh, CapsHold, Is

(* Steps of owners and staff, and of time.                                 *)
LEMMA OthersInv == IInv /\ (OwnerStep \/ StaffStep \/ Tick) => IInv'
<1> SUFFICES ASSUME IInv, OwnerStep \/ StaffStep \/ Tick PROVE IInv'
  OBVIOUS
<1>1. TypeOK
  BY DEF IInv
<1>2. ASSUME UNCHANGED <<mandate, occurrence, scheduler>>, LedgerTypeOK', now' \in Nat,
             policy' \in [enabled : BOOLEAN, fee : Nat, perPayment : Nat], priced' \subseteq Nat, frozen' \subseteq Customers,
             standing' \in [Customers -> {"active", "restricted", "closed"}]
      PROVE  IInv'
  BY <1>1, <1>2, RowsKept DEF IInv, TypeOK
<1>3. ASSUME NEW m \in MandateIds, NEW row \in Progress,
             mandate' = [mandate EXCEPT ![m] = row],
             row.count <= row.terms.max, row.committed <= row.terms.maxTotal,
             Exists(m) => row.next = mandate[m].next,
             row.status = "active" => ~Exists(m),
             UNCHANGED <<ledgerVars, occurrence, controlVars, now, scheduler>>
      PROVE  IInv'
  BY <1>1, <1>3, RowChange DEF IInv, TypeOK, LedgerTypeOK, ledgerVars, controlVars
<1>4. ASSUME NEW m \in MandateIds, NEW o \in Offers, CreateMandate(m, o) PROVE IInv'
  <2> DEFINE row == [terms |-> o, status |-> "active", next |-> o.first, count |-> 0, committed |-> 0]
  <2>1. row \in Progress /\ row.count <= row.terms.max /\ row.committed <= row.terms.maxTotal
    BY DEF Progress, OfferType, Live
  <2>2. mandate' = [mandate EXCEPT ![m] = row] /\ ~Exists(m)
    BY <1>4 DEF CreateMandate
  <2>3. UNCHANGED <<ledgerVars, occurrence, controlVars, now, scheduler>>
    BY <1>4 DEF CreateMandate, controlVars, ledgerVars
  <2> QED BY <1>3, <2>1, <2>2, <2>3
<1>5. ASSUME NEW m \in MandateIds, NEW status \in {"paused", "cancelled"}, Exists(m), SetStatus(m, status),
             UNCHANGED <<ledgerVars, occurrence, controlVars, now, scheduler>>
      PROVE  IInv'
  <2> DEFINE row == [mandate[m] EXCEPT !.status = status]
  <2>1. mandate[m] \in Progress /\ status \in Live \cup {"cancelled", "completed"}
    BY <1>1, <1>5, RowTerms DEF Live
  <2>2. /\ row \in Progress /\ row.status = status /\ row.terms = mandate[m].terms
        /\ row.next = mandate[m].next /\ row.count = mandate[m].count /\ row.committed = mandate[m].committed
    BY <2>1, StatusRow
  <2>3. mandate' = [mandate EXCEPT ![m] = row]
    BY <1>5 DEF SetStatus
  <2> HIDE DEF row
  <2>4. row.count <= row.terms.max /\ row.committed <= row.terms.maxTotal
    BY <1>5, <2>2 DEF IInv, CapsHold
  <2>5. row.status # "active"
    BY <1>5, <2>2
  <2> QED BY <1>3, <1>5, <2>2, <2>3, <2>4, <2>5
<1>6. ASSUME NEW m \in MandateIds, NEW status \in {"paused", "cancelled"}, MandateState(m, status) PROVE IInv'
  BY <1>5, <1>6 DEF MandateState, Is, controlVars, ledgerVars
<1>7. ASSUME NEW m \in MandateIds, ScheduleStop(m) PROVE IInv'
  BY <1>5, <1>7 DEF ScheduleStop, Is, controlVars, ledgerVars
<1>8. ASSUME NEW d \in DirectIds, NEW from \in Customers, NEW to \in Customers, DirectPayment(d, from, to)
      PROVE  IInv'
  <2>1. LedgerTypeOK'
    BY <1>1, <1>8, TransferBalances DEF DirectPayment
  <2> QED BY <1>1, <1>2, <1>8, <2>1 DEF DirectPayment, controlVars, TypeOK
<1>9. ASSUME NEW c \in Customers, CloseAccount(c) PROVE IInv'
  <2> DEFINE Stops(m) == Is(m, Live) /\ mandate[m].terms.owner = c
             Stopped(m) == [mandate[m] EXCEPT !.status = "cancelled"]
  <2>1. mandate' = [m \in MandateIds |-> IF Stops(m) THEN Stopped(m) ELSE mandate[m]]
    BY <1>9 DEF CloseAccount
  <2>2. ASSUME NEW m \in MandateIds, Stops(m)
        PROVE  /\ Exists(m) /\ Stopped(m) \in Progress /\ Stopped(m).status = "cancelled"
               /\ Stopped(m) # None /\ Stopped(m).terms = mandate[m].terms
               /\ Stopped(m).next = mandate[m].next /\ Stopped(m).count = mandate[m].count
               /\ Stopped(m).committed = mandate[m].committed
    <3>1. "cancelled" \in Live \cup {"cancelled", "completed"} /\ Exists(m) /\ mandate[m] \in Progress
      BY <1>1, <2>2, RowTerms DEF Is
    <3> QED BY <3>1, StatusRow
  <2> HIDE DEF Stops, Stopped
  <2>3. mandate' \in [MandateIds -> Progress \cup {None}]
    BY <1>1, <2>1, <2>2 DEF TypeOK
  <2>4. \A m \in MandateIds : /\ Exists(m)' <=> Exists(m)
                              /\ Exists(m) => /\ mandate'[m].next = mandate[m].next
                                              /\ mandate'[m].terms = mandate[m].terms
                                              /\ mandate'[m].count = mandate[m].count
                                              /\ mandate'[m].committed = mandate[m].committed
                              /\ Is(m, {"active"})' => Is(m, {"active"})
    BY <2>1, <2>2 DEF Exists, Is
  <2>5. UNCHANGED <<ledgerVars, occurrence, policy, priced, now, scheduler>>
    BY <1>9 DEF CloseAccount, ledgerVars
  <2>6. RowsBehind' /\ NextIsFresh' /\ CapsHold'
    BY <1>1, <2>4, <2>5 DEF IInv, TypeOK, RowsBehind, NextIsFresh, CapsHold, Recorded, Is
  <2>7. standing' \in [Customers -> {"active", "restricted", "closed"}] /\ frozen' \subseteq Customers
    BY <1>1, <1>9 DEF CloseAccount, TypeOK
  <2> QED BY <1>1, <2>3, <2>5, <2>6, <2>7 DEF IInv, TypeOK, LedgerTypeOK, ledgerVars
<1>10. ASSUME NEW c \in Customers, SecureAccount(c) \/ StandingChanges(c) PROVE IInv'
  BY <1>1, <1>2, <1>10 DEF SecureAccount, StandingChanges, TypeOK, LedgerTypeOK, ledgerVars, mandateVars
<1>11. CASE PolicyChanges
  <2>1. policy' \in [enabled : BOOLEAN, fee : Nat, perPayment : Nat]
    BY <1>1, <1>11 DEF PolicyChanges, PolicyTerms, TypeOK
  <2> QED BY <1>1, <1>2, <1>11, <2>1 DEF PolicyChanges, PolicyTerms, TypeOK, LedgerTypeOK, ledgerVars, mandateVars
<1>12. CASE Tick
  BY <1>1, <1>2, <1>12 DEF Tick, TypeOK, LedgerTypeOK, ledgerVars, mandateVars, controlVars
<1> QED BY <1>4, <1>6, <1>7, <1>8, <1>9, <1>10, <1>11, <1>12 DEF OwnerStep, StaffStep

(* Every step.                                                             *)
LEMMA StepInv == IInv /\ [Next]_vars => IInv'
<1> SUFFICES ASSUME IInv, [Next]_vars PROVE IInv'
  OBVIOUS
<1>1. ASSUME NEW s \in Schedulers, SchedulerStep(s) PROVE IInv'
  <2>1. CASE Execute(s)
    BY <2>1, ExecuteInv
  <2>2. ASSUME UNCHANGED <<ledgerVars, mandateVars, controlVars, now>>,
               scheduler' \in [Schedulers -> MandateIds \cup {None}]
        PROVE  IInv'
    BY <2>2, RowsKept DEF IInv, TypeOK, LedgerTypeOK, ledgerVars, mandateVars, controlVars
  <2>3. ASSUME NEW m \in MandateIds, PickMandate(s, m) PROVE IInv'
    BY <2>2, <2>3 DEF PickMandate, IInv, TypeOK
  <2>4. CASE Abandon(s)
    BY <2>2, <2>4 DEF Abandon, RoundEnds, IInv, TypeOK
  <2> QED BY <1>1, <2>1, <2>3, <2>4 DEF SchedulerStep
<1>2. CASE UNCHANGED vars
  BY <1>2, RowsKept DEF vars, IInv, TypeOK, LedgerTypeOK, ledgerVars, mandateVars, controlVars
<1> QED BY <1>1, <1>2, OthersInv DEF Next

(* The invariant of every behaviour: types, the caps of the row, and that  *)
(* the occurrence an active mandate waits for has no row yet (WorkMandate). *)
THEOREM MandateInvariant == Spec => []IInv
  BY InitInv, StepInv, PTL DEF Spec

(* A stopped mandate pays nothing more and is not revived, whatever a      *)
(* scheduler had looked up (MandateState, schedule_stop, CloseAccount).    *)
THEOREM Stopped == Spec => StoppedForGood
<1> DEFINE Kept == \A m \in MandateIds : Exists(m) /\ mandate[m].status # "active" =>
                     mandate'[m].status # "active" /\ mandate'[m].count = mandate[m].count
<1>1. IInv /\ [Next]_vars => [Kept]_vars
  <2> SUFFICES ASSUME IInv, Next, NEW m \in MandateIds, Exists(m), mandate[m].status # "active"
               PROVE  mandate'[m].status # "active" /\ mandate'[m].count = mandate[m].count
    OBVIOUS
  <2>1. TypeOK /\ mandate[m] \in Progress /\ ~Is(m, {"active"})
    BY RowTerms DEF IInv, Is
  <2>2. ASSUME UNCHANGED mandate
        PROVE  mandate'[m].status # "active" /\ mandate'[m].count = mandate[m].count
    BY <2>2
  <2>3. ASSUME NEW n \in MandateIds, n # m, NEW row, mandate' = [mandate EXCEPT ![n] = row]
        PROVE  mandate'[m].status # "active" /\ mandate'[m].count = mandate[m].count
    BY <2>1, <2>3 DEF TypeOK
  <2>4. ASSUME NEW n \in MandateIds, NEW status \in {"paused", "cancelled"}, SetStatus(n, status)
        PROVE  mandate'[m].status # "active" /\ mandate'[m].count = mandate[m].count
    <3>1. CASE n = m
      BY <2>1, <2>4, <3>1 DEF SetStatus, TypeOK, Progress
    <3>2. CASE n # m
      BY <2>3, <2>4, <3>2 DEF SetStatus
    <3> QED BY <3>1, <3>2
  <2>5. CASE OwnerStep
    <3>1. ASSUME NEW n \in MandateIds, NEW o \in Offers, CreateMandate(n, o)
          PROVE  mandate'[m].status # "active" /\ mandate'[m].count = mandate[m].count
      BY <2>3, <3>1 DEF CreateMandate
    <3>2. ASSUME NEW c \in Customers, CloseAccount(c)
          PROVE  mandate'[m].status # "active" /\ mandate'[m].count = mandate[m].count
      <4>1. mandate'[m] = mandate[m] \/ mandate'[m] = [mandate[m] EXCEPT !.status = "cancelled"]
        BY <3>2 DEF CloseAccount
      <4> QED BY <2>1, <4>1 DEF Progress
    <3> QED BY <2>2, <2>4, <2>5, <3>1, <3>2 DEF OwnerStep, MandateState, DirectPayment, SecureAccount, mandateVars
  <2>6. CASE StaffStep
    BY <2>2, <2>4, <2>6 DEF StaffStep, ScheduleStop, StandingChanges, PolicyChanges, mandateVars
  <2>7. ASSUME NEW s \in Schedulers, SchedulerStep(s)
        PROVE  mandate'[m].status # "active" /\ mandate'[m].count = mandate[m].count
    <3>1. CASE Execute(s)
      <4>1. scheduler[s] \in MandateIds
        BY <3>1 DEF Execute, IInv, TypeOK
      <4>2. Due(scheduler[s]) => scheduler[s] # m
        BY <2>1 DEF Due
      <4> QED BY <2>2, <2>3, <2>4, <3>1, <4>1, <4>2 DEF Execute, PauseFor, mandateVars
    <3> QED BY <2>2, <2>7, <3>1 DEF SchedulerStep, PickMandate, Abandon, mandateVars
  <2> QED BY <2>2, <2>5, <2>6, <2>7 DEF Next, Tick, mandateVars
<1> QED BY <1>1, MandateInvariant, PTL DEF Spec, StoppedForGood

(* A closed account stays empty and has no live mandate: nobody pays a     *)
(* closed account, by schedule or directly (CloseAccount, WorkMandate).    *)
THEOREM ClosedForGood == Spec => []ClosedStaysEmpty
<1>1. Init => ClosedStaysEmpty
  BY DEF Init, ClosedStaysEmpty
<1>2. IInv /\ ClosedStaysEmpty /\ [Next]_vars => ClosedStaysEmpty'
  <2> SUFFICES ASSUME IInv, ClosedStaysEmpty, [Next]_vars, NEW c \in Customers, standing'[c] = "closed"
               PROVE  balance'[c] = 0 /\ \A m \in MandateIds : Is(m, Live)' => mandate'[m].terms.owner # c
    BY DEF ClosedStaysEmpty
  <2>1. TypeOK
    BY DEF IInv
  <2>2. ASSUME standing[c] = "closed", balance'[c] = balance[c],
               \A m \in MandateIds : Is(m, Live)' => Is(m, Live) /\ mandate'[m].terms = mandate[m].terms
        PROVE  balance'[c] = 0 /\ \A m \in MandateIds : Is(m, Live)' => mandate'[m].terms.owner # c
    BY <2>2 DEF ClosedStaysEmpty
  <2>3. ASSUME UNCHANGED <<standing, balance, mandate>>
        PROVE  balance'[c] = 0 /\ \A m \in MandateIds : Is(m, Live)' => mandate'[m].terms.owner # c
    BY <2>3 DEF ClosedStaysEmpty, Is, Exists
  <2>4. ASSUME NEW m \in MandateIds, NEW status \in {"paused", "cancelled"}, Exists(m), Is(m, Live), SetStatus(m, status),
               UNCHANGED <<standing, balance>>
        PROVE  balance'[c] = 0 /\ \A n \in MandateIds : Is(n, Live)' => mandate'[n].terms.owner # c
    <3>1. mandate[m] \in Progress /\ mandate' = [mandate EXCEPT ![m] = [mandate[m] EXCEPT !.status = status]]
      BY <2>1, <2>4, RowTerms DEF SetStatus
    <3>2. [mandate[m] EXCEPT !.status = status].terms = mandate[m].terms
      BY <3>1 DEF Progress
    <3>3. \A n \in MandateIds : Is(n, Live)' => Is(n, Live) /\ mandate'[n].terms = mandate[n].terms
      BY <2>1, <2>4, <3>1, <3>2 DEF TypeOK, Is, Exists
    <3> QED BY <2>2, <2>4, <3>3
  <2>5. ASSUME NEW m \in MandateIds, NEW o \in Offers, CreateMandate(m, o)
        PROVE  balance'[c] = 0 /\ \A n \in MandateIds : Is(n, Live)' => mandate'[n].terms.owner # c
    <3>1. standing' = standing /\ balance' = balance /\ o.owner # c
      BY <2>5 DEF CreateMandate, controlVars, ledgerVars, Eligible
    <3>2. mandate'[m].terms = o /\ \A n \in MandateIds \ {m} : mandate'[n] = mandate[n]
      BY <2>1, <2>5 DEF CreateMandate, TypeOK
    <3> QED BY <3>1, <3>2 DEF ClosedStaysEmpty, Is, Exists
  <2>6. ASSUME NEW d \in DirectIds, NEW from \in Customers, NEW to \in Customers, DirectPayment(d, from, to)
        PROVE  balance'[c] = 0 /\ \A n \in MandateIds : Is(n, Live)' => mandate'[n].terms.owner # c
    <3>1. standing' = standing /\ mandate' = mandate /\ c # from /\ c # to
      BY <2>6 DEF DirectPayment, controlVars, Eligible
    <3>2. balance'[c] = balance[c]
      BY <2>1, <2>6, <3>1, TransferBalances DEF DirectPayment
    <3> QED BY <3>1, <3>2 DEF ClosedStaysEmpty, Is, Exists
  <2>7. ASSUME NEW d \in Customers, CloseAccount(d)
        PROVE  balance'[c] = 0 /\ \A n \in MandateIds : Is(n, Live)' => mandate'[n].terms.owner # c
    <3>1. balance' = balance /\ (c = d => balance[c] = 0) /\ (c # d => standing[c] = "closed")
      BY <2>1, <2>7 DEF CloseAccount, ledgerVars, TypeOK
    <3>2. ASSUME NEW n \in MandateIds, Is(n, Live)'
          PROVE  mandate'[n] = mandate[n] /\ Is(n, Live) /\ mandate[n].terms.owner # d
      <4>1. CASE Is(n, Live) /\ mandate[n].terms.owner = d
        <5>1. mandate'[n] = [mandate[n] EXCEPT !.status = "cancelled"] /\ mandate[n] \in Progress
          BY <2>1, <2>7, <4>1, RowTerms DEF CloseAccount, Is
        <5>2. mandate'[n].status = "cancelled"
          BY <5>1 DEF Progress
        <5> QED BY <3>2, <5>2 DEF Is, Live
      <4>2. CASE ~(Is(n, Live) /\ mandate[n].terms.owner = d)
        <5>1. mandate'[n] = mandate[n]
          BY <2>7, <4>2 DEF CloseAccount
        <5> QED BY <3>2, <4>2, <5>1 DEF Is, Exists
      <4> QED BY <4>1, <4>2
    <3> QED BY <3>1, <3>2 DEF ClosedStaysEmpty
  <2>8. ASSUME NEW d \in Customers, StandingChanges(d)
        PROVE  balance'[c] = 0 /\ \A n \in MandateIds : Is(n, Live)' => mandate'[n].terms.owner # c
    <3>1. standing[c] = "closed" /\ balance' = balance /\ mandate' = mandate
      BY <2>1, <2>8 DEF StandingChanges, ledgerVars, mandateVars, TypeOK
    <3> QED BY <3>1 DEF ClosedStaysEmpty, Is, Exists
  <2>9. ASSUME NEW s \in Schedulers, Execute(s)
        PROVE  balance'[c] = 0 /\ \A n \in MandateIds : Is(n, Live)' => mandate'[n].terms.owner # c
    <3> DEFINE m == scheduler[s]
               r == mandate[m]
               total == r.terms.amount + policy.fee
    <3>1. m \in MandateIds /\ standing' = standing
      BY <2>1, <2>9 DEF Execute, TypeOK, controlVars
    <3>2. CASE UNCHANGED <<ledgerVars, mandateVars>>
      BY <2>3, <3>1, <3>2 DEF ledgerVars, mandateVars
    <3>3. CASE Due(m) /\ PauseFor(m) /\ UNCHANGED <<ledgerVars, payment>>
      BY <2>4, <3>1, <3>3 DEF PauseFor, Due, Is, Live, ledgerVars
    <3>4. CASE /\ Due(m) /\ ~Unsafe(r, total)
               /\ Transfer(<<m, r.next>>, r.terms.owner, r.terms.payee, r.terms.amount)
               /\ mandate' = [mandate EXCEPT ![m] = Advanced(r, total)]
      <4>1. /\ r \in Progress /\ r.terms \in Offers /\ r.terms.owner # r.terms.payee
            /\ r.terms.owner \in Customers /\ r.terms.payee \in Customers /\ total \in Nat
            /\ r.terms.amount \in Nat
        BY <2>1, <3>1, <3>4, RowTerms DEF Due, Is, TypeOK, OfferType
      <4>2. c # r.terms.owner /\ c # r.terms.payee
        BY <3>1, <3>4 DEF Unsafe, Withheld, Eligible
      <4>3. balance'[c] = balance[c]
        BY <2>1, <3>4, <4>1, <4>2, TransferBalances
      <4>4. Advanced(r, total).terms = r.terms
        BY <4>1, AdvancedRow
      <4>5. mandate'[m].terms = r.terms /\ \A n \in MandateIds \ {m} : mandate'[n] = mandate[n]
        BY <2>1, <3>1, <3>4, <4>4 DEF TypeOK
      <4> QED BY <3>1, <4>2, <4>3, <4>5 DEF ClosedStaysEmpty, Is, Exists
    <3> QED BY <2>9, <3>2, <3>3, <3>4 DEF Execute
  <2>10. CASE UNCHANGED vars
    BY <2>3, <2>10 DEF vars, controlVars, ledgerVars, mandateVars
  <2>11. CASE OwnerStep
    <3>1. ASSUME NEW d \in Customers, SecureAccount(d) PROVE UNCHANGED <<standing, balance, mandate>>
      BY <3>1 DEF SecureAccount, ledgerVars, mandateVars
    <3>2. ASSUME NEW m \in MandateIds, NEW status \in {"paused", "cancelled"}, MandateState(m, status)
          PROVE  Exists(m) /\ Is(m, Live) /\ SetStatus(m, status) /\ UNCHANGED <<standing, balance>>
      BY <3>2 DEF MandateState, Is, controlVars, ledgerVars
    <3> QED BY <2>3, <2>4, <2>5, <2>6, <2>7, <2>11, <3>1, <3>2 DEF OwnerStep
  <2>12. CASE StaffStep
    <3>1. ASSUME PolicyChanges PROVE UNCHANGED <<standing, balance, mandate>>
      BY <3>1 DEF PolicyChanges, ledgerVars, mandateVars
    <3>2. ASSUME NEW m \in MandateIds, ScheduleStop(m)
          PROVE  Exists(m) /\ Is(m, Live) /\ SetStatus(m, "paused") /\ UNCHANGED <<standing, balance>>
      BY <3>2 DEF ScheduleStop, Is, Live, controlVars, ledgerVars
    <3> QED BY <2>3, <2>4, <2>8, <2>12, <3>1, <3>2 DEF StaffStep
  <2>13. ASSUME Tick \/ \E s \in Schedulers : Abandon(s) \/ \E m \in MandateIds : PickMandate(s, m)
         PROVE  UNCHANGED <<standing, balance, mandate>>
    BY <2>13 DEF Tick, Abandon, PickMandate, controlVars, ledgerVars, mandateVars
  <2> QED BY <2>3, <2>9, <2>10, <2>11, <2>12, <2>13 DEF Next, SchedulerStep
<1> QED BY <1>1, <1>2, MandateInvariant, PTL DEF Spec

-----------------------------------------------------------------------------
(* What was debited, added up: each debit adds one payment to those of its *)
(* mandate and of its day, after the code has compared the new totals.     *)

(* What a set of payments adds up to, as the theorems about sums need it.   *)
LEMMA TotalledType ==
  ASSUME NEW S, IsFiniteSet(S), \A p \in S : p.total \in Nat
  PROVE  Totalled(S) \in Nat
BY SumNonNegative DEF Totalled, SumFunction

LEMMA TotalledNothing == Totalled({}) = 0
BY SumEmpty DEF Totalled, SumFunction

LEMMA TotalledAdd ==
  ASSUME NEW S, IsFiniteSet(S), NEW x, x \notin S, \A p \in S \cup {x} : p.total \in Nat
  PROVE  Totalled(S \cup {x}) = Totalled(S) + x.total
<1> DEFINE v == [p \in S |-> p.total]
           w == [p \in S \cup {x} |-> p.total]
<1>1. SumFunctionOnSet(w, S \cup {x}) = w[x] + SumFunctionOnSet(w, S)
  BY SumAdd
<1>2. SumFunctionOnSet(v, S) = SumFunctionOnSet(w, S)
  BY SumSame
<1>3. SumFunctionOnSet(w, S) \in Nat
  BY SumNonNegative
<1>4. Totalled(S) = SumFunctionOnSet(v, S) /\ Totalled(S \cup {x}) = SumFunctionOnSet(w, S \cup {x}) /\ w[x] = x.total
  BY DEF Totalled, SumFunction
<1> HIDE DEF v, w
<1> QED BY <1>1, <1>2, <1>3, <1>4

PaymentRow == [id : DirectIds \cup (MandateIds \X Nat), owner : Customers, total : Nat, at : Nat]

PaymentsOK == payment \subseteq PaymentRow /\ IsFiniteSet(payment)

(* A debit of a mandate has its occurrence.                                *)
DebitsRecorded ==
  \A p \in payment : p.id \notin DirectIds => \E o \in occurrence : p.id = <<o.mandate, o.due>>

ConsentInv == PaymentsOK /\ DebitsRecorded /\ WithinConsent /\ DailyLimitHolds

(* The consent to one mandate.                                             *)
Consented(m) ==
  Exists(m) =>
    LET r == mandate[m]  paid == DebitsOf(m) IN
    /\ r.count = Cardinality(paid) /\ r.count <= r.terms.max
    /\ r.committed = Totalled(paid) /\ r.committed <= r.terms.maxTotal
    /\ \A p \in paid : /\ p.total <= r.terms.maxDebit
                       /\ p.owner = r.terms.owner
                       /\ p.at <= r.terms.ends
                       /\ p.id[2] <= p.at /\ p.at - p.id[2] <= Day

LEMMA ConsentParts == WithinConsent <=> \A m \in MandateIds : Consented(m)
BY DEF WithinConsent, Consented

(* A mandate's debits are the payments that bear its name.                 *)
LEMMA DebitsAre ==
  ASSUME DebitsRecorded, NEW m \in MandateIds,
         occurrence \subseteq [mandate : MandateIds, due : Nat, status : {"submitted", "action_required"}]
  PROVE  DebitsOf(m) = {p \in payment : p.id \in {m} \X Nat}
<1>1. ASSUME NEW p \in payment, p.id \in {m} \X Nat PROVE p \in DebitsOf(m)
  <2>1. p.id \notin DirectIds
    BY <1>1, MandateAssumption
  <2>2. PICK o \in occurrence : p.id = <<o.mandate, o.due>>
    BY <2>1 DEF DebitsRecorded
  <2> QED BY <1>1, <2>2 DEF DebitsOf
<1>2. \A p \in DebitsOf(m) : p \in payment /\ p.id \in {m} \X Nat
  BY DEF DebitsOf
<1> QED BY <1>1, <1>2

LEMMA ConsentKept ==
  ASSUME NEW m \in MandateIds, Consented(m), DebitsOf(m)' = DebitsOf(m), Exists(m)' => Exists(m),
         Exists(m) => /\ mandate'[m].terms = mandate[m].terms /\ mandate'[m].count = mandate[m].count
                      /\ mandate'[m].committed = mandate[m].committed
  PROVE  Consented(m)'
BY DEF Consented

(* Steps that neither pay nor record. *)
LEMMA QuietStep ==
  ASSUME IInv, ConsentInv, UNCHANGED <<payment, occurrence>>,
         \A m \in MandateIds : Exists(m)' =>
           /\ Exists(m) /\ mandate'[m].terms = mandate[m].terms
           /\ mandate'[m].count = mandate[m].count /\ mandate'[m].committed = mandate[m].committed
  PROVE  ConsentInv'
<1>1. PaymentsOK' /\ DebitsRecorded'
  BY DEF ConsentInv, PaymentsOK, DebitsRecorded
<1>2. \A m \in MandateIds : DebitsOf(m)' = DebitsOf(m)
  BY DEF DebitsOf
<1>3. WithinConsent'
  <2>1. ASSUME NEW m \in MandateIds PROVE Consented(m)'
    BY <1>2, ConsentParts DEF Consented, ConsentInv
  <2> QED BY <2>1 DEF WithinConsent, Consented
<1>4. DailyLimitHolds'
  BY DEF ConsentInv, DailyLimitHolds, SpentOn
<1> QED BY <1>1, <1>3, <1>4 DEF ConsentInv

LEMMA CreateConsent ==
  ASSUME IInv, ConsentInv, NEW m \in MandateIds, NEW o \in Offers, CreateMandate(m, o)
  PROVE  ConsentInv'
<1>1. UNCHANGED <<payment, occurrence>> /\ ~Exists(m)
      /\ mandate' = [mandate EXCEPT ![m] =
           [terms |-> o, status |-> "active", next |-> o.first, count |-> 0, committed |-> 0]]
  BY DEF CreateMandate
<1>2. PaymentsOK' /\ DebitsRecorded'
  BY <1>1 DEF ConsentInv, PaymentsOK, DebitsRecorded
<1>3. \A n \in MandateIds : DebitsOf(n)' = DebitsOf(n)
  BY <1>1 DEF DebitsOf
<1>4. DailyLimitHolds'
  BY <1>1 DEF ConsentInv, DailyLimitHolds, SpentOn
<1>5. DebitsOf(m) = {}
  <2>1. \A x \in occurrence : x.mandate # m
    BY <1>1 DEF IInv, RowsBehind
  <2>2. ASSUME NEW p \in DebitsOf(m) PROVE FALSE
    <3>1. p \in payment /\ p.id \in {m} \X Nat
      BY <2>2, DebitsAre DEF ConsentInv, IInv, TypeOK
    <3>2. p.id \notin DirectIds
      BY <3>1, MandateAssumption
    <3>3. PICK y \in occurrence : p.id = <<y.mandate, y.due>>
      BY <3>1, <3>2 DEF ConsentInv, DebitsRecorded
    <3> QED BY <2>1, <3>1, <3>3
  <2> QED BY <2>2
<1>6. ASSUME NEW n \in MandateIds PROVE Consented(n)'
  <2>1. CASE n = m
    <3>1. /\ mandate'[m].count = 0 /\ mandate'[m].committed = 0 /\ mandate'[m].terms = o
      BY <1>1 DEF IInv, TypeOK
    <3>2. Cardinality({}) = 0 /\ Totalled({}) = 0
      BY FS_EmptySet, TotalledNothing
    <3>3. 0 <= o.max /\ 0 <= o.maxTotal
      BY DEF OfferType
    <3> QED BY <1>3, <1>5, <2>1, <3>1, <3>2, <3>3 DEF Consented
  <2>2. CASE n # m
    <3>1. mandate'[n] = mandate[n]
      BY <1>1, <2>2 DEF IInv, TypeOK
    <3> QED BY <1>3, <3>1, ConsentParts DEF ConsentInv, Consented, Exists
  <2> QED BY <2>1, <2>2
<1> QED BY <1>2, <1>4, <1>6 DEF ConsentInv, WithinConsent, Consented

(* What a payment adds to the day of its owner, and to nothing else. *)
LEMMA TransferDays ==
  ASSUME IInv, ConsentInv, NEW p \in PaymentRow, p \notin payment, payment' = payment \cup {p},
         p.at = now, SpentOn(p.owner, DayOf(now)) + p.total <= Daily
  PROVE  PaymentsOK' /\ DailyLimitHolds'
<1>1. PaymentsOK'
  BY FS_AddElement DEF ConsentInv, PaymentsOK
<1>2. ASSUME NEW c \in Customers, NEW day \in 0..DayOf(Horizon) PROVE SpentOn(c, day)' <= Daily
  <2> DEFINE S == {q \in payment : q.owner = c /\ DayOf(q.at) = day}
             T == {q \in payment' : q.owner = c /\ DayOf(q.at) = day}
  <2>1. SpentOn(c, day) = Totalled(S) /\ SpentOn(c, day)' = Totalled(T)
    BY DEF SpentOn
  <2>2. SpentOn(c, day) <= Daily
    BY DEF ConsentInv, DailyLimitHolds
  <2>3. CASE p.owner = c /\ DayOf(now) = day
    <3>1. T = S \cup {p} /\ p \notin S
      BY <2>3
    <3>2. IsFiniteSet(S) /\ \A x \in S \cup {p} : x.total \in Nat
      BY FS_Subset DEF ConsentInv, PaymentsOK, PaymentRow
    <3> HIDE DEF S, T
    <3>3. Totalled(T) = Totalled(S) + p.total
      BY <3>1, <3>2, TotalledAdd
    <3> QED BY <2>1, <2>3, <3>3
  <2>4. CASE ~(p.owner = c /\ DayOf(now) = day)
    <3>1. T = S
      BY <2>4
    <3> HIDE DEF S, T
    <3> QED BY <2>1, <2>2, <3>1
  <2> QED BY <2>3, <2>4
<1> QED BY <1>1, <1>2 DEF DailyLimitHolds

LEMMA DirectConsent ==
  ASSUME IInv, ConsentInv, NEW d \in DirectIds, NEW from \in Customers, NEW to \in Customers,
         DirectPayment(d, from, to)
  PROVE  ConsentInv'
<1> DEFINE p == [id |-> d, owner |-> from, total |-> DirectAmount + policy.fee, at |-> now]
<1>1. /\ payment' = payment \cup {p} /\ UNCHANGED <<mandate, occurrence>>
      /\ p \notin payment
      /\ SpentOn(p.owner, DayOf(now)) + p.total <= Daily
  BY DEF DirectPayment, Transfer, MaySpend
<1>2. p \in PaymentRow /\ p.at = now /\ p.id = d
  BY DEF IInv, TypeOK, PaymentRow
<1> HIDE DEF p
<1>3. PaymentsOK' /\ DailyLimitHolds'
  BY <1>1, <1>2, TransferDays
<1>4. DebitsRecorded'
  BY <1>1, <1>2 DEF DebitsRecorded, ConsentInv
<1>5. \A m \in MandateIds : DebitsOf(m)' = DebitsOf(m)
  <2>1. \A m \in MandateIds : p.id \notin {m} \X Nat
    BY <1>2, MandateAssumption
  <2>2. occurrence' = occurrence /\
        occurrence \subseteq [mandate : MandateIds, due : Nat, status : {"submitted", "action_required"}]
    BY <1>1 DEF IInv, TypeOK
  <2>3. \A m \in MandateIds : p.id \notin {<<m, o.due>> : o \in occurrence}
    BY <2>1, <2>2
  <2> QED BY <1>1, <2>3 DEF DebitsOf
<1>6. \A m \in MandateIds : Consented(m)'
  BY <1>1, <1>5, ConsentKept, ConsentParts DEF ConsentInv, Exists
<1> QED BY <1>3, <1>4, <1>6 DEF ConsentInv, WithinConsent, Consented

LEMMA PauseConsent ==
  ASSUME IInv, ConsentInv, NEW m \in MandateIds, Exists(m), PauseFor(m), UNCHANGED payment
  PROVE  ConsentInv'
<1>1. /\ \A o \in occurrence : o \in occurrence'
      /\ \A o \in occurrence' : o \in occurrence \/ o = Row(m, "action_required")
  BY DEF PauseFor
<1>2. occurrence' \subseteq [mandate : MandateIds, due : Nat, status : {"submitted", "action_required"}]
  <2>1. mandate[m].next \in Nat
    BY RowTerms DEF IInv, Progress
  <2> QED BY <1>1, <2>1 DEF IInv, TypeOK, Row
<1>3. PaymentsOK' /\ DebitsRecorded'
  BY <1>1 DEF ConsentInv, PaymentsOK, DebitsRecorded
<1>4. \A n \in MandateIds : DebitsOf(n)' = DebitsOf(n)
  <2> SUFFICES ASSUME NEW n \in MandateIds PROVE DebitsOf(n)' = DebitsOf(n)
    OBVIOUS
  <2>1. DebitsOf(n) = {p \in payment : p.id \in {n} \X Nat}
    BY DebitsAre DEF ConsentInv, IInv, TypeOK
  <2>2. DebitsOf(n)' \subseteq {p \in payment : p.id \in {n} \X Nat}
    BY <1>2 DEF DebitsOf
  <2>3. DebitsOf(n) \subseteq DebitsOf(n)'
    BY <1>1 DEF DebitsOf
  <2> QED BY <2>1, <2>2, <2>3
<1>5. DailyLimitHolds'
  BY DEF ConsentInv, DailyLimitHolds, SpentOn
<1>6. \A n \in MandateIds :
        /\ Exists(n)' => Exists(n)
        /\ Exists(n) => /\ mandate'[n].terms = mandate[n].terms
                        /\ mandate'[n].count = mandate[n].count
                        /\ mandate'[n].committed = mandate[n].committed
  <2>1. mandate[m] \in Progress /\ "paused" \in Live \cup {"cancelled", "completed"}
    BY RowTerms DEF IInv, Live
  <2>2. mandate' = [mandate EXCEPT ![m] = [mandate[m] EXCEPT !.status = "paused"]]
    BY DEF PauseFor, SetStatus
  <2> QED BY <2>1, <2>2, StatusRow DEF IInv, TypeOK, Exists
<1>7. ASSUME NEW n \in MandateIds PROVE Consented(n)'
  <2>1. Consented(n) /\ DebitsOf(n)' = DebitsOf(n)
    BY <1>4, ConsentParts DEF ConsentInv
  <2> QED BY <1>6, <2>1, ConsentKept
<1> QED BY <1>3, <1>5, <1>7 DEF ConsentInv, WithinConsent, Consented

LEMMA DebitConsent ==
  ASSUME IInv, ConsentInv, NEW m \in MandateIds, NEW total, total = mandate[m].terms.amount + policy.fee,
         Due(m), ~Unsafe(mandate[m], total), ~Recorded(m),
         Transfer(<<m, mandate[m].next>>, mandate[m].terms.owner, mandate[m].terms.payee, mandate[m].terms.amount),
         occurrence' = occurrence \cup {Row(m, "submitted")},
         mandate' = [mandate EXCEPT ![m] = Advanced(mandate[m], total)]
  PROVE  ConsentInv'
<1> DEFINE r == mandate[m]
           p == [id |-> <<m, r.next>>, owner |-> r.terms.owner, total |-> total, at |-> now]
<1>1. /\ Exists(m) /\ r \in Progress /\ r.terms \in Offers /\ total \in Nat /\ now \in Nat
      /\ r.next \in Nat /\ r.count \in Nat /\ r.committed \in Nat
  BY RowTerms DEF Due, Is, IInv, TypeOK, OfferType, Progress
<1>2. p \in PaymentRow /\ p.id = <<m, r.next>> /\ p.owner = r.terms.owner /\ p.total = total /\ p.at = now
  BY <1>1 DEF PaymentRow, OfferType
<1>3. payment' = payment \cup {p}
  BY DEF Transfer
<1>4. /\ now <= r.terms.ends /\ r.count < r.terms.max /\ total <= r.terms.maxDebit
      /\ r.committed + total <= r.terms.maxTotal
      /\ r.next <= now /\ now - r.next <= Day
      /\ SpentOn(r.terms.owner, DayOf(now)) + total <= Daily
  BY <1>1 DEF Unsafe, Withheld, Beyond, Due, MaySpend, OfferType
<1>5. Row(m, "submitted").mandate = m /\ Row(m, "submitted").due = r.next
      /\ Row(m, "submitted") \in [mandate : MandateIds, due : Nat, status : {"submitted", "action_required"}]
  BY <1>1 DEF Row
<1> HIDE DEF r, p
<1>6. p \notin payment
  <2> SUFFICES ASSUME p \in payment PROVE FALSE
    OBVIOUS
  <2>1. p.id \notin DirectIds
    BY <1>1, <1>2, MandateAssumption
  <2>2. PICK o \in occurrence : p.id = <<o.mandate, o.due>>
    BY <2>1 DEF ConsentInv, DebitsRecorded
  <2> QED BY <1>2, <2>2 DEF Recorded, r
<1>7. PaymentsOK' /\ DailyLimitHolds'
  BY <1>2, <1>3, <1>4, <1>6, TransferDays
<1>8. DebitsRecorded'
  BY <1>2, <1>3, <1>5 DEF DebitsRecorded, ConsentInv
<1>9. occurrence' \subseteq [mandate : MandateIds, due : Nat, status : {"submitted", "action_required"}]
  BY <1>5 DEF IInv, TypeOK
<1>10. ASSUME NEW n \in MandateIds
       PROVE  DebitsOf(n)' = DebitsOf(n) \cup (IF n = m THEN {p} ELSE {})
  <2>1. DebitsOf(n) = {x \in payment : x.id \in {n} \X Nat}
    BY DebitsAre DEF ConsentInv, IInv, TypeOK
  <2>2. DebitsOf(n)' = {x \in payment' : x.id \in {n} \X Nat}
    <3>1. ASSUME NEW x \in payment', x.id \in {n} \X Nat PROVE x.id \in {<<n, o.due>> : o \in occurrence'}
      <4>1. x.id \notin DirectIds
        BY <3>1, MandateAssumption
      <4>2. PICK o \in occurrence' : x.id = <<o.mandate, o.due>>
        BY <1>8, <4>1 DEF DebitsRecorded
      <4> QED BY <3>1, <4>2
    <3>2. ASSUME NEW o \in occurrence' PROVE <<n, o.due>> \in {n} \X Nat
      BY <1>9
    <3> QED BY <3>1, <3>2 DEF DebitsOf
  <2>3. p.id \in {n} \X Nat <=> n = m
    BY <1>1, <1>2
  <2> QED BY <1>3, <2>1, <2>2, <2>3
<1>11. Consented(m)'
  <2> DEFINE paid == DebitsOf(m)
  <2>1. /\ IsFiniteSet(paid) /\ p \notin paid /\ \A x \in paid \cup {p} : x.total \in Nat
    BY <1>1, <1>2, <1>6, FS_Subset DEF ConsentInv, PaymentsOK, PaymentRow, DebitsOf
  <2>2. DebitsOf(m)' = paid \cup {p}
    BY <1>10
  <2>3. /\ r.count = Cardinality(paid) /\ r.committed = Totalled(paid)
        /\ \A x \in paid : /\ x.total <= r.terms.maxDebit /\ x.owner = r.terms.owner
                           /\ x.at <= r.terms.ends
                           /\ x.id[2] <= x.at /\ x.at - x.id[2] <= Day
    BY <1>1, ConsentParts DEF ConsentInv, Consented, r
  <2> HIDE DEF paid
  <2>4. Cardinality(paid \cup {p}) = r.count + 1 /\ Totalled(paid \cup {p}) = r.committed + total
    BY <1>2, <2>1, <2>3, FS_AddElement, TotalledAdd
  <2>5. /\ mandate'[m].terms = r.terms /\ mandate'[m].count = r.count + 1
        /\ mandate'[m].committed = r.committed + total
    <3>1. mandate'[m] = Advanced(r, total)
      BY DEF IInv, TypeOK, r
    <3>2. /\ Advanced(r, total).terms = r.terms /\ Advanced(r, total).count = r.count + 1
          /\ Advanced(r, total).committed = r.committed + total
      BY <1>1, AdvancedRow
    <3> QED BY <3>1, <3>2
  <2>6. /\ p.total <= r.terms.maxDebit /\ p.owner = r.terms.owner /\ p.at <= r.terms.ends
        /\ p.id[2] <= p.at /\ p.at - p.id[2] <= Day
    BY <1>2, <1>4
  <2>7. r.count + 1 <= r.terms.max
    BY <1>1, <1>4 DEF OfferType
  <2> QED BY <1>4, <2>2, <2>3, <2>4, <2>5, <2>6, <2>7 DEF Consented
<1>12. ASSUME NEW n \in MandateIds, n # m PROVE Consented(n)'
  <2>1. DebitsOf(n)' = DebitsOf(n) /\ mandate'[n] = mandate[n]
    BY <1>10, <1>12 DEF IInv, TypeOK
  <2> QED BY <2>1, ConsentKept, ConsentParts DEF ConsentInv, Exists
<1> QED BY <1>7, <1>8, <1>11, <1>12 DEF ConsentInv, WithinConsent, Consented

LEMMA ExecuteConsent == ASSUME IInv, ConsentInv, NEW s \in Schedulers, Execute(s) PROVE ConsentInv'
<1> DEFINE m == scheduler[s]
           r == mandate[m]
           total == r.terms.amount + policy.fee
<1>1. m \in MandateIds
  BY DEF Execute, IInv, TypeOK
<1>2. CASE UNCHANGED <<ledgerVars, mandateVars>>
  BY <1>2, QuietStep DEF mandateVars, Exists
<1>3. CASE Due(m) /\ PauseFor(m) /\ UNCHANGED <<ledgerVars, payment>>
  BY <1>1, <1>3, PauseConsent DEF Due, Is
<1>4. CASE /\ Due(m) /\ ~Unsafe(r, total) /\ ~Recorded(m)
           /\ Transfer(<<m, r.next>>, r.terms.owner, r.terms.payee, r.terms.amount)
           /\ occurrence' = occurrence \cup {Row(m, "submitted")}
           /\ mandate' = [mandate EXCEPT ![m] = Advanced(r, total)]
  BY <1>1, <1>4, DebitConsent
<1> QED BY <1>2, <1>3, <1>4 DEF Execute

LEMMA ConsentStep == IInv /\ ConsentInv /\ [Next]_vars => ConsentInv'
<1> SUFFICES ASSUME IInv, ConsentInv, [Next]_vars PROVE ConsentInv'
  OBVIOUS
<1>1. ASSUME UNCHANGED <<payment, occurrence, mandate>> PROVE ConsentInv'
  BY <1>1, QuietStep DEF Exists
<1>2. ASSUME NEW m \in MandateIds, NEW status \in {"paused", "cancelled"}, Exists(m), SetStatus(m, status),
             UNCHANGED <<payment, occurrence>>
      PROVE  ConsentInv'
  <2>1. mandate[m] \in Progress /\ status \in Live \cup {"cancelled", "completed"}
    BY <1>2, RowTerms DEF IInv, Live
  <2>2. mandate' = [mandate EXCEPT ![m] = [mandate[m] EXCEPT !.status = status]]
    BY <1>2 DEF SetStatus
  <2>3. \A n \in MandateIds : Exists(n)' =>
           /\ Exists(n) /\ mandate'[n].terms = mandate[n].terms
           /\ mandate'[n].count = mandate[n].count /\ mandate'[n].committed = mandate[n].committed
    BY <1>2, <2>1, <2>2, StatusRow DEF IInv, TypeOK, Exists
  <2> QED BY <1>2, <2>3, QuietStep
<1>3. ASSUME NEW c \in Customers, CloseAccount(c) PROVE ConsentInv'
  <2>1. \A n \in MandateIds : \/ mandate'[n] = mandate[n]
                              \/ Exists(n) /\ mandate'[n] = [mandate[n] EXCEPT !.status = "cancelled"]
    BY <1>3 DEF CloseAccount, Is
  <2>2. \A n \in MandateIds : Exists(n)' =>
           /\ Exists(n) /\ mandate'[n].terms = mandate[n].terms
           /\ mandate'[n].count = mandate[n].count /\ mandate'[n].committed = mandate[n].committed
    <3> SUFFICES ASSUME NEW n \in MandateIds, Exists(n)'
                 PROVE  /\ Exists(n) /\ mandate'[n].terms = mandate[n].terms
                        /\ mandate'[n].count = mandate[n].count
                        /\ mandate'[n].committed = mandate[n].committed
      OBVIOUS
    <3>1. CASE mandate'[n] = mandate[n]
      BY <3>1 DEF Exists
    <3>2. CASE Exists(n) /\ mandate'[n] = [mandate[n] EXCEPT !.status = "cancelled"]
      <4>1. mandate[n] \in Progress /\ "cancelled" \in Live \cup {"cancelled", "completed"}
        BY <3>2, RowTerms DEF IInv
      <4> QED BY <3>2, <4>1, StatusRow
    <3> QED BY <2>1, <3>1, <3>2
  <2> QED BY <1>3, <2>2, QuietStep DEF CloseAccount
<1>4. CASE OwnerStep
  BY <1>1, <1>2, <1>3, <1>4, CreateConsent, DirectConsent
     DEF OwnerStep, MandateState, Is, SecureAccount, mandateVars
<1>5. CASE StaffStep
  BY <1>1, <1>2, <1>5 DEF StaffStep, ScheduleStop, Is, StandingChanges, PolicyChanges, mandateVars
<1>6. ASSUME NEW s \in Schedulers, SchedulerStep(s) PROVE ConsentInv'
  BY <1>1, <1>6, ExecuteConsent DEF SchedulerStep, PickMandate, Abandon, mandateVars
<1>7. CASE Tick \/ UNCHANGED vars
  BY <1>1, <1>7 DEF Tick, vars, mandateVars
<1> QED BY <1>4, <1>5, <1>6, <1>7 DEF Next

LEMMA InitConsent == Init => ConsentInv
<1> SUFFICES ASSUME Init PROVE ConsentInv
  OBVIOUS
<1>1. PaymentsOK /\ DebitsRecorded /\ WithinConsent
  BY FS_EmptySet DEF Init, PaymentsOK, DebitsRecorded, WithinConsent, Exists
<1>2. ASSUME NEW c, NEW day PROVE SpentOn(c, day) <= Daily
  <2>1. {p \in payment : p.owner = c /\ DayOf(p.at) = day} = {}
    BY DEF Init
  <2>2. SpentOn(c, day) = Totalled({})
    BY <2>1 DEF SpentOn
  <2> QED BY <2>2, TotalledNothing
<1> QED BY <1>1, <1>2 DEF ConsentInv, DailyLimitHolds

(* The debits of a mandate are as many and as much as its row says, one    *)
(* for an occurrence, and never more than the customer consented to:       *)
(* neither in number nor in sum, whichever schedulers overlap or crash.    *)
THEOREM ConsentHolds == Spec => []WithinConsent
<1>1. ConsentInv => WithinConsent
  BY DEF ConsentInv
<1> QED BY <1>1, InitConsent, ConsentStep, MandateInvariant, PTL DEF Spec

(* Scheduled debits and direct payments together never exceed what a       *)
(* customer may spend on a day.                                            *)
THEOREM DailyLimit == Spec => []DailyLimitHolds
<1>1. ConsentInv => DailyLimitHolds
  BY DEF ConsentInv
<1> QED BY <1>1, InitConsent, ConsentStep, MandateInvariant, PTL DEF Spec
=============================================================================
