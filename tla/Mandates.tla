------------------------------ MODULE Mandates ------------------------------
(***************************************************************************)
(* Scheduled transfers between customers (service/mandates.go): an owner   *)
(* consents once to a bounded series of debits, and scheduler processes    *)
(* make them when they fall due.  A scheduler first looks a due mandate up *)
(* without a lock and only then opens the transaction that debits, so the  *)
(* owner, staff, another scheduler, a closure of either account and a      *)
(* change of policy come in between; every debit competes with the owner's *)
(* other payments for balance and daily limit.                             *)
(*                                                                         *)
(* Time is counted in ticks: Day of them are 24 hours and a calendar day,  *)
(* Period of them lie between two occurrences (NextDue; the clamping of a  *)
(* month's last days is calendar data).  Row versions only refuse requests *)
(* that were made looking at an older row; the same request made again     *)
(* goes through, so they are left out.  Quotes are consumed by creation:   *)
(* each mandate here is created from a quote of its own.                   *)
(***************************************************************************)
EXTENDS Ledger, FiniteSets, Functions

CONSTANTS MandateIds, DirectIds,    \* identities of mandates and of other payments
          Schedulers, None,
          Offers,                   \* terms owners consent to
          Policy0, PolicyChoices,   \* terms of the policy at first, and what is decided
          Daily,                    \* the daily limit in force
          Opening,                  \* customer -> balance funded beforehand
          Disturbed,                \* bound: who is restricted or frozen in the run
          Offered,                  \* bound: mandate -> the terms it may be created with
          DirectPayers,             \* bound: who pays beside mandates
          DirectAmount,             \* bound: what they pay
          Day, Period, Horizon      \* Horizon bounds the clock

OfferType == [owner : Customers, payee : Customers, amount : Nat \ {0}, once : BOOLEAN,
              first : Nat, ends : Nat, maxDebit : Nat, maxTotal : Nat, max : Nat \ {0}]

(* internal_fee, and the limit of one payment: the stricter of per_payment *)
(* and the owner's own.                                                    *)
PolicyTerms == [fee : Nat, perPayment : Nat]

Live     == {"active", "paused"}
Progress == [terms : Offers, status : Live \cup {"cancelled", "completed"},
             next : Nat, count : Nat, committed : Nat]

(* What CreateMandate demands of the terms whatever the moment.            *)
ASSUME MandateAssumption ==
  /\ Offers \subseteq OfferType
  /\ \A o \in Offers : /\ o.owner # o.payee
                       /\ o.first <= o.ends
                       /\ o.maxDebit <= o.maxTotal
                       /\ o.once => o.max = 1
  /\ Policy0 \in PolicyTerms /\ PolicyChoices \subseteq PolicyTerms
  /\ Daily \in Nat /\ DirectAmount \in Nat \ {0}
  /\ Opening \in [Customers -> 0..MaxBalance]
  /\ Day \in Nat \ {0} /\ Period \in Nat \ {0} /\ Horizon \in Nat
  /\ None \notin MandateIds \cup Progress
  /\ DirectIds \cap (MandateIds \X Nat) = {}

VARIABLES
  mandate,     \* payment_mandates rows: terms and progress, None before creation
  occurrence,  \* mandate_occurrences rows
  payment,     \* payments rows
  policy,      \* the policies row: enabled, fee, perPayment
  priced,      \* fees that quotes may have been priced with
  frozen,      \* customers with customer_controls.frozen
  standing,    \* users.status: "active", "restricted", "closed"
  now,
  scheduler    \* the mandate each scheduler's WorkMandate has looked up, or None

mandateVars == <<mandate, occurrence, payment>>
controlVars == <<policy, priced, frozen, standing>>
vars == <<ledgerVars, mandateVars, controlVars, now, scheduler>>

Exists(m) == mandate[m] # None
Is(m, statuses) == Exists(m) /\ mandate[m].status \in statuses

-----------------------------------------------------------------------------
(* Who may pay how much                                                    *)

Eligible(c) == standing[c] = "active"

DayOf(t) == t \div Day

Totalled(payments) == SumFunction([p \in payments |-> p.total])

(* No internal payment fails, so all of the day's count.                   *)
SpentOn(c, day) == Totalled({p \in payment : p.owner = c /\ DayOf(p.at) = day})

(* Mutant: the limit is checked without what this payment adds.            *)
MaySpend_Before(c, total) ==
  c \notin frozen /\ total <= policy.perPayment /\ SpentOn(c, DayOf(now)) < Daily

(* ensureSpendingControl: frozen by himself, or beyond the limit of one    *)
(* payment or of the day.                                                  *)
MaySpend(c, total) ==
  c \notin frozen /\ total <= policy.perPayment /\ SpentOn(c, DayOf(now)) + total <= Daily

Entries(from, to, amount) ==
  [x \in {from, to, Fees} |->
     IF x = from THEN -(amount + policy.fee) ELSE IF x = to THEN amount ELSE policy.fee]

Transfer(reference, from, to, amount) ==
  LET total == amount + policy.fee IN
  /\ UNCHANGED reserved
  /\ PostJournal(reference, Entries(from, to, amount))
  /\ payment' = payment \cup {[id |-> reference, owner |-> from, total |-> total, at |-> now]}

-----------------------------------------------------------------------------
(* The owner                                                               *)

(* CreateMandate: the quote it consumes may have been priced before the    *)
(* fee last changed.                                                       *)
CreateMandate(m, o) ==
  /\ ~Exists(m) /\ o \in Offered[m]
  /\ Eligible(o.owner)
  /\ o.first > now
  /\ \E fee \in priced : /\ o.amount + fee <= o.maxDebit
                         /\ MaySpend(o.owner, o.amount + fee)
  /\ mandate' = [mandate EXCEPT ![m] =
       [terms |-> o, status |-> "active", next |-> o.first, count |-> 0, committed |-> 0]]
  /\ UNCHANGED <<ledgerVars, occurrence, payment, controlVars, now, scheduler>>

SetStatus(m, status) == mandate' = [mandate EXCEPT ![m] = [@ EXCEPT !.status = status]]

(* MandateState: pause or cancel; nothing makes a mandate active again.    *)
MandateState(m, status) ==
  /\ status \in {"paused", "cancelled"}
  /\ Is(m, Live)
  /\ standing[mandate[m].terms.owner] # "closed"
  /\ SetStatus(m, status)
  /\ UNCHANGED <<ledgerVars, occurrence, payment, controlVars, now, scheduler>>

(* The staff command schedule_stop.                                        *)
ScheduleStop(m) ==
  /\ Is(m, {"active"})
  /\ SetStatus(m, "paused")
  /\ UNCHANGED <<ledgerVars, occurrence, payment, controlVars, now, scheduler>>

(* CreatePayment of an internal transfer: an authorised payment commits.   *)
DirectPayment(d, from, to) ==
  /\ \A p \in payment : p.id # d
  /\ from \in DirectPayers
  /\ from # to /\ Eligible(from) /\ Eligible(to) /\ policy.enabled
  /\ MaySpend(from, DirectAmount + policy.fee)
  /\ Available(from) >= DirectAmount + policy.fee
  /\ Transfer(d, from, to, DirectAmount)
  /\ UNCHANGED <<mandate, occurrence, controlVars, now, scheduler>>

(* CloseAccount.                                                           *)
CloseAccount(c) ==
  /\ Eligible(c)
  /\ balance[c] = 0 /\ reserved[c] = 0
  /\ standing' = [standing EXCEPT ![c] = "closed"]
  /\ frozen' = frozen \cup {c}
  /\ mandate' = [m \in MandateIds |->
       IF Is(m, Live) /\ mandate[m].terms.owner = c
       THEN [mandate[m] EXCEPT !.status = "cancelled"] ELSE mandate[m]]
  /\ UNCHANGED <<ledgerVars, occurrence, payment, policy, priced, now, scheduler>>

(* SecureAccount, also to thaw the account again.                          *)
SecureAccount(c) ==
  /\ c \in Disturbed /\ standing[c] # "closed"
  /\ frozen' = IF c \in frozen THEN frozen \ {c} ELSE frozen \cup {c}
  /\ UNCHANGED <<ledgerVars, mandateVars, policy, priced, standing, now, scheduler>>

(* Staff restrict and restore accounts, and replace or stop the policy.    *)
StandingChanges(c) ==
  /\ c \in Disturbed /\ standing[c] # "closed"
  /\ standing' = [standing EXCEPT ![c] = IF @ = "active" THEN "restricted" ELSE "active"]
  /\ UNCHANGED <<ledgerVars, mandateVars, policy, priced, frozen, now, scheduler>>

PolicyChanges ==
  /\ \/ policy' = [policy EXCEPT !.enabled = ~@]
     \/ \E terms \in PolicyChoices :
          policy' = [policy EXCEPT !.fee = terms.fee, !.perPayment = terms.perPayment]
  /\ priced' = priced \cup {policy'.fee}
  /\ UNCHANGED <<ledgerVars, mandateVars, frozen, standing, now, scheduler>>

Tick ==
  /\ now < Horizon
  /\ now' = now + 1
  /\ UNCHANGED <<ledgerVars, mandateVars, controlVars, scheduler>>

-----------------------------------------------------------------------------
(* WorkMandate                                                             *)

(* Mutant: the transaction trusts the look-up.                             *)
Due_Active(m) == Exists(m) /\ mandate[m].next <= now

Due(m) == Is(m, {"active"}) /\ mandate[m].next <= now

(* The look-up: the due mandate that has waited longest.                   *)
PickMandate(s, m) ==
  /\ scheduler[s] = None
  /\ Is(m, {"active"}) /\ mandate[m].next <= now
  /\ \A n \in MandateIds :
       Is(n, {"active"}) /\ mandate[n].next <= now => mandate[m].next <= mandate[n].next
  /\ scheduler' = [scheduler EXCEPT ![s] = m]
  /\ UNCHANGED <<ledgerVars, mandateVars, controlVars, now>>

RoundEnds(s) == scheduler' = [scheduler EXCEPT ![s] = None]

(* Mutant: a fee that rose since the quote does not count.                 *)
Beyond_Quoted(r, total) ==
  \/ now > r.terms.ends \/ r.count >= r.terms.max
  \/ r.terms.amount > r.terms.maxDebit \/ r.committed > r.terms.maxTotal - total

(* The debit would exceed what the owner authorised.                       *)
Beyond(r, total) ==
  \/ now > r.terms.ends \/ r.count >= r.terms.max
  \/ total > r.terms.maxDebit \/ r.committed > r.terms.maxTotal - total

(* What speaks against the owner's paying the occurrence now.              *)
Withheld(r, total) ==
  \/ ~Eligible(r.terms.owner)
  \/ ~policy.enabled
  \/ Beyond(r, total)
  \/ now - r.next > Day
  \/ ~MaySpend(r.terms.owner, total)
  \/ Available(r.terms.owner) < total

(* Mutant: the recipient is not looked at again.                           *)
Unsafe_Recipient(r, total) == Withheld(r, total)

(* The reasons for which an occurrence is not paid.                        *)
Unsafe(r, total) == Withheld(r, total) \/ ~Eligible(r.terms.payee)

Row(m, status) == [mandate |-> m, due |-> mandate[m].next, status |-> status]

(* UNIQUE(mandate_id, due_at)                                              *)
Recorded(m) == \E o \in occurrence : o.mandate = m /\ o.due = mandate[m].next

(* Mutant: an occurrence that was not paid is tried again.                 *)
PauseFor_Retry(m) ==
  /\ occurrence' = IF Recorded(m) THEN occurrence ELSE occurrence \cup {Row(m, "action_required")}
  /\ UNCHANGED mandate

PauseFor(m) ==
  /\ occurrence' = IF Recorded(m) THEN occurrence ELSE occurrence \cup {Row(m, "action_required")}
  /\ SetStatus(m, "paused")

(* The mandate after a debit.                                              *)
Advanced(r, total) ==
  LET next == r.next + Period
      ends == \/ r.terms.once \/ r.count + 1 >= r.terms.max
              \/ r.committed + total >= r.terms.maxTotal \/ next > r.terms.ends
  IN [r EXCEPT !.count = @ + 1, !.committed = @ + total,
               !.next = IF ends THEN @ ELSE next,
               !.status = IF ends THEN "completed" ELSE "active"]

(* The transaction: nothing to do any more, refused for good, or paid.     *)
Execute(s) ==
  LET m == scheduler[s]
      r == mandate[m]
      total == r.terms.amount + policy.fee
  IN
  /\ m # None
  /\ \/ /\ ~Due(m)
        /\ UNCHANGED <<ledgerVars, mandateVars>>
     \/ /\ Due(m) /\ Unsafe(r, total)
        /\ PauseFor(m)
        /\ UNCHANGED <<ledgerVars, payment>>
     \/ /\ Due(m) /\ ~Unsafe(r, total)
        /\ ~Recorded(m)
        /\ Transfer(<<m, r.next>>, r.terms.owner, r.terms.payee, r.terms.amount)
        /\ occurrence' = occurrence \cup {Row(m, "submitted")}
        /\ mandate' = [mandate EXCEPT ![m] = Advanced(r, total)]
  /\ RoundEnds(s)
  /\ UNCHANGED <<controlVars, now>>

(* The transaction fails, or the process restarts.                         *)
Abandon(s) ==
  /\ scheduler[s] # None
  /\ RoundEnds(s)
  /\ UNCHANGED <<ledgerVars, mandateVars, controlVars, now>>

-----------------------------------------------------------------------------
Init ==
  /\ balance = [a \in Account |-> IF a \in Customers THEN Opening[a] ELSE 0]
  /\ reserved = [c \in Customers |-> 0]
  /\ journals = {}
  /\ mandate = [m \in MandateIds |-> None]
  /\ occurrence = {} /\ payment = {}
  /\ policy = [enabled |-> TRUE, fee |-> Policy0.fee, perPayment |-> Policy0.perPayment]
  /\ priced = {Policy0.fee}
  /\ frozen = {}
  /\ standing = [c \in Customers |-> "active"]
  /\ now = 0
  /\ scheduler = [s \in Schedulers |-> None]

OwnerStep ==
  \/ \E m \in MandateIds, o \in Offers : CreateMandate(m, o)
  \/ \E m \in MandateIds, status \in {"paused", "cancelled"} : MandateState(m, status)
  \/ \E d \in DirectIds, from, to \in Customers : DirectPayment(d, from, to)
  \/ \E c \in Customers : CloseAccount(c) \/ SecureAccount(c)

StaffStep ==
  \/ \E m \in MandateIds : ScheduleStop(m)
  \/ \E c \in Customers : StandingChanges(c)
  \/ PolicyChanges

SchedulerStep(s) ==
  \/ \E m \in MandateIds : PickMandate(s, m)
  \/ Execute(s)
  \/ Abandon(s)

Next ==
  \/ OwnerStep \/ StaffStep \/ Tick
  \/ \E s \in Schedulers : SchedulerStep(s)

Spec == Init /\ [][Next]_vars

(* Schedulers look for work every minute, and a transaction that is tried  *)
(* again and again does not fail for ever.                                 *)
Fairness ==
  \A s \in Schedulers : /\ WF_vars(\E m \in MandateIds : PickMandate(s, m))
                        /\ SF_vars(Execute(s))

FairSpec == Spec /\ Fairness

-----------------------------------------------------------------------------
(* Properties                                                              *)

(* The variables hold values of their types.                               *)
TypeOK ==
  /\ LedgerTypeOK
  /\ mandate \in [MandateIds -> Progress \cup {None}]
  /\ occurrence \subseteq [mandate : MandateIds, due : Nat, status : {"submitted", "action_required"}]
  /\ policy \in [enabled : BOOLEAN, fee : Nat, perPayment : Nat] /\ priced \subseteq Nat
  /\ frozen \subseteq Customers
  /\ standing \in [Customers -> {"active", "restricted", "closed"}]
  /\ now \in Nat
  /\ scheduler \in [Schedulers -> MandateIds \cup {None}]

DebitsOf(m) == {p \in payment : p.id \in {<<m, o.due>> : o \in occurrence}}

(* The debits of a mandate are what its owner consented to: no more in     *)
(* number and in total, none above the cap, none twice, late or after the  *)
(* end; and the progress the row records is exactly what was paid.         *)
WithinConsent ==
  \A m \in MandateIds : Exists(m) =>
    LET r == mandate[m]  paid == DebitsOf(m) IN
    /\ r.count = Cardinality(paid) /\ r.count <= r.terms.max
    /\ r.committed = Totalled(paid) /\ r.committed <= r.terms.maxTotal
    /\ \A p \in paid : /\ p.total <= r.terms.maxDebit
                       /\ p.owner = r.terms.owner
                       /\ p.at <= r.terms.ends
                       /\ p.id[2] <= p.at /\ p.at - p.id[2] <= Day

(* An active mandate's next occurrence has no row yet.  If it had, its     *)
(* UNIQUE key would refuse the debit on every attempt, and as the longest  *)
(* waiting it would hold up every other mandate.                           *)
NextIsFresh == \A m \in MandateIds : Is(m, {"active"}) => ~Recorded(m)

(* What keeps it so: rows never have a later date than the next.           *)
RowsBehind == \A o \in occurrence : Exists(o.mandate) /\ o.due <= mandate[o.mandate].next

(* The CHECK constraints of the row, which therefore never refuse a debit. *)
CapsHold ==
  \A m \in MandateIds : Exists(m) =>
    mandate[m].count <= mandate[m].terms.max /\ mandate[m].committed <= mandate[m].terms.maxTotal

IInv == TypeOK /\ RowsBehind /\ NextIsFresh /\ CapsHold

(* A mandate that was stopped pays nothing more, and is not revived,       *)
(* whatever a scheduler had looked up before.                              *)
StoppedForGood ==
  [][\A m \in MandateIds : Exists(m) /\ mandate[m].status # "active" =>
       mandate'[m].status # "active" /\ mandate'[m].count = mandate[m].count]_vars

(* Whatever is paid by schedule or directly, no owner spends more than a   *)
(* day's limit in a day.                                                   *)
DailyLimitHolds ==
  \A c \in Customers : \A day \in 0..DayOf(Horizon) : SpentOn(c, day) <= Daily

(* A closed account stays empty, and leaves nothing that could still pay.  *)
ClosedStaysEmpty ==
  \A c \in Customers : standing[c] = "closed" =>
    /\ balance[c] = 0
    /\ \A m \in MandateIds : Is(m, Live) => mandate[m].terms.owner # c

(* Every due occurrence is paid or refused; none waits behind another for  *)
(* ever.                                                                   *)
DueIsHandled == \A m \in MandateIds : Due(m) ~> ~Due(m)
=============================================================================
