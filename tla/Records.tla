------------------------------ MODULE Records -------------------------------
(***************************************************************************)
(* What the ledger shows of one wallet: statements and pages of entries    *)
(* for its owner, and the imports finance compares with it                 *)
(* (service/reports.go).  A journal bears the time at which its            *)
(* transaction began (schema.sql 31, DEFAULT now()), its posting is        *)
(* numbered under the lock of the wallet, and both are seen once it        *)
(* commits, possibly much later.                                           *)
(***************************************************************************)
EXTENDS Integers, FiniteSetsExt, Functions

CONSTANTS
  Postings,     \* transactions that post to the wallet, one entry each
  Worth,        \* posting -> amount of its entry, negative for a debit
  Payments,     \* the postings of payments, the others are credits
  Deferred,     \* payments accepted first and posted later by a worker
  Minutes,      \* bound: the clock ends there
  EntryIds,     \* bound: numbers the sequence of entries gives out
  PageSize,     \* entries asked for at a time
  EntryLimit,   \* 10,000 in the code: entries of a statement
  Files,        \* files finance may import, by digest
  Says,         \* file -> reference -> what it says of that payment
  Importers     \* calls of staff

Claims == [status : {"accepted", "succeeded"}, agrees : BOOLEAN]

ASSUME RecordsAssumption ==
  /\ Worth \in [Postings -> Int \ {0}]
  /\ Deferred \subseteq Payments /\ Payments \subseteq Postings
  /\ {Minutes, EntryIds, PageSize, EntryLimit} \subseteq Nat \ {0}
  /\ "none" \notin Files
  /\ \A f \in Files : DOMAIN Says[f] \subseteq Postings
                      /\ \A p \in DOMAIN Says[f] : Says[f][p] \in Claims

VARIABLES
  minute,      \* the time of the database and of the API
  posting,     \* per posting: its transaction
  lastEntry,   \* the sequence postings.id
  statement,   \* the last statement asked for
  walk,        \* the customer's walk through the pages of entries
  importing,   \* per importer: the file under way and what was compared
  imported,    \* reconciliation_runs with their items, per file
  told         \* history: what importers were answered

postingVars == <<minute, posting, lastEntry>>
importVars  == <<importing, imported, told>>
recordVars  == <<postingVars, statement, walk, importVars>>

Reasons == {"matched", "unknown_reference", "amount_or_currency_mismatch", "state_mismatch",
            "not_final_success"}
NoResults == <<>>
Results(f) == [DOMAIN Says[f] -> Reasons]

Idle == [state |-> "idle", began |-> 0, entry |-> 0]
NoStatement == [stage |-> "none", from |-> 0, to |-> 0, seen |-> {},
                opening |-> 0, closing |-> 0, settled |-> FALSE]
NoWalk   == [stage |-> "none", before |-> 0, shown |-> {}, atFirst |-> {}]
NoImport == [file |-> "none", compared |-> NoResults]

RecordTypeOK ==
  /\ minute \in 0..Minutes
  /\ posting \in [Postings -> [state : {"idle", "accepted", "running", "posted", "committed"},
                               began : 0..Minutes, entry : 0..EntryIds]]
  /\ lastEntry \in 0..EntryIds
  /\ statement \in [stage : {"none", "reading", "issued"}, from : 0..Minutes + 1, to : 0..Minutes + 1,
                    seen : SUBSET Postings, opening : Int, closing : Int, settled : BOOLEAN]
  /\ walk \in [stage : {"none", "paging", "done"}, before : 0..EntryIds,
               shown : SUBSET Postings, atFirst : SUBSET Postings]
  /\ \A i \in Importers : importing[i] = NoImport \/ importing[i].file \in Files
  /\ \A f \in Files : imported[f] = NoResults \/ imported[f] \in Results(f)
  /\ \A t \in told : t.results \in Results(t.file)

RecordInit ==
  /\ minute = 0
  /\ posting = [p \in Postings |-> Idle]
  /\ lastEntry = 0
  /\ statement = NoStatement /\ walk = NoWalk
  /\ importing = [i \in Importers |-> NoImport]
  /\ imported = [f \in Files |-> NoResults]
  /\ told = {}

Sum(P)    == MapThenSumSet(LAMBDA p : Worth[p], P)
In(states) == {p \in Postings : posting[p].state \in states}
Committed == In({"committed"})
Running   == In({"running", "posted"})
Unsettled == Deferred \cap In({"accepted", "running", "posted"})   \* their amounts are held

-----------------------------------------------------------------------------
(* The transactions that post.  postJournal locks the wallet before its    *)
(* entry is numbered and holds it until the end.                           *)
MinutePasses ==
  /\ minute < Minutes
  /\ minute' = minute + 1
  /\ UNCHANGED <<posting, lastEntry, statement, walk, importVars>>

WalletFree == In({"posted"}) = {}

Covered(p) == Sum(Committed \cup Unsettled) + Worth[p] >= 0

Accepts(p) ==
  /\ p \in Deferred /\ posting[p].state = "idle"
  /\ WalletFree /\ Covered(p)
  /\ posting' = [posting EXCEPT ![p].state = "accepted"]
  /\ UNCHANGED <<minute, lastEntry, statement, walk, importVars>>

Waits(p) == [Idle EXCEPT !.state = IF p \in Deferred THEN "accepted" ELSE "idle"]

Begins(p) ==
  /\ posting[p] = Waits(p)
  /\ posting' = [posting EXCEPT ![p].state = "running", ![p].began = minute]
  /\ UNCHANGED <<minute, lastEntry, statement, walk, importVars>>

Posts(p) ==
  /\ posting[p].state = "running"
  /\ WalletFree /\ (p \in Deferred \/ Covered(p))
  /\ lastEntry < EntryIds
  /\ lastEntry' = lastEntry + 1
  /\ posting' = [posting EXCEPT ![p].state = "posted", ![p].entry = lastEntry']
  /\ UNCHANGED <<minute, statement, walk, importVars>>

Commits(p) ==
  /\ posting[p].state = "posted"
  /\ posting' = [posting EXCEPT ![p].state = "committed"]
  /\ UNCHANGED <<minute, lastEntry, statement, walk, importVars>>

(* The number is lost, the transaction may be tried again.                 *)
RollsBack(p) ==
  /\ p \in Running
  /\ posting' = [posting EXCEPT ![p] = Waits(p)]
  /\ UNCHANGED <<minute, lastEntry, statement, walk, importVars>>

-----------------------------------------------------------------------------
(* Statement: a snapshot is taken by the first query, which sums what came *)
(* before; the second lists the range.                                     *)
Before(P, time) == {p \in P : posting[p].began < time}

StatementOpens(from, to) ==
  /\ from < to /\ to <= minute + 1
  /\ statement' = [stage |-> "reading", from |-> from, to |-> to, seen |-> Committed,
                   opening |-> Sum(Before(Committed, from)), closing |-> 0,
                   settled |-> to <= minute /\ Before(Running, to) = {}]
  /\ UNCHANGED <<postingVars, walk, importVars>>

(* Mutant: READ COMMITTED, the second query sees what was committed since. *)
Snapshot_Fresh == Committed

Snapshot == statement.seen

Listed == {p \in Before(Snapshot, statement.to) : posting[p].began >= statement.from}

StatementEnds ==
  /\ statement.stage = "reading"
  /\ statement' = IF Cardinality(Listed) > EntryLimit THEN NoStatement
                  ELSE [statement EXCEPT !.stage = "issued", !.closing = statement.opening + Sum(Listed),
                                         !.from = 0, !.opening = 0]   \* not asked for again
  /\ UNCHANGED <<postingVars, walk, importVars>>

-----------------------------------------------------------------------------
(* Entries: the newest first, each page a query of its own.                *)
Older(before) == {p \in Committed : before = 0 \/ posting[p].entry < before}

Page(before) ==
  {p \in Older(before) : Cardinality({q \in Older(before) : posting[q].entry > posting[p].entry}) < PageSize}

Turned(before, shown, atFirst) ==
  LET page == Page(before)
  IN [stage   |-> IF Cardinality(page) < PageSize THEN "done" ELSE "paging",
      before  |-> IF page = {} THEN before ELSE Min({posting[p].entry : p \in page}),
      shown   |-> shown \cup page,
      atFirst |-> atFirst]

FirstPage ==
  /\ walk' = Turned(0, {}, Committed)
  /\ UNCHANGED <<postingVars, statement, importVars>>

NextPage ==
  /\ walk.stage = "paging"
  /\ walk' = Turned(walk.before, walk.shown, walk.atFirst)
  /\ UNCHANGED <<postingVars, statement, importVars>>

-----------------------------------------------------------------------------
(* Reconcile: one transaction, row by row, under a lock on the file's      *)
(* digest; a file that was imported before is answered from its items.  A  *)
(* payment becomes "succeeded" with its entry, so "ledger_posting_missing" *)
(* is not met.                                                             *)
RowExists(p) == p \in Payments /\ (p \in Committed \/ p \in Unsettled)
Status(p)    == IF p \in Committed THEN "succeeded" ELSE "accepted"

Reason(p, claim) ==
  IF ~RowExists(p) THEN "unknown_reference"
  ELSE IF ~claim.agrees THEN "amount_or_currency_mismatch"
  ELSE IF claim.status # Status(p) THEN "state_mismatch"
  ELSE IF Status(p) # "succeeded" THEN "not_final_success" ELSE "matched"

ImportBegins(i, f) ==
  /\ importing[i] = NoImport
  /\ \A j \in Importers : importing[j].file # f
  /\ \/ /\ imported[f] = NoResults
        /\ importing' = [importing EXCEPT ![i].file = f]
        /\ told' = told
     \/ /\ imported[f] # NoResults
        /\ told' = told \cup {[file |-> f, results |-> imported[f]]}
        /\ importing' = importing
  /\ UNCHANGED <<postingVars, statement, walk, imported>>

Compares(i, p) ==
  LET f == importing[i].file
      done == importing[i].compared
  IN /\ f \in Files /\ p \in DOMAIN Says[f] \ DOMAIN done
     /\ importing' = [importing EXCEPT ![i].compared =
                        [q \in DOMAIN done \cup {p} |-> IF q = p THEN Reason(p, Says[f][p]) ELSE done[q]]]
     /\ UNCHANGED <<postingVars, statement, walk, imported, told>>

ImportCommits(i) ==
  LET f == importing[i].file
      results == importing[i].compared
  IN /\ f \in Files /\ DOMAIN results = DOMAIN Says[f]
     /\ imported' = [imported EXCEPT ![f] = results]
     /\ told' = told \cup {[file |-> f, results |-> results]}
     /\ importing' = [importing EXCEPT ![i] = NoImport]
     /\ UNCHANGED <<postingVars, statement, walk>>

ImportFails(i) ==
  /\ importing[i] # NoImport
  /\ importing' = [importing EXCEPT ![i] = NoImport]
  /\ UNCHANGED <<postingVars, statement, walk, imported, told>>

-----------------------------------------------------------------------------
(* Parts of RecordsHold in module AccountLife.                             *)

(* A statement up to the present closes at the balance the wallet had when *)
(* it was opened; one that was settled, no transaction of its range still  *)
(* being under way, stays right for ever, so the next one opens with its   *)
(* closing balance.                                                        *)
StatementsHold ==
  statement.stage = "issued" =>
    /\ Before(statement.seen, statement.to) = statement.seen => statement.closing = Sum(statement.seen)
    /\ statement.settled => statement.closing = Sum(Before(Committed, statement.to))

(* The pages of a walk show, together, the entries of one moment.          *)
PagesShowOneMoment == walk.stage = "done" => walk.shown = walk.atFirst

(* Whoever imports a file is told the same, and what matched is posted.    *)
ImportsAgree ==
  \A t \in told : /\ imported[t.file] = t.results
                  /\ \A p \in DOMAIN t.results : t.results[p] = "matched" => p \in Committed

RecordsAgree == StatementsHold /\ PagesShowOneMoment /\ ImportsAgree
=============================================================================
