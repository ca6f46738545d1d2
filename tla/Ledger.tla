------------------------------- MODULE Ledger -------------------------------
(***************************************************************************)
(* The accounts, journals and holds that every money movement of the API   *)
(* backend goes through: the accounts table with its CHECK constraints and *)
(* the triggers that project postings and holds onto it (schema.sql), and  *)
(* the helper postJournal (payments.go).  The modules that move money      *)
(* extend this one and use its operators in their actions.                 *)
(*                                                                         *)
(* A statement that breaks a CHECK, or reuses a journal reference, rolls   *)
(* its whole transaction back.  The operators therefore state these checks *)
(* as conjuncts: the action that uses them is not enabled.                 *)
(***************************************************************************)
EXTENDS Integers

CONSTANTS Customers,   \* owners of a wallet account
          MaxBalance   \* the largest book balance a wallet may hold

VARIABLES balance,     \* accounts.balance, the projection of the postings
          reserved,    \* accounts.reserved, the projection of active holds
          journals     \* references of the posted journals (journals.reference)

ledgerVars == <<balance, reserved, journals>>

ASSUME MaxBalanceAssumption == MaxBalance \in Nat

Clearing == "house:clearing"
Fees     == "house:fees"
Account  == Customers \cup {Clearing, Fees}

ASSUME HouseAssumption == Customers \cap {Clearing, Fees} = {}

(* balance - reserved: what the owner may still spend.                     *)
Available(c) == balance[c] - reserved[c]

(* The CHECK constraints of the wallet rows, on new values of both columns. *)
WalletsSound(bal, res) ==
  \A c \in Customers : res[c] >= 0 /\ bal[c] >= res[c] /\ bal[c] <= MaxBalance

(* apply_posting, once per entry of a journal.                             *)
Posted(entries) ==
  [a \in Account |-> IF a \in DOMAIN entries THEN balance[a] + entries[a] ELSE balance[a]]

(* Mutant: a reference is posted as often as it arrives.                   *)
PostJournal_Again(reference, entries) ==
  /\ journals' = journals \cup {reference}
  /\ balance' = Posted(entries)
  /\ WalletsSound(balance', reserved')

(* postJournal: one journal per reference, projected onto the balances.    *)
PostJournal(reference, entries) ==
  /\ reference \notin journals
  /\ journals' = journals \cup {reference}
  /\ balance' = Posted(entries)
  /\ WalletsSound(balance', reserved')

(* apply_hold on INSERT (an active hold) and on UPDATE (captured, released). *)
PlaceHold(c, amount) ==
  /\ reserved' = [reserved EXCEPT ![c] = @ + amount]
  /\ WalletsSound(balance, reserved')

EndHold(c, amount) ==
  /\ reserved' = [reserved EXCEPT ![c] = @ - amount]
  /\ WalletsSound(balance, reserved')

LedgerTypeOK ==
  /\ balance \in [Account -> Int]
  /\ reserved \in [Customers -> Int]

LedgerInit ==
  /\ balance = [a \in Account |-> 0]
  /\ reserved = [c \in Customers |-> 0]
  /\ journals = {}
=============================================================================
