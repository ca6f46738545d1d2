------------------------------- MODULE MCSessions -------------------------------
(***************************************************************************)
(* Three small accounts: a customer who resets the password, a customer    *)
(* with passkeys and a second factor, and a member of staff whose second   *)
(* factor is replaced and recovered.                                       *)
(***************************************************************************)
EXTENDS Sessions, TLC

MCAccounts == {
  [role |-> "customer", passwords |-> 3, secrets |-> 0, instants |-> 1, challenges |-> 2, passkeys |-> FALSE],
  [role |-> "customer", passwords |-> 2, secrets |-> 1, instants |-> 2, challenges |-> 0, passkeys |-> TRUE],
  [role |-> "staff",    passwords |-> 2, secrets |-> 2, instants |-> 2, challenges |-> 0, passkeys |-> FALSE]}

Symmetry == Permutations(Sessions)
=============================================================================
