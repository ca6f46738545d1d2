--------------------------- MODULE MCPaymentWorker ---------------------------
(* Instances of PaymentWorker for TLC.                                     *)
EXTENDS PaymentWorker, TLC

CONSTANTS ada, ben, transfer, airtime, rent, gift, salary, w1, w2

MCKind   == (transfer :> "bank") @@ (airtime :> "bill") @@ (rent :> "bank") @@ (gift :> "internal")
MCPayer  == (transfer :> ada) @@ (rent :> ada) @@ (airtime :> ada) @@ (gift :> ada)
MCPayee  == (transfer :> ada) @@ (rent :> ada) @@ (airtime :> ada) @@ (gift :> ben)
MCAmount == (transfer :> 2) @@ (rent :> 2) @@ (airtime :> 1) @@ (gift :> 2)
MCFee    == (transfer :> 1) @@ (rent :> 1) @@ (airtime :> 1) @@ (gift :> 1)
MCFundedTo     == (salary :> ada)
MCFundedAmount == (salary :> 6)

(* The same functions on the payments a run uses.                          *)
Only(f) == [p \in Payments |-> f[p]]
KindOfRun   == Only(MCKind)
PayerOfRun  == Only(MCPayer)
PayeeOfRun  == Only(MCPayee)
AmountOfRun == Only(MCAmount)
FeeOfRun    == Only(MCFee)
FundedToOfRun     == [f \in Fundings |-> MCFundedTo[f]]
FundedAmountOfRun == [f \in Fundings |-> MCFundedAmount[f]]

(* The bank transfers agree in every attribute.                            *)
TwinTransfers == Permutations({transfer, rent})
=============================================================================
