SPECIFICATION Spec
CONSTANTS
  ada = ada
  ben = ben
  transfer = transfer
  rent = rent
  airtime = airtime
  gift = gift
  salary = salary
  w1 = w1
  w2 = w2
  None = None
  Customers = {ada, ben}
  Payments = {transfer, rent, gift}
  Workers = {w1}
  Fundings = {salary}
  MaxBalance = 6
  MaxAttempts = 2
  Kind <- KindOfRun
  Payer <- PayerOfRun
  Payee <- PayeeOfRun
  Amount <- AmountOfRun
  Fee <- FeeOfRun
  FundedTo <- FundedToOfRun
  FundedAmount <- FundedAmountOfRun
INVARIANT BalancesFollowOutcomes
PROPERTIES KeepsPromise
SYMMETRY TwinTransfers
