SPECIFICATION FairSpec
CONSTANTS
  ada = ada
  ben = ben
  transfer = transfer
  rent = rent
  airtime = airtime
  gift = gift
  salary = salary
  w1 = w1
  w2 = w2
  None = None
  Customers = {ada}
  Payments = {airtime}
  Workers = {w1, w2}
  Fundings = {salary}
  MaxBalance = 6
  MaxAttempts = 2
  Kind <- KindOfRun
  Payer <- PayerOfRun
  Payee <- PayeeOfRun
  Amount <- AmountOfRun
  Fee <- FeeOfRun
  FundedTo <- FundedToOfRun
  FundedAmount <- FundedAmountOfRun
INVARIANTS SubmittedAtMostOnce HoldFollowsStatus OutcomeHasEvidence
PROPERTIES JobsResolve
