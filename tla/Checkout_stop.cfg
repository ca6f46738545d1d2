SPECIFICATION Spec
CONSTANTS
  ada = ada
  ben = ben
  cem = cem
  a1 = a1
  a2 = a2
  b1 = b1
  c1 = c1
  dinner = dinner
  benPart = benPart
  cemPart = cemPart
  None = None
  q1 = q1
  q2 = q2
  t1 = t1
  t2 = t2
  k1 = k1
  k2 = k2
  Customers = {ada, ben, cem}
  Sessions = {a1, a2, b1, c1}
  Quotes = {q1, q2}
  Tokens = {t1, t2}
  Keys = {k1, k2}
  Requests = {dinner}
  Shares = {benPart, cemPart}
  ProviderFee = 1
  MaxBalance = 8
  Situations <- StopOnly
  SessionOwner <- OwnerOfRun
  Opening <- OpeningOfRun
  Requester <- RequesterOfRun
  ShareRequest <- RequestOfRun
  SharePayer <- PayerOfRun
  ShareAmount <- AmountOfRun
PROPERTIES StopEndsAuthorisation
