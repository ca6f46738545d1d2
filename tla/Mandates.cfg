SPECIFICATION FairSpec
CONSTANTS
  a = a
  b = b
  m1 = m1
  m2 = m2
  s1 = s1
  s2 = s2
  d1 = d1
  None = None
  Customers = {a, b}
  MaxBalance = 9
  MandateIds = {m1, m2}
  DirectIds = {d1}
  Schedulers = {s1, s2}
  Offers <- MCOffers
  Offered <- MCOffered
  DirectPayers = {a}
  Policy0 <- MCPolicy0
  PolicyChoices <- MCPolicyChoices
  Daily = 2
  Opening <- MCOpening
  Disturbed = {a}
  DirectAmount = 1
  Day = 1
  Period = 2
  Horizon = 3
INVARIANTS WithinConsent DailyLimitHolds ClosedStaysEmpty
PROPERTIES StoppedForGood DueIsHandled
