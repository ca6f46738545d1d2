SPECIFICATION Spec
CONSTANTS
  r1 = r1
  w1 = w1
  w2 = w2
  u1 = u1
  u2 = u2
  t1 = t1
  t2 = t2
  k1 = k1
  k2 = k2
  s1 = s1
  credit = credit
  bill = bill
  gift = gift
  FirstYear = 2027
  Months = 24
  Reminders = {r1}
  Offered <- OfferedInRun
  Clock <- ClockOfRun
  Workers = {w1, w2}
  Uploads = {u1, u2}
  SupportUploads = {u2}
  Tabs = {t1, t2}
  KYCCases = {k1, k2}
  Names = {"legal", "other"}
  Drafts <- DraftsOfRun
  MaxVersion = 3
  Cases = {s1}
  Postings = {credit, bill, gift}
  Worth <- WorthOfRun
  Payments = {bill, gift}
  Deferred = {bill}
  Minutes = 2
  EntryIds = 3
  PageSize = 1
  EntryLimit = 2
  Files = {"day", "early"}
  Says <- SaysOfRun
  Importers = {"i1", "i2"}
  Agendas <- AgendasOfRun
INVARIANTS OnSchedule ClosedLeavesNothing EvidenceKept ReviewedAsSubmitted OneFundingAccount RecordsHold
PROPERTIES DueWorkIsDone
CHECK_DEADLOCK FALSE
