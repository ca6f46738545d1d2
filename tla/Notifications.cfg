SPECIFICATION NoticeFairSpec
CONSTANTS
  code = code
  receipt = receipt
  w1 = w1
  w2 = w2
  None = None
  Notices = {code, receipt}
  Codes = {code}
  Released = {code, receipt}
  Workers = {w1, w2}
INVARIANTS SubmittedAtMostOnce
PROPERTIES SuppressionIsFinal NoticesSettle
