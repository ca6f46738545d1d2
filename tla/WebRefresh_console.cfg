CONSTANTS
  t1 = t1
  t2 = t2
  t3 = t3
  Tabs = {t1, t2}
  Client = "console"
  WebLocks = TRUE
  MaxIssued = 3
SPECIFICATION RefreshSpec
INVARIANTS OwnTabsKeepSession
