CONSTANTS
  t1 = t1
  t2 = t2
  t3 = t3
  Tabs = {t1, t2, t3}
  Client = "app"
  WebLocks = TRUE
  MaxIssued = 3
SPECIFICATION RefreshFairSpec
INVARIANTS OwnTabsKeepSession
PROPERTIES RestoredTabsCanWrite RestorationEnds
