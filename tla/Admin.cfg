SPECIFICATION FairSpec
CONSTANTS
  t1 = t1
  t2 = t2
  Codes = {"c60plus"}
  Themes = {t1, t2}
  FirstTheme = t1
  MailIds = {1, 2}
  Old = {1}
  Days = {1, 2}
  MaxDeleting = 2
  MaxInFlight = 2
  MaxHandlers = 2
  StoreBreaks = TRUE
  MayRestart = TRUE
  Saves = TRUE
  Failures = {"Forbidden", "other"}
CHECK_DEADLOCK FALSE
INVARIANTS
  NoOrphans
PROPERTIES
  OthersKept
  PageComesBack
