SPECIFICATION FairSpec
CONSTANTS
  t0 = t0
  t1 = t1
  month = month
  week = week
  date = date
  m1 = m1
  m2 = m2
  NoMail = NoMail
  NoList = NoList
  NoText = t0
  ThisMonth = month
  DateField = date
  Texts = {t0, t1}
  Ranges = {month, week}
  Fields = {date}
  Mails = {m1, m2}
  Impatient = FALSE
  DetailsFail = TRUE
  Failures = {"Forbidden", "other"}
  MaxPages = 2
  MaxInFlight = 2
CHECK_DEADLOCK FALSE
INVARIANTS
  TypeOK
  OverlayAgrees
  ListAgrees
  BlockedWhileBusy
  DetailsAgree
PROPERTIES
  RefreshRepeats
  ImplementsView
  PageComesBack
  OverlayGoes
