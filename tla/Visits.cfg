SPECIFICATION FairSpec
CONSTANTS
  t = t
  u = u
  NoToken = NoToken
  Tokens = {t, u}
  MaxCalls = 3
  MayRestart = TRUE
  UserAttached = TRUE
  Impatient = TRUE
PROPERTIES
  VisitEnds
