SPECIFICATION FairSpec
CONSTANTS
  c1 = c1
  c2 = c2
  c3 = c3
  w1 = w1
  w2 = w2
  Conns = {c1, c2, c3}
  Workers = {w1, w2}
  NoConn = NoConn
  NoWorker = NoWorker
  CommandLines = {"quit"}
  BodyLines = {"body"}
  HangUpPoints = {}
  MaxLines = 0
  LocalCap = 2
  CloseCap = 1
  MailCap = 1
  Addrs = {c1, c2, c3}
  RemoteAddr <- OwnAddress
  CanStop = FALSE
CHECK_DEADLOCK FALSE
PROPERTIES ImplementsAllocation
