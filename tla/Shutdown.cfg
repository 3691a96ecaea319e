SPECIFICATION FairSpec
CONSTANTS
  c1 = c1
  w1 = w1
  Conns = {c1}
  Workers = {w1}
  NoConn = NoConn
  NoWorker = NoWorker
  CommandLines = {"ok", "bad", "data", "quit", "unknown"}
  BodyLines = {"body", "badBody"}
  HangUpPoints = {"command", "data", "goodbye"}
  MaxLines = 2
  LocalCap = 2
  CloseCap = 1
  MailCap = 1
  Addrs = {c1}
  RemoteAddr <- OwnAddress
  CanStop = TRUE
CHECK_DEADLOCK FALSE
PROPERTIES StopReachesSessions

INVARIANTS
  Handshake
