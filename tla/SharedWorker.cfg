SPECIFICATION Spec
CONSTANTS
  c1 = c1
  c2 = c2
  w1 = w1
  Conns = {c1, c2}
  Workers = {w1}
  NoConn = NoConn
  NoWorker = NoWorker
  CommandLines = {"ok", "unknown"}
  BodyLines = {"body"}
  HangUpPoints = {"command"}
  MaxLines = 1
  LocalCap = 2
  CloseCap = 1
  MailCap = 1
  Addrs = {c1, c2}
  RemoteAddr <- OwnAddress
  CanStop = FALSE
CHECK_DEADLOCK FALSE
INVARIANTS OwnConnection
