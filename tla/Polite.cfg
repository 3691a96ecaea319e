SPECIFICATION FairSpec
CONSTANTS
  c1 = c1
  c2 = c2
  w1 = w1
  Conns = {c1, c2}
  Workers = {w1}
  NoConn = NoConn
  NoWorker = NoWorker
  CommandLines = {"data", "quit"}
  BodyLines = {"body", "badBody"}
  HangUpPoints = {"data", "goodbye"}
  MaxLines = 2
  LocalCap = 2
  CloseCap = 1
  MailCap = 1
  Addrs = {c1, c2}
  RemoteAddr <- OwnAddress
  CanStop = FALSE
CHECK_DEADLOCK FALSE
PROPERTIES NoCloseInService EventuallyClosed WorkersReturn

INVARIANTS
  TypeOK
  ExclusiveWorkers
  OwnConnection
  RoomToSend
