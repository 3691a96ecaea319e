SPECIFICATION FairSpec
CONSTANTS
  s1 = s1
  s2 = s2
  a = a
  c = c
  Shutdown = Shutdown
  Sessions = {s1, s2}
  Senders = {a}
  Rcpts = {c}
  NoSender = NoSender
  MaxMails = 2
  MaxRcpts = 1
  Orderly = TRUE
  Closers = {Shutdown}
  AcceptErrors = TRUE
  EarlyClose = FALSE
  StoreFails = TRUE
  MailCap = 1
CHECK_DEADLOCK FALSE
INVARIANTS
  TypeOK
  MailsAreOwn
  InOnePlace
PROPERTIES
  StopIsNoFailure
  FailureEndsAll
  StartReturns
  DeliversUnlessStopped
  ImplementsSafeDelivery
