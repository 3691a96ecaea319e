SPECIFICATION Spec
CONSTANTS
  s1 = s1
  a = a
  c = c
  Close = Close
  Sessions = {s1}
  Senders = {a}
  Rcpts = {c}
  NoSender = NoSender
  MaxMails = 1
  MaxRcpts = 1
  Orderly = TRUE
  Closers = {Close}
  AcceptErrors = TRUE
  EarlyClose = FALSE
  StoreFails = FALSE
  MailCap = 1
CHECK_DEADLOCK FALSE
INVARIANT
  NeverPanics
