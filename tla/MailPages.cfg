SPECIFICATION Spec
CONSTANTS
  MailIds = {1, 2, 3, 4, 5}
  PageLength = 3
  MaxPage = 3
  ReturnsItems = TRUE
INVARIANTS
  PagesFitRecords
