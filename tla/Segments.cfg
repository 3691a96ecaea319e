SPECIFICATION FairSpec
CONSTANTS
  MaxBody = 4
  MaxPieces = 3
  MaxRead = 4
  Waits = TRUE
CHECK_DEADLOCK FALSE
INVARIANTS
  TakenAsSent
PROPERTIES
  SentIsTaken
