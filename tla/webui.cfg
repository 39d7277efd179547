SPECIFICATION LiveSpec
CONSTANTS
  Static = {1, 2}
  Spare = {3}
  Record <- JobRecords
  MaxRequests = 2
CHECK_DEADLOCK FALSE
INVARIANTS
  TypeOK
  PaidOnce
  StoppedIsListed
PROPERTIES
  CardsFollow
  CreditFollows
