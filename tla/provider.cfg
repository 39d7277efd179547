SPECIFICATION LiveSpec
CONSTANTS
  e1 = e1
  e2 = e2
  NumPeers = 3
  KeysKnown = {{1}, {1, 2, 3}}
  Bidder = {1, 2}
  Thread = {e1, e2}
  Price <- LocalPrice
  HomeBonus = 5
  MaxAdopt = 1
  Plus <- GfPlus
  Times <- GfMul
  Inv <- GfInv
  KeyByte = {0, 83, 255}
  CoeffByte = {1, 202}
CHECK_DEADLOCK FALSE
INVARIANTS
  TypeOK
  OneRunner
  PushedOnce
  NothingLeftBehind
  SharesOpenPayload
  MajorityOpens
  OneShareTellsNothing
PROPERTIES
  ResultStands
  JobNotShelved
