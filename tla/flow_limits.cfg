SPECIFICATION FairSpec
CONSTANTS
  w0 = w0
  w1 = w1
  w2 = w2
  w3 = w3
  Address = {w0, w1, w2, w3}
  Transfer = {1, 2, 3, 4, 5}
  Ledgers <- ShapedLedgers
  Policies <- Limits
  Modes = {"RECORDED"}
  Endpoint <- OneVasp
  SeedAddress = w0
  SeedAmount = 3
  SeedTime = 1
CHECK_DEADLOCK FALSE
INVARIANTS
  TypeOK
  Conservation
  WalletLedger
  LineageCovers
  WithinPolicy
  OverspendsOnlyAtEdgeLimit
PROPERTIES
  Terminates
