SPECIFICATION Spec
CONSTANTS
  w0 = w0
  w1 = w1
  w2 = w2
  w3 = w3
  Address = {w0, w1, w2}
  Transfer = {1, 2, 3}
  Ledgers <- SmallLedgers
  Policies <- TightEdges
  Modes = {"RECORDED"}
  Endpoint <- NoEndpoints
  SeedAddress = w0
  SeedAmount = 3
  SeedTime = 1
CHECK_DEADLOCK FALSE
INVARIANT NeverOverspends
