SPECIFICATION Spec
CONSTANTS
  eth = eth
  bsc = bsc
  vault = vault
  mint = mint
  hub = hub
  dex = dex
  w = w
  x = x
  y = y
  usdt = usdt
  usdc = usdc
  s1 = s1
  s2 = s2
  e1 = e1
  e2 = e2
  e3 = e3
  Transfer <- MCTransfer
  Artifact <- MCArtifact
  Route <- MCRoute
  BridgeEntity = {"bridge"}
  Protocol = {"WORMHOLE"}
  WormholeChain = {2, 4}
  Absent = Absent
  Supplied <- MCSupplied
  Requested = {5}
  MaxEvents = 4
  MaxLinks = 2
INVARIANTS MessagesRetained MoneyCrossesOnce
CHECK_DEADLOCK FALSE
