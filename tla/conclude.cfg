SPECIFICATION Spec
CONSTANTS
  r1 = r1
  r2 = r2
  r3 = r3
  k1 = k1
  k2 = k2
  acme = acme
  zeta = zeta
  pool = pool
  wallet = wallet
  deposit = deposit
  collector = collector
  other = other
  Run = {r1, r2, r3}
  Case = {k1, k2}
  Request = {q1}
  Address = {wallet, deposit, collector, other}
  Entity = {acme, zeta, pool}
  EntityType <- MCEntityType
  Scenes <- MCScenes
  Today = 9
  Never = 99
  ShortDelay = 1
INVARIANTS EndpointsAttributed RequestsReviewed InferenceGrounded ConnectionsComplete 
CHECK_DEADLOCK FALSE
