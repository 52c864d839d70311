SPECIFICATION Spec
CONSTANTS
  c1 = c1
  c2 = c2
  suspect = suspect
  mule = mule
  blender = blender
  exchange = exchange
  Caller = {c1, c2}
  NoCaller = NoCaller
  Address = {suspect, mule, blender, exchange}
  Scenes <- MCScenes
  SeedLabels <- MCSeedLabels
  PostedLabels <- MCPostedLabels
  PageCap = 2
  MaxAttempts = 2
  MinInterval = 1
  CacheLife = 1
INVARIANTS CompleteMeansAll Paced FifoConserves EndpointAmounts AttributedOnce PathsLead WalletsAccountedFor RunsLinked
PROPERTY TraceEnds
CHECK_DEADLOCK FALSE
