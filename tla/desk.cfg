SPECIFICATION Spec
CONSTANTS
  q1 = q1
  q2 = q2
  q3 = q3
  seed = seed
  wallet = wallet
  acme = acme
  zeta = zeta
  Event = {q1, q2, q3}
  NoEvent = NoEvent
  NoLabel = NoLabel
  Startup = Startup
  Scenarios <- MCScenarios
  SeedLabels <- MCSeedLabels
  SeedAssertions <- MCSeedAssertions
  MaxRestarts = 1
INVARIANTS ChainIntact AuditedIsApplied LabelsAgree MigrationFaithful HistoryExplains UpdatesStand OneRowPerKey
PROPERTY AppendOnly
CHECK_DEADLOCK FALSE
