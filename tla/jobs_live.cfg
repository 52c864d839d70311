SPECIFICATION FairSpec
CONSTANTS
  j1 = j1
  j2 = j2
  k1 = k1
  k2 = k2
  Job = {j1, j2}
  Retry = {q1, q2}
  Cancel = {}
  Case = {k1, k2}
  CaseOf <- TwoCases
  Fingerprint = {p1}
  NoRow = NoRow
  NoResult = NoResult
  NoJob = NoJob
  Idle = Idle
  MaxWaits = 1
  MaxRestarts = 0
CHECK_DEADLOCK FALSE
PROPERTIES
  Settles
