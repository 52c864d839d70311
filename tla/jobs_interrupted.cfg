SPECIFICATION Spec
CONSTANTS
  j1 = j1
  j2 = j2
  k1 = k1
  k2 = k2
  Job = {j1}
  Retry = {q1}
  Cancel = {c1}
  Case = {k1}
  CaseOf <- OneJob
  Fingerprint = {p1, p2}
  NoRow = NoRow
  NoResult = NoResult
  NoJob = NoJob
  Idle = Idle
  MaxWaits = 1
  MaxRestarts = 1
CHECK_DEADLOCK FALSE
PROPERTIES
  StartupMarksUnfinished
