SPECIFICATION Spec
CONSTANTS
  d1 = d1
  d2 = d2
  s1 = s1
  s2 = s2
  Devices = {d1, d2}
  Servers = {s1, s2}
  ServerOf <- MCServerOf
  ResetDevices = TRUE
  DisconnectAfterRun = FALSE
  Holdoff = 1
  MaxTime = 5
  MaxRuns = 3
  None = None
INVARIANTS
  TypeOK
  UsableWhenExecuting
  ConnectedIsUsable
  ResultsOfLastRun
