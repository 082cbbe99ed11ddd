SPECIFICATION Spec
CONSTANTS
  a = a
  b = b
  u = u
  v = v
  p = p
  q = q
  Awgs = {a, b}
  Changing = {a}
  WithCommandTable = {a}
  Values = {u, v}
  Programs = {p, q}
  Experiments <- MCExperiments
  Steps = {1, 3}
  ChunkCounts = {0, 2}
  MaxSlots = 1
  MaxRuns = 2
  None = None
INVARIANTS
  TypeOK
  AgreeingRunsWhatWasCompiled
  AlwaysDetermined
  UploadIsAcknowledged
CHECK_DEADLOCK FALSE
