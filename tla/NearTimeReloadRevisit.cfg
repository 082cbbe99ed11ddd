SPECIFICATION Spec
CONSTANTS
  a = a
  u = u
  v = v
  p = p
  q = q
  Awgs = {a}
  Changing = {a}
  WithCommandTable = {a}
  Values = {u, v}
  Programs = {p, q}
  Experiments <- MCExperiments
  Steps = {3}
  ChunkCounts = {0}
  MaxSlots = 4
  MaxRuns = 1
  None = None
INVARIANTS
  RunsWhatWasCompiled
CHECK_DEADLOCK FALSE
