SPECIFICATION Spec
CONSTANTS
  Signals = {"drive", "flux", "readout"}
  SampleGrid <- MCSampleGrid
  SequencerGrid <- MCSequencerGrid
  Latency <- MCLatency
  Experiments <- MCReused
INVARIANTS
  PlayAfterKept
CHECK_DEADLOCK FALSE
