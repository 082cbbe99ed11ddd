SPECIFICATION Spec
CONSTANTS
  Signals = {"drive", "flux", "readout"}
  SampleGrid <- MCSampleGrid
  SequencerGrid <- MCSequencerGrid
  Latency <- MCLatency
  Experiments <- MCExperiments
INVARIANTS
  TypeOK
  NoOverlap
  Contained
  OnHardwareGrid
  MatchWaitsForData
  PlayAfterKept
  AbsoluteIsActual
CHECK_DEADLOCK FALSE
