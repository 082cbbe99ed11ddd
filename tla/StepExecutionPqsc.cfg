SPECIFICATION Spec
CONSTANTS
  Followers = {qa, sg}
  QAs = {qa}
  Counted = {qa}
  Wrapping = {}
  NoReadyWait = {}
  SelfTriggering = {}
  Leader = TRUE
  NumSteps = 2
  MaxTries = 2
  Shots = 2
  None = None
  qa = qa
  sg = sg
CHECK_DEADLOCK FALSE
INVARIANTS
  TypeOK
  NeverStale
  OfThisRun
  StoppedWhenRead
PROPERTIES
  NoTriggerLost
  KeepsContract
