SPECIFICATION FairSpec
CONSTANTS
  Followers = {uhf, sg}
  QAs = {uhf}
  Counted = {}
  Wrapping = {uhf}
  NoReadyWait = {sg}
  SelfTriggering = {uhf, sg}
  Leader = FALSE
  NumSteps = 1
  MaxTries = 3
  Shots = 2
  None = None
  sg = sg
  uhf = uhf
CHECK_DEADLOCK FALSE
INVARIANTS
  NoSilentLoss
  OneAttempt
PROPERTIES
  Ends
