SPECIFICATION Spec
CONSTANTS
  None = None
  Programs <- MCPrograms
  AwgOrder <- MCAwgOrder
  SignalsOf <- MCSignalsOf
  Attributes <- MCAttributes
  Keys <- MCKeys
  PulsesIn <- MCPulsesIn
  MaxTries = 2
INVARIANTS
  TypeOK
  SweptNodesAreCurrent
  UserSetsAreInForce
  ResultsArePlaced
  LastStepIsFilled
  EveryStepIsExecuted
  PulsesAreReplaced
\* The experiment ends, is aborted or given up.
CHECK_DEADLOCK FALSE
