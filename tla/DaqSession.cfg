SPECIFICATION FairSpec
CONSTANTS
  Daqs <- MCDaqs
  Nodes <- MCNodes
  Patterns <- MCPatterns
  Covers <- MCCovers
  Values <- MCValues
  NoEntry = NoEntry
  SelfClearing <- MCSelfClearing
  MaxAttempts = 3
  Batches <- MCBatches
INVARIANTS
  TypeOK
  Coherent
  RearmDelivered
PROPERTY
  CallEnds
