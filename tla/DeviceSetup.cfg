SPECIFICATION Spec
CONSTANTS
  pq = pq
  hd = hd
  uh = uh
  sq = sq
  server = server
  other = other
  PQSCs = {pq}
  HDAWGs = {hd}
  SHFs = {sq}
  UHFQAs = {uh}
  Servers = {server, other}
  WithOffset = {hd}
  Children <- MCChildren
  ForceInternal <- MCForceInternal
  ServerOf <- MCServerOf
  Order <- MCOrder
INVARIANTS TypeOK SetupComplete LeadersFirst AnswerIsOnItsWay
PROPERTIES OutputsOffForSampleClock
