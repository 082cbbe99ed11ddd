SPECIFICATION Spec
CONSTANTS
  pq = pq
  hd = hd
  uh = uh
  sq = sq
  server = server
  other = other
  PQSCs = {}
  HDAWGs = {hd}
  SHFs = {sq}
  UHFQAs = {}
  Servers = {server, other}
  WithOffset = {hd}
  Children <- MCNoChildren
  ForceInternal <- MCForceExternal
  ServerOf <- MCServerOf
  Order <- MCAloneOrder
PROPERTIES ConditionsVerified
