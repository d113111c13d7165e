\* A heartbeat verified before a revocation is applied after it.
SPECIFICATION Spec
CONSTANTS
  n1 = n1
  n2 = n2
  r1 = r1
  r2 = r2
  Node <- MCNode
  Request = {r1}
  Thread = {t1, t2}
  OfflineTimeout = 0
  RelayTTL = 0
  TokenTTL = 0
  SelfTokenTTL = 0
  MaxTime = 1
  NoNode = NoNode
  NoRequest = NoRequest
  F1Pick <- MCF1Pick
SYMMETRY Threads
PROPERTY RevokedStaysDown
