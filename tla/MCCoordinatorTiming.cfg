\* One node and two threads; the clock runs past the relay's TTL, the offline timeout
\* and the token's lifetime, with instants strictly inside, at and beyond each.
SPECIFICATION Spec
CONSTANTS
  n1 = n1
  n2 = n2
  r1 = r1
  r2 = r2
  Node = {n1}
  Request = {r1}
  Thread = {t1, t2}
  OfflineTimeout = 1
  RelayTTL = 1
  TokenTTL = 2
  SelfTokenTTL = 1
  MaxTime = 4
  NoNode = NoNode
  NoRequest = NoRequest
  F1Pick <- MCF1Pick
SYMMETRY Threads
INVARIANT AtMostOncePerTTL
PROPERTY DownIsJustified
