\* Two nodes that join, leave and re-join under two threads' dispatches.  Time has two
\* instants: an age is within every timeout (0) or beyond it (1).
SPECIFICATION Spec
CONSTANTS
  n1 = n1
  n2 = n2
  r1 = r1
  r2 = r2
  Node <- MCNode
  Request = {r1}
  Thread = {t1, t2}
  OfflineTimeout = 0
  RelayTTL = 0
  TokenTTL = 0
  SelfTokenTTL = 0
  MaxTime = 1
  NoNode = NoNode
  NoRequest = NoRequest
  F1Pick <- MCF1Pick
SYMMETRY Threads
INVARIANTS
  TypeOK
  ReceiptsCoverJobs
  LoadNeverOverstated
  SelectedTileExists
PROPERTY RetirementHolds
