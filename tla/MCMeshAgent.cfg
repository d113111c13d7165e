\* One agent, called by none, one or two threads.
SPECIFICATION Spec
CONSTANTS
  Thread = {t1, t2}
  Job = {j1}
  TokenTTL = 0
  OfflineTimeout = 0
  MaxTime = 1
  MaxReceipts = 3
  MaxLoops = 2
  Genesis = Genesis
  KhipuHash <- MCKhipuHash
INVARIANTS
  TypeOK
  ChainIntact
  CreditNeverInflated
  SerialCreditIsExact
PROPERTIES
  RevokedNodeIsQuiet
  HeartbeatsEnd
