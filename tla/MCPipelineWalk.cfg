\* Two nodes that share two layers, and two runs of the same request.
SPECIFICATION PipelineSpec
CONSTANTS
  n1 = n1
  n2 = n2
  Node <- MCNode
  Request = {1, 2}
  Thread = {t1, t2}
  OfflineTimeout = 0
  RelayTTL = 0
  TokenTTL = 0
  SelfTokenTTL = 0
  MaxTime = 0
  NoNode = NoNode
  NoRequest = NoRequest
  F1Pick <- MCF1Pick
  TotalLayers = 2
  Vram = {1}
  MaxSteps = 2
INVARIANTS
  ConvergedIsClosed
  ConvergesOnce
PROPERTY Terminates
CHECK_DEADLOCK FALSE
