\* Two collectors and three reporters, one of them Byzantine; scenarios of up to three
\* rows and four replicas; requests of up to three snapshots.
SPECIFICATION Spec
CONSTANTS
  Collector = {c1, c2}
  Reporter = {r1, r2, r3}
  Change = {ch}
  Class = {"DEPLOYMENT", "OTHER"}
  Window = {w1, w2}
  Byzantine = {r3}
  K <- MCK
  Node = {1, 2}
  Key = {1}
  Value = {0, 1, 2}
  Hash <- MCHash
  LabOp <- MCLabOp
  Replicas = {2, 4}
  MaxRows = 3
  Site = {1, 2, 3}
  Name = {n}
  Register <- MCRegister
  Clock <- MCClock
  MaxSnapshots = 3
INVARIANTS
  TypeOK
  SoftSafety
  CollectorsAgree
  ScenariosConverge
  FoldsAreMaxima
  PartitionsReconcile
  ArrivalIndependent
  RelationsAgreeWithClock
SYMMETRY MCSymmetry
CHECK_DEADLOCK FALSE
