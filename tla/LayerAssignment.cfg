\* Three nodes, five layers; a CPU node brings no VRAM.
SPECIFICATION Spec
CONSTANTS
  Node = {n1, n2, n3}
  Vram = {0, 1, 3}
  TotalLayers = 5
INVARIANTS
  PlanIsExact
  PlanIsMinimal
PROPERTY PlacedWhereLeast
