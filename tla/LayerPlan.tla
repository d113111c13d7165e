----------------------------- MODULE LayerPlan -----------------------------
(***************************************************************************)
(* The layer arithmetic of src/sovereign/szl_mesh_coordinator.py:          *)
(* assign_layers gives a joining node a range of the model's layers, and   *)
(* _pipeline_plan picks a chain of ranges that covers them all.  A tile's  *)
(* share is [vram, first, last]: its range is first .. last - 1.           *)
(***************************************************************************)
EXTENDS Integers, Sequences, FiniteSets, FiniteSetsExt

CONSTANT TotalLayers     \* total_model_layers

ASSUME LayerAssumption == TotalLayers \in Nat \ {0}

Layer == 0 .. TotalLayers - 1

----------------------------------------------------------------------------
(* assign_layers(existing, vram), existing a function from nodes to shares. *)

VramOf(existing) == MapThenSumSet(LAMBDA n : existing[n].vram, DOMAIN existing)

\* The VRAM already placed on a layer.
Coverage(existing, i) ==
  MapThenSumSet(LAMBDA n : existing[n].vram,
                {n \in DOMAIN existing : existing[n].first <= i /\ i < existing[n].last})

\* Python's round(a / b): to the nearest, a half to the even side.
Rounded(a, b) ==
  LET q == a \div b
      twice == 2 * (a % b)
  IN  IF twice < b \/ (twice = b /\ q % 2 = 0) THEN q ELSE q + 1

\* n_layers: a share of the layers in proportion to the VRAM, and at least one.
ShareSize(existing, vram) ==
  LET total == VramOf(existing) + vram
  IN  IF total = 0 THEN TotalLayers
      ELSE Min({TotalLayers, Max({1, Rounded(TotalLayers * vram, total)})})

\* The sum over the window of size layers from start, by reference.
WindowSum(existing, size, start) ==
  MapThenSumSet(LAMBDA i : Coverage(existing, i), start .. start + size - 1)

\* Faulty variant: the layer that leaves the window is off by one.
SlideMiscounting(existing, size) ==
  LET slid[i \in 0 .. TotalLayers - size] ==
        IF i = 0 THEN [sum |-> WindowSum(existing, size, 0), best |-> 0,
                       least |-> WindowSum(existing, size, 0)]
        ELSE LET sum == slid[i - 1].sum + Coverage(existing, i + size - 1)
                          - Coverage(existing, i)
             IN  IF sum < slid[i - 1].least
                 THEN [sum |-> sum, best |-> i, least |-> sum]
                 ELSE [slid[i - 1] EXCEPT !.sum = sum]
  IN  slid[TotalLayers - size].best

\* The sliding window: each sum from the one before it, the first least one kept.
Slide(existing, size) ==
  LET slid[i \in 0 .. TotalLayers - size] ==
        IF i = 0 THEN [sum |-> WindowSum(existing, size, 0), best |-> 0,
                       least |-> WindowSum(existing, size, 0)]
        ELSE LET sum == slid[i - 1].sum + Coverage(existing, i + size - 1)
                          - Coverage(existing, i - 1)
             IN  IF sum < slid[i - 1].least
                 THEN [sum |-> sum, best |-> i, least |-> sum]
                 ELSE [slid[i - 1] EXCEPT !.sum = sum]
  IN  slid[TotalLayers - size].best

\* assign_layers: the share a node with that VRAM gets.
AssignLayers(existing, vram) ==
  LET size == ShareSize(existing, vram)
      start == Slide(existing, size)
  IN  [vram |-> vram, first |-> start, last |-> start + size]

----------------------------------------------------------------------------
(* _pipeline_plan over the shares of the UP tiles.                         *)

\* Faulty variant: a share that starts right after the layer is taken too.
ReachableAcrossGap(shares, nodes, cursor) ==
  {n \in nodes : shares[n].first <= cursor + 1 /\ cursor < shares[n].last}

\* The shares that hold the layer at the cursor.
Reachable(shares, nodes, cursor) ==
  {n \in nodes : shares[n].first <= cursor /\ cursor < shares[n].last}

\* Faulty variant: the first of the sorted shares, not the one that reaches furthest.
FirstReaching(shares, nodes) ==
  CHOOSE n \in nodes : \A m \in nodes : shares[n].first <= shares[m].first

\* max(reachable, key=layer_end); nothing depends on which of several is taken.
Furthest(shares, nodes) ==
  CHOOSE n \in nodes : \A m \in nodes : shares[m].last <= shares[n].last

\* The greedy walk after at most k turns: its stages, and how far they reach.
Walk(shares, up) ==
  LET walk[k \in 0 .. Cardinality(up) + 1] ==
        IF k = 0 THEN [stages |-> <<>>, cursor |-> 0, remaining |-> up]
        ELSE LET at == walk[k - 1]
                 reachable == Reachable(shares, at.remaining, at.cursor)
                 best == Furthest(shares, reachable)
             IN  IF at.cursor >= TotalLayers \/ reachable = {} THEN at
                 ELSE [stages |-> Append(at.stages, best), cursor |-> shares[best].last,
                       remaining |-> at.remaining \ {best}]
  IN  walk[Cardinality(up) + 1]

\* _pipeline_plan: the stages, and whether they cover every layer.
PipelinePlan(shares, up) ==
  LET walk == Walk(shares, up)
  IN  [stages |-> walk.stages, covered |-> walk.cursor >= TotalLayers]

\* By reference: the shares of some nodes cover every layer.
Covers(shares, nodes) ==
  \A i \in Layer : \E n \in nodes : shares[n].first <= i /\ i < shares[n].last
=============================================================================
