-------------------------- MODULE LayerAssignment --------------------------
(***************************************************************************)
(* The layer shares of the tiles as nodes join and join again             *)
(* (src/sovereign/szl_mesh_coordinator.py, join_node): a tile keeps its    *)
(* share while it is DOWN, and a node that joins again is given a new one  *)
(* with its old share still counted.                                       *)
(***************************************************************************)
EXTENDS LayerPlan

CONSTANTS
  Node,   \* node ids
  Vram    \* the sizes a node may join with

ASSUME VramAssumption == Vram \subseteq Nat

VARIABLE shares   \* the layer shares of the tiles: one per node that has joined

Init == shares = [n \in {} |-> 0]

\* join_node.
AssignShare(n, vram) ==
  shares' = [m \in DOMAIN shares \cup {n} |->
               IF m = n THEN AssignLayers(shares, vram) ELSE shares[m]]

Next == \E n \in Node, vram \in Vram : AssignShare(n, vram)

Spec == Init /\ [][Next]_shares

----------------------------------------------------------------------------
(* Properties.                                                             *)

\* The plan's claim is exact for whichever tiles are UP: it says "covered" when and only
\* when their shares cover every layer.
PlanIsExact ==
  \A up \in SUBSET DOMAIN shares : PipelinePlan(shares, up).covered <=> Covers(shares, up)

\* The greedy walk is optimal: its stages cover what it claims, and no fewer tiles could.
PlanIsMinimal ==
  \A up \in SUBSET DOMAIN shares :
    LET plan == PipelinePlan(shares, up)
        Planned == {plan.stages[i] : i \in DOMAIN plan.stages}
    IN  plan.covered =>
          /\ Planned \subseteq up
          /\ Covers(shares, Planned)
          /\ \A nodes \in SUBSET up : Covers(shares, nodes) =>
               Len(plan.stages) <= Cardinality(nodes)

\* A joining node is placed where the least VRAM is: no window of its size had less, and
\* none further down had as little.
PlacedWhereLeast ==
  [][\A n \in Node : (n \in DOMAIN shares' /\ (n \in DOMAIN shares => shares'[n] # shares[n])) =>
       LET size == shares'[n].last - shares'[n].first
           sum(start) == WindowSum(shares, size, start)
       IN  /\ size > 0 /\ shares'[n].first >= 0 /\ shares'[n].last <= TotalLayers
           /\ \A start \in 0 .. TotalLayers - size :
                \/ sum(shares'[n].first) < sum(start)
                \/ sum(shares'[n].first) = sum(start) /\ shares'[n].first <= start]_shares
=============================================================================
