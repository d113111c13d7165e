------------------------- MODULE MCMeshCoordinator -------------------------
(* Model checking of MeshCoordinator: two nodes, two clients' threads. *)
EXTENDS MeshCoordinator, TLC

CONSTANTS n1, n2, r1, r2

MCNode == {n1, n2}
MCRequest == {r1, r2}

\* A seeded pick that sends the tied choice of the two requests to different nodes.
MCF1Pick(r, S) ==
  IF r = r1 THEN (IF n1 \in S THEN n1 ELSE n2) ELSE (IF n2 \in S THEN n2 ELSE n1)

Threads == Permutations(Thread)
=============================================================================
