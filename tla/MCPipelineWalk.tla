--------------------------- MODULE MCPipelineWalk ---------------------------
(* Model checking of PipelineWalk: two nodes and two runs of one request. *)
EXTENDS PipelineWalk

CONSTANTS n1, n2

MCNode == {n1, n2}

\* A seeded pick that alternates with the stage.
MCF1Pick(r, S) ==
  IF r % 2 = 1 THEN (IF n1 \in S THEN n1 ELSE n2) ELSE (IF n2 \in S THEN n2 ELSE n1)
\* A seeded pick that prefers one node.
MCF1First(r, S) == IF n1 \in S THEN n1 ELSE n2
=============================================================================
