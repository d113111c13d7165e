--------------------------- MODULE MCMeshHarness ---------------------------
(* Model checking of MeshHarness: op ids ordered by what the ops say. *)
EXTENDS MeshHarness

MCHash(o) == 2 * o.value + (IF o.deletion THEN 1 ELSE 0)
=============================================================================
