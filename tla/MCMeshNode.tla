----------------------------- MODULE MCMeshNode -----------------------------
(* Model checking of MeshNode: op ids ordered by what the ops say. *)
EXTENDS MeshNode

MCHash(o) == 2 * o.value + (IF o.deletion THEN 1 ELSE 0)
=============================================================================
