----------------------------- MODULE MCMeshAgent -----------------------------
(* Model checking of MeshAgent: a chain hash is the pair of what it hashes. *)
EXTENDS MeshAgent

MCKhipuHash(previous, body) == <<previous, body>>
=============================================================================
