------------------------ MODULE MCQuorumCertificate ------------------------
(* Model checking of QuorumCertificate. *)
EXTENDS QuorumCertificate

CONSTANTS o1, o2, o3, a1, a2

MCOrgan == {o1, o2, o3}
\* The verifier's policy, and a laxer one.
MCPolicy == {<<2, 3>>, <<1, 3>>}
MCSymmetry == Permutations(MCOrgan) \cup Permutations({a1, a2})
=============================================================================
