--------------------------- MODULE ConvergentMap ---------------------------
(***************************************************************************)
(* What the mesh promises of its replicas, without receipts, clocks or     *)
(* tracks: a write is ordered after everything its writer knew,            *)
(* what a replica knows was written by someone and is never dropped, and   *)
(* learning an op again changes nothing.                                   *)
(***************************************************************************)
EXTENDS CRDTDocument

VARIABLES
  written,   \* every op written so far
  known      \* the ops each replica holds

vars == <<written, known>>

Init ==
  /\ written = {}
  /\ known = [n \in Node |-> {}]

Write(n, o) ==
  /\ o \notin written
  /\ o.node = n
  /\ \A p \in known[n] : Before(p, o)
  /\ written' = written \cup {o}
  /\ known' = [known EXCEPT ![n] = @ \cup {o}]

Learn(n, o) ==
  /\ o \in written
  /\ known' = [known EXCEPT ![n] = @ \cup {o}]
  /\ UNCHANGED written

Next == \E n \in Node, o \in written' : Write(n, o) \/ Learn(n, o)

Spec == Init /\ [][Next]_vars
=============================================================================
