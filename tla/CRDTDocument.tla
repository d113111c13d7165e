---------------------------- MODULE CRDTDocument ----------------------------
(***************************************************************************)
(* The op-log LWW map of src/szl_mesh/crdt.py, as operators.  A document   *)
(* is a function from the ops it holds to their tracks; an op is its own   *)
(* content hash (op_id), so two ops with the same fields are one op.       *)
(***************************************************************************)
EXTENDS Integers

CONSTANTS
  Node,       \* node ids; SHA-256 digests, of which only the order matters
  Key, Value,
  Hash(_)     \* the order of the op ids

ASSUME NodeAssumption == Node \subseteq Nat

Op == [key : Key, value : Value, lamport : Nat, node : Node, deletion : BOOLEAN]

\* The op identity leaves the track out, and REVOKED is a label no code of the node sets.
Track == {"AUTHORIZED", "OBSERVED", "REVOKED"}
Visible == {"AUTHORIZED", "OBSERVED"}

\* order_key: (lamport, node_id, op_id), compared left to right.
Before(o, p) ==
  \/ o.lamport < p.lamport
  \/ o.lamport = p.lamport /\ o.node < p.node
  \/ o.lamport = p.lamport /\ o.node = p.node /\ Hash(o) < Hash(p)

EmptyDoc == [o \in {} |-> "OBSERVED"]

\* add_op: an op the log holds keeps its track; a new one enters as OBSERVED.
AddOp(doc, o) ==
  [p \in DOMAIN doc \cup {o} |-> IF p \in DOMAIN doc THEN doc[p] ELSE "OBSERVED"]

\* set_op_track: overwrites the track of an op in the log, whatever it was.
SetOpTrack(doc, o, track) ==
  [p \in DOMAIN doc |-> IF p = o THEN track ELSE doc[p]]

\* _materialise: the last op of each key among those on the given tracks.
Winners(doc, tracks) ==
  LET Live == {o \in DOMAIN doc : doc[o] \in tracks}
  IN  {o \in Live : \A p \in Live : p.key = o.key => ~ Before(o, p)}

\* _materialise: the map it leaves; a key whose last op is a deletion is absent.
Materialise(doc, tracks) ==
  LET Kept == {o \in Winners(doc, tracks) : ~ o.deletion}
  IN  [k \in {o.key : o \in Kept} |-> (CHOOSE o \in Kept : o.key = k).value]

AuthorizedView(doc) == Materialise(doc, {"AUTHORIZED"})
ObservedView(doc) == Materialise(doc, Visible)

\* heads: the winners of all keys over the non-revoked tracks.
Heads(doc) == Winners(doc, Visible)
=============================================================================
