--------------------------- MODULE ConvergenceLab ---------------------------
(***************************************************************************)
(* The convergence lab, lab/simulator.py: it reads a scenario row by row,  *)
(* each row an op, a track and the replica that first holds it, lets every *)
(* replica take in the same ops in an order of its own, and reports        *)
(* whether the documents of src/szl_mesh/crdt.py converged.                *)
(***************************************************************************)
EXTENDS CRDTDocument, SequencesExt, FiniteSets

CONSTANTS
  LabOp,     \* the ops that scenarios name
  Replicas,  \* the replica counts that scenarios ask for
  MaxRows    \* MAX_OPERATIONS

ASSUME LabAssumption ==
  /\ LabOp \subseteq Op /\ IsFiniteSet(LabOp)
  /\ Replicas \subseteq Nat \ {0, 1} /\ MaxRows \in Nat

\* Of keys and op ids only the order matters; two ops never share an op id, a SHA-256 digest
\* of their fields.
ASSUME OrderAssumption ==
  /\ Key \subseteq Nat
  /\ \A o \in LabOp : Hash(o) \in Nat
  /\ \A o, p \in LabOp : Hash(o) = Hash(p) => o = p

VARIABLES
  replicas,   \* how many replicas the scenario has
  delivered,  \* the rows read so far
  unique,     \* the ops among them, each with the track of its first row
  report      \* what the lab says of the scenario

labVars == <<replicas, delivered, unique, report>>

Row == [op : LabOp, track : Track, origin : Nat]

NoReport == [status |-> "READING"]
Refused == [status |-> "REFUSED"]

----------------------------------------------------------------------------
(* Documents as the program keeps them: a log in the order of arrival, of  *)
(* ops that bring their tracks along, folded from its first op to its last.*)

AddLogged(log, entry) ==
  IF \E i \in DOMAIN log : log[i].op = entry.op THEN log ELSE Append(log, entry)

\* merge and merge_ops: an op the log lacks enters with the track that it comes with.
MergeLogs(log, other) == FoldLeft(AddLogged, log, other)

\* Faulty variant: among ops of one time the log keeps the one that came first.
LaterOnly(o, p) == o.lamport < p.lamport

Supersedes(o, p) == Before(o, p)

\* One round of the loops of _materialise and heads: winners, with an entry that may win.
Challenge(winners, e, tracks) ==
  LET o == e.op
  IN  IF e.track \in tracks /\ (o.key \in DOMAIN winners => Supersedes(winners[o.key], o))
      THEN [k \in DOMAIN winners \cup {o.key} |-> IF k = o.key THEN o ELSE winners[k]]
      ELSE winners

\* The winner of each key, as these loops find it.
FoldWinners(log, tracks) ==
  FoldLeft(LAMBDA winners, e : Challenge(winners, e, tracks), [k \in {} |-> k], log)

FoldView(log, tracks) ==
  LET winners == FoldWinners(log, tracks)
  IN  [k \in {k \in DOMAIN winners : ~ winners[k].deletion} |-> winners[k].value]

\* What the lab compares replicas by: the digests of the two views, and the heads.
Digests(log) ==
  <<FoldView(log, {"AUTHORIZED"}), FoldView(log, Visible), Range(FoldWinners(log, Visible))>>

\* What it shows of a document: the same, and how many ops it holds.
Snapshot(log) == <<Len(log), Digests(log)>>

\* _document, of ops whose tracks are known.
DocumentOf(ops, tracks) ==
  MergeLogs(<<>>, [i \in DOMAIN ops |-> [op |-> ops[i], track |-> tracks[ops[i]]]])

\* The document that replica i holds of the rows, before any replica hears of another.
Partition(rows, i) ==
  FoldLeft(LAMBDA log, row : IF row.origin = i THEN AddLogged(log, row) ELSE log, <<>>, rows)

\* The same document as a node of the mesh has it.
AsDocument(log) ==
  [o \in {log[i].op : i \in DOMAIN log} |-> (CHOOSE e \in Range(log) : e.op = o).track]

----------------------------------------------------------------------------
(* The orders in which the replicas take in the ops.                       *)

SortedBy(Ahead(_, _), ops) ==
  CHOOSE seq \in SetToSeqs(ops) : \A i, j \in DOMAIN seq : i < j => Ahead(seq[i], seq[j])

\* sorted(unique): by op id.
InIdOrder(ops) == SortedBy(LAMBDA o, p : Hash(o) < Hash(p), ops)

\* sorted by key, latest first, then node and op id.
KeyBefore(o, p) ==
  \/ o.key < p.key
  \/ o.key = p.key /\ o.lamport > p.lamport
  \/ o.key = p.key /\ o.lamport = p.lamport /\ o.node < p.node
  \/ o.key = p.key /\ o.lamport = p.lamport /\ o.node = p.node /\ Hash(o) < Hash(p)

\* _order_for_replica: as they are, reversed, rotated, or sorted by key.
OrderForReplica(ops, i) ==
  LET offset == i % Len(ops)
  IN  CASE i % 4 = 0 -> ops
        [] i % 4 = 1 -> Reverse(ops)
        [] i % 4 = 2 -> SubSeq(ops, offset + 1, Len(ops)) \o SubSeq(ops, 1, offset)
        [] i % 4 = 3 -> SortedBy(KeyBefore, Range(ops))

\* ops[offset::step].
Every(ops, step, offset) ==
  [n \in 1..((Len(ops) - offset + step - 1) \div step) |-> ops[(n - 1) * step + offset + 1]]

\* _commutativity_check: the even and the odd ops, merged either way.
Commutes(ops, tracks) ==
  LET left == DocumentOf(Every(ops, 2, 0), tracks)
      right == DocumentOf(Every(ops, 2, 1), tracks)
  IN  Snapshot(MergeLogs(left, right)) = Snapshot(MergeLogs(right, left))

\* _associativity_check: every third op, merged from the left and from the right.
Associates(ops, tracks) ==
  LET a == DocumentOf(Every(ops, 3, 0), tracks)
      b == DocumentOf(Every(ops, 3, 1), tracks)
      c == DocumentOf(Every(ops, 3, 2), tracks)
  IN  Snapshot(MergeLogs(MergeLogs(a, b), c)) = Snapshot(MergeLogs(a, MergeLogs(b, c)))

\* A replica is idempotent when adding all ops again adds none and changes nothing.
ReplayChangesNothing(doc, ops, tracks) ==
  LET again == MergeLogs(doc, DocumentOf(ops, tracks))
  IN  Len(again) = Len(doc) /\ Digests(again) = Digests(doc)

----------------------------------------------------------------------------

LabTypeOK ==
  /\ replicas \in Replicas
  /\ delivered \in Seq(Row)
  /\ unique \in [DOMAIN unique -> Track] /\ DOMAIN unique \subseteq LabOp
  /\ report.status \in {"READING", "REFUSED", "CONVERGED", "DIVERGED"}

LabInit ==
  /\ replicas \in Replicas
  /\ delivered = <<>>
  /\ unique = EmptyDoc
  /\ report = NoReport

\* Faulty variant: only a revoked op is held to its track.
ConflictsIfRevoked(o, track) ==
  o \in DOMAIN unique /\ unique[o] # track /\ "REVOKED" \in {unique[o], track}

\* An op identity that came before with another track refuses the whole scenario.
Conflicts(o, track) == o \in DOMAIN unique /\ unique[o] # track

\* One row of _normalize_operations.
ReadRow(row) ==
  /\ report = NoReport
  /\ Len(delivered) < MaxRows
  /\ IF Conflicts(row.op, row.track)
     THEN report' = Refused /\ UNCHANGED <<delivered, unique>>
     ELSE /\ delivered' = Append(delivered, row)
          /\ unique' = [o \in DOMAIN unique \cup {row.op} |->
                          IF o \in DOMAIN unique THEN unique[o] ELSE row.track]
          /\ UNCHANGED report
  /\ UNCHANGED replicas

\* The rest of simulate_scenario, once all rows are read.
Simulate ==
  /\ report = NoReport
  /\ delivered # <<>>
  /\ LET ops == InIdOrder(DOMAIN unique)
         Indices == 0..(replicas - 1)
         doc == [i \in Indices |-> DocumentOf(OrderForReplica(ops, i), unique)]
         converged == Cardinality({Digests(doc[i]) : i \in Indices}) = 1
         idempotent == \A i \in Indices : ReplayChangesNothing(doc[i], ops, unique)
     IN  report' =
           [status |-> IF /\ converged /\ idempotent
                          /\ Commutes(ops, unique) /\ Associates(ops, unique)
                       THEN "CONVERGED" ELSE "DIVERGED",
            final |-> [i \in Indices |-> Snapshot(doc[i])]]
  /\ UNCHANGED <<replicas, delivered, unique>>

LabNext ==
  \/ \E o \in LabOp, track \in Track, i \in 0..(replicas - 1) :
       ReadRow([op |-> o, track |-> track, origin |-> i])
  \/ Simulate

----------------------------------------------------------------------------

Reported == report \notin {NoReport, Refused}

\* Every scenario that the lab accepts converges: neither the order in which a replica takes
\* in the ops, nor their replay, nor the two merges the lab samples make a difference.
ScenariosConverge == Reported => report.status = "CONVERGED"

\* A log folded in its order of arrival shows what the op set alone determines, which is how
\* the nodes of the mesh are modelled.
FoldsAreMaxima ==
  Reported =>
    \A i \in DOMAIN report.final :
      LET log == Partition(delivered, i)
          doc == AsDocument(log)
      IN  Digests(log) = <<AuthorizedView(doc), ObservedView(doc), Heads(doc)>>

\* The partitions of an accepted scenario, merged in any order, show what each replica of the
\* report shows: the verdict holds for replicas that merge what they hold, where an op that
\* two of them had on different tracks would stay as the first of them had it.
PartitionsReconcile ==
  Reported =>
    \A order \in SetToSeqs(DOMAIN report.final) :
      LET merged == FoldLeft(LAMBDA doc, i : MergeLogs(doc, Partition(delivered, i)), <<>>, order)
      IN  \A i \in DOMAIN report.final : Snapshot(merged) = report.final[i]
=============================================================================
