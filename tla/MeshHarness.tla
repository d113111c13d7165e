---------------------------- MODULE MeshHarness ----------------------------
(***************************************************************************)
(* The in-process mesh of src/szl_mesh/harness.py: MeshNodes that enrol    *)
(* with one gateway, write through the harness and exchange what they      *)
(* wrote in gossip rounds.  The harness is one thread: nothing is written, *)
(* enrolled or revoked during a round, but the clock runs.                 *)
(***************************************************************************)
EXTENDS MeshNode

CONSTANT MaxRounds   \* bound of the model: calls of gossip()

VARIABLES
  pending,   \* the deliveries the present gossip round has left to make
  rounds     \* the rounds started, for the bound

\* harness.nodes is the set of nodes that enrolled, _broadcast_log is sent.
harnessVars == <<vars, pending, rounds>>

HarnessInit == Init /\ pending = {} /\ rounds = 0

\* A call of the harness or its gateway between two gossip rounds.
Call(A) == pending = {} /\ A /\ UNCHANGED <<pending, rounds>>

AddNode(n) == Call(Enroll(n))
RevokeNode(n) == Call(Revoke(n))
\* A write that raises leaves the broadcast log as it was.
WriteThrough(n, key, value) ==
  Call(Write(n, key, value, FALSE) \/ WriteRaises(n, key, value, FALSE))

\* Faulty variant: what revoked nodes wrote is not passed on.
DeliveriesOfUnrevoked ==
  {d \in enrolled \X sent : d[2].op.node # d[1] /\ d[2].op.node \notin revoked}

\* gossip: every record written so far, to every node but its origin.
Deliveries == {d \in enrolled \X sent : d[2].op.node # d[1]}

Gossip ==
  /\ pending = {} /\ rounds < MaxRounds      \* bound
  /\ pending' = Deliveries
  /\ rounds' = rounds + 1
  /\ UNCHANGED vars

\* gossip: one delivery of the round, in the order the shuffle gave them.
GossipStep ==
  \E d \in pending :
    /\ ApplyRemote(d[1], d[2].op, d[2].receipt)
    /\ pending' = pending \ {d}
    /\ UNCHANGED rounds

HarnessNext ==
  \/ Tick /\ UNCHANGED <<pending, rounds>>
  \/ \E n \in Node : AddNode(n) \/ RevokeNode(n)
  \/ \E n \in Node, key \in Key, value \in Value : WriteThrough(n, key, value)
  \/ Gossip
  \/ GossipStep

\* gossip() is a loop over its deliveries, and none of them raises.
HarnessSpec ==
  HarnessInit /\ [][HarnessNext]_harnessVars /\ WF_harnessVars(GossipStep)

----------------------------------------------------------------------------
(* Properties.                                                             *)

\* converged(), of the OBSERVED track.
Converged == \A m, n \in enrolled : ObservedView(doc[m]) = ObservedView(doc[n])

\* The ops that the broadcast log carries.
Sent == {record.op : record \in sent}

\* The keys that failed writes may keep apart: those with an op that its writer holds, that
\* no record carries and that comes after every op sent.
Apart ==
  LET Unsent == Held \ Sent
  IN  {o.key : o \in {p \in Unsent : ~ \E q \in Sent : q.key = p.key /\ Before(p, q)}}

\* Two views show the same of a key.
SameOf(view, other, key) ==
  /\ key \in DOMAIN view <=> key \in DOMAIN other
  /\ key \in DOMAIN view => view[key] = other[key]

\* The nodes show the same of every key but these.
ConvergedButFor(keys) ==
  \A m, n \in enrolled : \A key \in Key \ keys :
    SameOf(ObservedView(doc[m]), ObservedView(doc[n]), key)

\* src/szl_mesh/harness.py, on gossip: a round that started ends, in whatever order it
\* delivers, and leaves every node with the same OBSERVED state, whatever part of it
\* earlier rounds had delivered and whoever was revoked; but for the keys that a write
\* which raised left with an op nobody else will get.
RoundConverges == pending # {} ~> pending = {} /\ ConvergedButFor(Apart)

\* A round that ends within ClockSkew of a write, its author not revoked, leaves the op
\* on the AUTHORIZED track of every node, those that had it OBSERVED included.
RoundAuthorizes ==
  [][pending # {} /\ pending' = {} =>
       \A record \in sent :
         /\ Distance(now, record.receipt.timestamp) <= ClockSkew
         /\ record.op.node \notin revoked
         => \A n \in enrolled : doc'[n][record.op] = "AUTHORIZED"]_harnessVars
=============================================================================
