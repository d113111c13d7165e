------------------------------ MODULE MeshNode ------------------------------
(***************************************************************************)
(* The SZL-MESH nodes (src/szl_mesh/node.py) over their CRDT documents,    *)
(* the Receipt Gate (receipts.py) and the one formation gateway they       *)
(* enrolled with (enrollment.py).  A record a write returns may reach any  *)
(* other node at any time, any number of times and in any order, with or   *)
(* without its receipt, or not at all.                                     *)
(***************************************************************************)
EXTENDS CRDTDocument, FiniteSets

CONSTANTS
  ClockSkew,    \* clock_skew_seconds, in clock ticks
  MaxTime,      \* bound of the model: the clock stops here
  MaxLamport,   \* bound of the model: a node's clock stops here
  MaxSkips,     \* bound of the model: a call that makes no op moves it no further
  MaxWrites,    \* bound of the model: ops of all nodes together
  NoReceipt     \* a record without its receipt

ASSUME ClockAssumption == ClockSkew \in Nat /\ MaxTime \in Nat

VARIABLES
  now,       \* the nodes' wall clock
  certs,     \* FormationGateway.cert_store
  revoked,   \* FormationGateway.revoked
  enrolled,  \* the nodes whose enrolled flag is set, and with it their _gateway
  lamport,   \* _lamport of each node
  doc,       \* doc of each node
  receipts,  \* receipt_ledger of each node: op -> envelope
  sent       \* the records the writes returned, for anyone to deliver

gatewayVars == <<certs, revoked, enrolled>>
nodeVars == <<lamport, doc, receipts>>
vars == <<now, gatewayVars, nodeVars, sent>>

\* A receipt: its signer, the op its change_hash names and its timestamp.  (The
\* constants it pins and its signature are those of an honest signer.)
Receipt == [node : Node, change : Op, timestamp : Nat]
Record == [op : Op, receipt : Receipt]

ASSUME NoReceiptAssumption == NoReceipt \notin Receipt

IsPartial(f, S, T) == DOMAIN f \subseteq S /\ \A x \in DOMAIN f : f[x] \in T

TypeOK ==
  /\ now \in Nat
  /\ certs \subseteq Node /\ revoked \subseteq Node /\ enrolled \subseteq certs
  /\ lamport \in [Node -> Nat]
  /\ DOMAIN doc = Node /\ \A n \in Node : IsPartial(doc[n], Op, Visible)
  /\ DOMAIN receipts = Node
  /\ \A n \in Node : IsPartial(receipts[n], Op, Receipt)
  /\ sent \subseteq Record

Init ==
  /\ now = 0
  /\ certs = {}
  /\ revoked = {}
  /\ enrolled = {}
  /\ lamport = [n \in Node |-> 0]
  /\ doc = [n \in Node |-> EmptyDoc]
  /\ receipts = [n \in Node |-> [o \in {} |-> NoReceipt]]
  /\ sent = {}

Tick ==
  /\ now < MaxTime
  /\ now' = now + 1
  /\ UNCHANGED <<gatewayVars, nodeVars, sent>>

----------------------------------------------------------------------------
(* The gateway.        *)

\* enroll, with the honest request MeshNode.enroll builds: refused to a revoked id and
\* to one it holds, and a refused request changes nothing.
Enroll(n) ==
  /\ n \notin revoked
  /\ n \notin certs
  /\ certs' = certs \cup {n}
  /\ enrolled' = enrolled \cup {n}
  /\ UNCHANGED <<now, revoked, nodeVars, sent>>

Revoke(n) ==
  /\ revoked' = revoked \cup {n}
  /\ UNCHANGED <<now, certs, enrolled, nodeVars, sent>>

\* The signers a node knows (pubkey_registry): none before it has enrolled.
Registry(n) == IF n \in enrolled THEN certs \ revoked ELSE {}

----------------------------------------------------------------------------
(* The Receipt Gate.   *)

Distance(a, b) == IF a < b THEN b - a ELSE a - b

\* Faulty variant: the age of a receipt is not checked.
InAnyWindow(receipt) == TRUE

\* Faulty variant: a receipt exactly ClockSkew away is refused.
InsideWindow(receipt) == Distance(now, receipt.timestamp) < ClockSkew

\* The timestamp is within ClockSkew of the clock, on either side.
InWindow(receipt) == Distance(now, receipt.timestamp) <= ClockSkew

\* validate_receipt for the op o at node n: the status of the first check that fails.
\* (A revoked signer is not in the registry, so "REVOKED" is never the answer.)
ReceiptStatus(n, o, receipt) ==
  IF receipt = NoReceipt THEN "MISSING"
  ELSE IF receipt.node \notin Registry(n) THEN "BAD_SIGNATURE"
  ELSE IF receipt.node \in revoked THEN "REVOKED"
  ELSE IF receipt.change # o THEN "HASH_MISMATCH"
  ELSE IF ~ InWindow(receipt) THEN "CLOCK_SKEW"
  ELSE "VALID"

\* Faulty variant: a revoked signer's op is hidden from every view.
ClassifyRevoked(n, o, receipt) ==
  IF ReceiptStatus(n, o, receipt) = "VALID" THEN "AUTHORIZED"
  ELSE IF o.node \in revoked THEN "REVOKED" ELSE "OBSERVED"

\* _classify: an op is AUTHORIZED only if every check passes.
Classify(n, o, receipt) ==
  IF ReceiptStatus(n, o, receipt) = "VALID" THEN "AUTHORIZED" ELSE "OBSERVED"

----------------------------------------------------------------------------
(* The nodes.          *)

\* Faulty variant: the clock of a received op is not taken into account.
TickedLocally(n, observed) == lamport[n] + 1

\* _tick.
Ticked(n, observed) == 1 + (IF lamport[n] < observed THEN observed ELSE lamport[n])

PutReceipt(ledger, o, receipt) ==
  [p \in DOMAIN ledger \cup {o} |-> IF p = o THEN receipt ELSE ledger[p]]

\* The op and the receipt write() makes.
NewOp(n, key, value, deletion) ==
  [key |-> key, value |-> value, lamport |-> Ticked(n, 0), node |-> n,
   deletion |-> deletion]

\* The ops the nodes hold, whether a record carries them or not.
Held == UNION {DOMAIN doc[n] : n \in Node}

\* Bounds of the model on a node that writes.
MayWrite(n) == Cardinality(Held) < MaxWrites /\ Ticked(n, 0) <= MaxLamport

\* write: an unenrolled node raises.
Write(n, key, value, deletion) ==
  LET o == NewOp(n, key, value, deletion)
      receipt == [node |-> n, change |-> o, timestamp |-> now]
  IN  /\ n \in enrolled
      /\ MayWrite(n)
      /\ lamport' = [lamport EXCEPT ![n] = Ticked(n, 0)]
      /\ receipts' = [receipts EXCEPT ![n] = PutReceipt(@, o, receipt)]
      /\ doc' = [doc EXCEPT ![n] = SetOpTrack(AddOp(@, o), o, Classify(n, o, receipt))]
      /\ sent' = sent \cup {[op |-> o, receipt |-> receipt]}
      /\ UNCHANGED <<now, gatewayVars>>

\* write, when it raises after the clock has moved: ahead of the log for a value without a
\* canonical form, which has no op_id; or behind it for a transition_class that
\* build_state_transition_statement refuses.  The op then stays in its writer's log,
\* OBSERVED, without a receipt and without a record for anyone to deliver.
WriteRaises(n, key, value, deletion) ==
  /\ n \in enrolled
  /\ MayWrite(n)
  /\ lamport' = [lamport EXCEPT ![n] = Ticked(n, 0)]
  /\ \/ Ticked(n, 0) <= MaxSkips /\ UNCHANGED doc      \* bound
     \/ doc' = [doc EXCEPT ![n] = AddOp(@, NewOp(n, key, value, deletion))]
  /\ UNCHANGED <<now, gatewayVars, receipts, sent>>

\* Faulty variant: only the receipt of a newly added op is kept.
ApplyRemoteKeepingFirst(n, o, receipt) ==
  /\ lamport' = [lamport EXCEPT ![n] = Ticked(n, o.lamport)]
  /\ receipts' = IF receipt = NoReceipt \/ o \in DOMAIN doc[n] THEN receipts
                 ELSE [receipts EXCEPT ![n] = PutReceipt(@, o, receipt)]
  /\ doc' = [doc EXCEPT ![n] = SetOpTrack(AddOp(@, o), o, Classify(n, o, receipt))]
  /\ UNCHANGED <<now, gatewayVars, sent>>

\* apply_remote: the clock always moves; the op keeps its place in the log; a missing
\* receipt leaves the stored one; the track is that of this delivery's receipt.
ApplyRemote(n, o, receipt) ==
  /\ lamport' = [lamport EXCEPT ![n] = Ticked(n, o.lamport)]
  /\ receipts' = IF receipt = NoReceipt THEN receipts
                 ELSE [receipts EXCEPT ![n] = PutReceipt(@, o, receipt)]
  /\ doc' = [doc EXCEPT ![n] = SetOpTrack(AddOp(@, o), o, Classify(n, o, receipt))]
  /\ UNCHANGED <<now, gatewayVars, sent>>

Deliver(n, record) ==
  /\ record.op.node # n
  /\ Ticked(n, record.op.lamport) <= MaxLamport       \* bound
  /\ \E receipt \in {record.receipt, NoReceipt} : ApplyRemote(n, record.op, receipt)

Next ==
  \/ Tick
  \/ \E n \in Node : Enroll(n) \/ Revoke(n)
  \/ \E n \in Node, key \in Key, value \in Value, deletion \in BOOLEAN :
       Write(n, key, value, deletion) \/ WriteRaises(n, key, value, deletion)
  \/ \E n \in Node, record \in sent : Deliver(n, record)

Spec == Init /\ [][Next]_vars

----------------------------------------------------------------------------
(* Properties.         *)

\* Evidence on file: a node that shows an op as AUTHORIZED is enrolled, and its ledger
\* holds a receipt for that very op by its author, an enrolled node.
AuthorizedIsBacked ==
  \A n \in Node : \A o \in DOMAIN doc[n] :
    doc[n][o] = "AUTHORIZED" =>
      /\ n \in enrolled
      /\ o \in DOMAIN receipts[n]
      /\ receipts[n][o].change = o
      /\ receipts[n][o].node = o.node
      /\ o.node \in certs

\* An op becomes AUTHORIZED only when its author is enrolled and not revoked, and a
\* receipt stamped within ClockSkew of the present is at hand.
PromotedForCause ==
  \A n \in Node : \A o \in DOMAIN doc'[n] :
    /\ doc'[n][o] = "AUTHORIZED"
    /\ o \in DOMAIN doc[n] => doc[n][o] # "AUTHORIZED"
    => /\ o.node \in certs \ revoked
       /\ Distance(now, receipts'[n][o].timestamp) <= ClockSkew

PromotionIsJustified == [][PromotedForCause]_vars

\* The last op of each key never loses its place to one its winner's author knew: what
\* the nodes hold is a ConvergentMap, whatever receipts, clocks and revocations do, and
\* whichever writes raise.  (An op counts as written once its writer's log has it.)
Abstract == INSTANCE ConvergentMap WITH
  written <- Held,
  known <- [n \in Node |-> DOMAIN doc[n]]

ImplementsConvergentMap == Abstract!Spec

\* spec/02-two-track-state.md: "immutable once set - downgrade only via revocation".
\* Violated: delivering a record again after ClockSkew takes its op off the track.
DowngradedOnlyByRevocation ==
  [][\A n \in Node : \A o \in DOMAIN doc[n] :
       doc[n][o] = "AUTHORIZED" /\ doc'[n][o] # "AUTHORIZED" => o.node \in revoked]_vars
=============================================================================
