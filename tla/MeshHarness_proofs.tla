-------------------------- MODULE MeshHarness_proofs --------------------------
(***************************************************************************)
(* TLAPS proofs about the nodes of MeshNode and the gossip rounds that     *)
(* MeshHarness makes of them: the nodes' types, the evidence behind every  *)
(* AUTHORIZED op, that the nodes implement a ConvergentMap, and what a     *)
(* round leaves behind.                                                    *)
(***************************************************************************)
EXTENDS MeshHarness, TLAPS

----------------------------------------------------------------------------
(* The nodes: their types.                                                 *)

\* A log to which an op was added, with its track set, is a log.
LEMMA TrackedType ==
  ASSUME NEW d, IsPartial(d, Op, Visible), NEW o \in Op, NEW track \in Visible
  PROVE  IsPartial(SetOpTrack(AddOp(d, o), o, track), Op, Visible)
BY DEF SetOpTrack, AddOp, IsPartial

\* A ledger in which a receipt was stored is a ledger.
LEMMA StoredType ==
  ASSUME NEW ledger, IsPartial(ledger, Op, Receipt), NEW o \in Op, NEW receipt \in Receipt
  PROVE  IsPartial(PutReceipt(ledger, o, receipt), Op, Receipt)
BY DEF PutReceipt, IsPartial

\* The gate knows two tracks.
LEMMA TwoTracks ==
  ASSUME NEW n, NEW o, NEW receipt
  PROVE  Classify(n, o, receipt) \in Visible
BY DEF Classify, Visible

\* What a node's documents and ledger become when it applies an op with a receipt that
\* it may or may not have got.
LEMMA ApplyTypes ==
  ASSUME TypeOK, NEW n \in Node, NEW o \in Op, NEW receipt \in Receipt \cup {NoReceipt},
         ApplyRemote(n, o, receipt)
  PROVE  TypeOK'
<1> USE DEF TypeOK
<1>1. lamport' \in [Node -> Nat]
  <2>1. Ticked(n, o.lamport) \in Nat
    BY DEF Ticked, Op
  <2> QED
    BY <2>1 DEF ApplyRemote
<1>2. DOMAIN doc' = Node /\ \A m \in Node : IsPartial(doc'[m], Op, Visible)
  BY TrackedType, TwoTracks DEF ApplyRemote
<1>3. DOMAIN receipts' = Node /\ \A m \in Node : IsPartial(receipts'[m], Op, Receipt)
  <2>1. CASE receipt = NoReceipt
    BY <2>1 DEF ApplyRemote
  <2>2. CASE receipt # NoReceipt
    <3>1. receipts' = [receipts EXCEPT ![n] = PutReceipt(receipts[n], o, receipt)]
      BY <2>2 DEF ApplyRemote
    <3> QED
      BY <2>2, <3>1, StoredType
  <2> QED
    BY <2>1, <2>2
<1> QED
  BY <1>1, <1>2, <1>3 DEF ApplyRemote, gatewayVars

\* The op a write makes is later than all its node's clock has seen.
LEMMA FreshOp ==
  ASSUME TypeOK, NEW n \in Node, NEW key \in Key, NEW value \in Value,
         NEW deletion \in BOOLEAN
  PROVE  /\ NewOp(n, key, value, deletion) \in Op
         /\ NewOp(n, key, value, deletion).node = n
         /\ NewOp(n, key, value, deletion).lamport = lamport[n] + 1
         /\ Ticked(n, 0) = lamport[n] + 1
BY DEF TypeOK, NewOp, Op, Ticked

\* A write keeps the state well typed.
LEMMA WriteTypes ==
  ASSUME TypeOK, NEW n \in Node, NEW key \in Key, NEW value \in Value,
         NEW deletion \in BOOLEAN, Write(n, key, value, deletion)
  PROVE  TypeOK'
<1> DEFINE o == NewOp(n, key, value, deletion)
           receipt == [node |-> n, change |-> o, timestamp |-> now]
<1>1. o \in Op /\ Ticked(n, 0) \in Nat
  BY FreshOp DEF TypeOK
<1>2. receipt \in Receipt
  BY <1>1 DEF TypeOK, Receipt
<1> HIDE DEF o
<1>3. /\ lamport' = [lamport EXCEPT ![n] = Ticked(n, 0)]
      /\ receipts' = [receipts EXCEPT ![n] = PutReceipt(receipts[n], o, receipt)]
      /\ doc' = [doc EXCEPT ![n] =
                   SetOpTrack(AddOp(doc[n], o), o, Classify(n, o, receipt))]
      /\ sent' = sent \cup {[op |-> o, receipt |-> receipt]}
      /\ UNCHANGED <<now, gatewayVars>>
  BY DEF Write, o
<1> HIDE DEF receipt
<1> USE DEF TypeOK
<1>4. lamport' \in [Node -> Nat]
  BY <1>1, <1>3
<1>5. DOMAIN doc' = Node /\ \A m \in Node : IsPartial(doc'[m], Op, Visible)
  BY <1>1, <1>3, TrackedType, TwoTracks
<1>6. DOMAIN receipts' = Node /\ \A m \in Node : IsPartial(receipts'[m], Op, Receipt)
  BY <1>1, <1>2, <1>3, StoredType
<1>7. sent' \subseteq Record
  BY <1>1, <1>2, <1>3 DEF Record
<1> QED
  BY <1>3, <1>4, <1>5, <1>6, <1>7 DEF gatewayVars

\* What a write that raises may log: its op, on the OBSERVED track.
Logs(n, o) ==
  /\ o \in Op /\ o.node = n /\ o.lamport = lamport[n] + 1
  /\ doc' = [doc EXCEPT ![n] = AddOp(@, o)]

\* A write that raises moves its node's clock, and logs its op or nothing.
LEMMA RaisesLogs ==
  ASSUME TypeOK, NEW n \in Node, NEW key \in Key, NEW value \in Value,
         NEW deletion \in BOOLEAN, WriteRaises(n, key, value, deletion)
  PROVE  /\ UNCHANGED <<now, certs, revoked, enrolled, receipts, sent>>
         /\ lamport' = [lamport EXCEPT ![n] = lamport[n] + 1]
         /\ UNCHANGED doc \/ Logs(n, NewOp(n, key, value, deletion))
BY FreshOp DEF WriteRaises, Logs, gatewayVars

\* A write that raises keeps the state well typed.
LEMMA RaisesTypes ==
  ASSUME TypeOK, NEW n \in Node, NEW key \in Key, NEW value \in Value,
         NEW deletion \in BOOLEAN, WriteRaises(n, key, value, deletion)
  PROVE  TypeOK'
<1> DEFINE o == NewOp(n, key, value, deletion)
<1>1. /\ UNCHANGED <<now, certs, revoked, enrolled, receipts, sent>>
      /\ lamport' = [lamport EXCEPT ![n] = lamport[n] + 1]
      /\ UNCHANGED doc \/ Logs(n, o)
  BY RaisesLogs
<1> HIDE DEF o
<1> USE DEF TypeOK
<1>2. lamport' \in [Node -> Nat]
  BY <1>1
<1>3. DOMAIN doc' = Node /\ \A m \in Node : IsPartial(doc'[m], Op, Visible)
  <2>1. Logs(n, o) => IsPartial(AddOp(doc[n], o), Op, Visible)
    BY DEF Logs, AddOp, IsPartial, Visible
  <2> QED BY <1>1, <2>1 DEF Logs
<1> QED
  BY <1>1, <1>2, <1>3

\* No node is enrolled and every log is empty: the state is well typed.
LEMMA TypeInit == Init => TypeOK
BY DEF Init, TypeOK, IsPartial, EmptyDoc

\* Every step keeps the state well typed.
LEMMA TypeStep == TypeOK /\ [Next]_vars => TypeOK'
<1> SUFFICES ASSUME TypeOK, [Next]_vars PROVE TypeOK'
  OBVIOUS
<1>1. CASE Tick
  BY <1>1 DEF Tick, TypeOK, gatewayVars, nodeVars
<1>2. ASSUME NEW n \in Node, Enroll(n) \/ Revoke(n)
      PROVE  TypeOK'
  BY <1>2 DEF Enroll, Revoke, TypeOK, nodeVars
<1>3. ASSUME NEW n \in Node, NEW record \in sent, Deliver(n, record)
      PROVE  TypeOK'
  <2>1. record.op \in Op /\ record.receipt \in Receipt
    BY DEF TypeOK, Record
  <2> QED
    BY <1>3, <2>1, ApplyTypes DEF Deliver
<1>4. CASE UNCHANGED vars
  BY <1>4 DEF vars, gatewayVars, nodeVars, TypeOK
<1> QED
  BY <1>1, <1>2, <1>3, <1>4, WriteTypes, RaisesTypes DEF Next

\* Every document, ledger and record keeps its shape.
THEOREM TypeCorrect == Spec => []TypeOK
BY TypeInit, TypeStep, PTL DEF Spec

----------------------------------------------------------------------------
(* The clocks, the records and the evidence.                               *)

\* A node's Lamport clock is not behind any op it holds.
ClockInv == \A n \in Node : \A o \in DOMAIN doc[n] : o.lamport <= lamport[n]

\* A record carries its own author's receipt; the author is enrolled and holds the op.
SentInv ==
  \A record \in sent :
    /\ record.receipt.change = record.op
    /\ record.receipt.node = record.op.node
    /\ record.op.node \in certs
    /\ record.op \in DOMAIN doc[record.op.node]

\* An op that any node holds its author holds.
HoldInv == \A n \in Node : \A o \in DOMAIN doc[n] : o \in DOMAIN doc[o.node]

\* An author gives no two ops the same time.
StampInv ==
  \A n \in Node : \A o, p \in DOMAIN doc[n] :
    o.node = n /\ p.node = n /\ o.lamport = p.lamport => o = p

LogInv == ClockInv /\ HoldInv /\ StampInv

NodeInv == TypeOK /\ LogInv /\ SentInv /\ AuthorizedIsBacked

\* The logs keep their invariant when a node, its clock moved, logs an op of its own.
LEMMA OwnOpLogged ==
  ASSUME TypeOK, LogInv, NEW n \in Node, NEW o \in Op, o.node = n,
         o.lamport = lamport[n] + 1, lamport' = [lamport EXCEPT ![n] = lamport[n] + 1],
         DOMAIN doc'[n] = DOMAIN doc[n] \cup {o},
         \A m \in Node : m # n => doc'[m] = doc[m]
  PROVE  LogInv'
<1>1. lamport \in [Node -> Nat] /\ \A m \in Node : DOMAIN doc[m] \subseteq Op
  BY DEF TypeOK, IsPartial
<1>2. /\ lamport'[n] = lamport[n] + 1 /\ lamport[n] \in Nat
      /\ \A m \in Node : m # n => lamport'[m] = lamport[m]
  BY <1>1
<1>3. \A m \in Node : \A p \in DOMAIN doc[m] :
        p \in Op /\ p.lamport \in Nat /\ p.node \in Node /\ p.lamport <= lamport[m]
  BY <1>1 DEF LogInv, ClockInv, Op
<1>4. ClockInv'
  BY <1>2, <1>3 DEF ClockInv
<1>5. HoldInv'
  BY <1>3 DEF LogInv, HoldInv
<1>6. StampInv'
  BY <1>2, <1>3 DEF LogInv, StampInv
<1> QED
  BY <1>4, <1>5, <1>6 DEF LogInv

\* What a node's step on the op o with a receipt of its author does, whether it wrote
\* the op or received it.
Takes(n, o, receipt) ==
  /\ o \in Op
  /\ doc' = [doc EXCEPT ![n] = SetOpTrack(AddOp(@, o), o, Classify(n, o, receipt))]
  /\ receipts' = IF receipt = NoReceipt THEN receipts
                 ELSE [receipts EXCEPT ![n] = PutReceipt(@, o, receipt)]
  /\ receipt # NoReceipt => receipt.node = o.node
  /\ UNCHANGED <<now, gatewayVars>>

\* A write is its own node taking in the op it made, with its receipt.
LEMMA WriteTakes ==
  ASSUME TypeOK, NEW n \in Node, NEW key \in Key, NEW value \in Value,
         NEW deletion \in BOOLEAN, Write(n, key, value, deletion)
  PROVE  LET o == NewOp(n, key, value, deletion)
             receipt == [node |-> n, change |-> o, timestamp |-> now]
         IN  Takes(n, o, receipt)
<1> DEFINE o == NewOp(n, key, value, deletion)
           receipt == [node |-> n, change |-> o, timestamp |-> now]
<1>1. o \in Op /\ o.node = n
  BY FreshOp
<1>2. receipt \in Receipt
  BY <1>1 DEF TypeOK, Receipt
<1>3. receipt # NoReceipt
  BY <1>2, NoReceiptAssumption
<1> QED
  BY <1>1, <1>3 DEF Write, Takes

\* A delivery is a node taking in an op that was sent, with its receipt or without.
LEMMA ApplyTakes ==
  ASSUME NodeInv, NEW n \in Node, NEW record \in sent,
         NEW receipt \in {record.receipt, NoReceipt}, ApplyRemote(n, record.op, receipt)
  PROVE  Takes(n, record.op, receipt)
<1>1. record.op \in Op /\ record.receipt.node = record.op.node
  BY DEF NodeInv, TypeOK, Record, SentInv
<1> QED
  BY <1>1 DEF ApplyRemote, Takes

LEMMA DeliverTakes ==
  ASSUME NodeInv, NEW n \in Node, NEW record \in sent, Deliver(n, record)
  PROVE  \E receipt \in {record.receipt, NoReceipt} : Takes(n, record.op, receipt)
BY ApplyTakes DEF Deliver

\* An op is classified AUTHORIZED for the receipt of an enrolled, unrevoked signer.
LEMMA GateChecks ==
  ASSUME NEW n, NEW o, NEW receipt, Classify(n, o, receipt) = "AUTHORIZED"
  PROVE  /\ receipt # NoReceipt
         /\ n \in enrolled
         /\ receipt.node \in certs \ revoked
         /\ receipt.change = o
         /\ Distance(now, receipt.timestamp) <= ClockSkew
BY DEF Classify, ReceiptStatus, Registry, InWindow

\* Taking in an op, with whatever receipt, leaves the AUTHORIZED ops backed.
LEMMA TakesBacked ==
  ASSUME TypeOK, AuthorizedIsBacked, NEW n \in Node, NEW o, NEW receipt,
         Takes(n, o, receipt)
  PROVE  AuthorizedIsBacked'
<1> SUFFICES ASSUME NEW m \in Node, NEW p \in DOMAIN doc'[m], doc'[m][p] = "AUTHORIZED"
             PROVE  /\ m \in enrolled
                    /\ p \in DOMAIN receipts'[m]
                    /\ receipts'[m][p].change = p
                    /\ receipts'[m][p].node = p.node
                    /\ p.node \in certs
  BY DEF AuthorizedIsBacked, Takes, gatewayVars
<1> DEFINE taken == SetOpTrack(AddOp(doc[n], o), o, Classify(n, o, receipt))
<1>1. DOMAIN taken = DOMAIN doc[n] \cup {o} /\ taken[o] = Classify(n, o, receipt)
      /\ \A q \in DOMAIN doc[n] : q # o => taken[q] = doc[n][q]
  BY DEF SetOpTrack, AddOp
<1> HIDE DEF taken
<1>2. doc' = [doc EXCEPT ![n] = taken] /\ DOMAIN doc = Node /\ DOMAIN receipts = Node
  BY DEF Takes, taken, TypeOK
<1>3. CASE m = n /\ p = o
  <2>1. Classify(n, o, receipt) = "AUTHORIZED"
    BY <1>1, <1>2, <1>3
  <2>2. receipts' = [receipts EXCEPT ![n] = PutReceipt(receipts[n], o, receipt)]
    BY <2>1, GateChecks DEF Takes
  <2>3. p \in DOMAIN receipts'[m] /\ receipts'[m][p] = receipt
    BY <1>2, <1>3, <2>2 DEF PutReceipt
  <2> QED
    BY <1>3, <2>1, <2>3, GateChecks DEF Takes
<1>4. CASE ~ (m = n /\ p = o)
  <2>1. p \in DOMAIN doc[m] /\ doc[m][p] = "AUTHORIZED"
    BY <1>1, <1>2, <1>4
  <2>2. p \in DOMAIN receipts[m] /\ receipts[m][p].change = p
        /\ receipts[m][p].node = p.node /\ m \in enrolled /\ p.node \in certs
    BY <2>1 DEF AuthorizedIsBacked
  <2>3. p \in DOMAIN receipts'[m] /\ receipts'[m][p] = receipts[m][p]
    <3>1. CASE receipt = NoReceipt
      BY <2>2, <3>1 DEF Takes
    <3>2. CASE receipt # NoReceipt
      <4>1. receipts' = [receipts EXCEPT ![n] = PutReceipt(receipts[n], o, receipt)]
        BY <3>2 DEF Takes
      <4>2. CASE m = n
        BY <1>2, <1>4, <2>2, <4>1, <4>2 DEF PutReceipt
      <4>3. CASE m # n
        BY <1>2, <2>2, <4>1, <4>3
      <4> QED
        BY <4>2, <4>3
    <3> QED
      BY <3>1, <3>2
  <2> QED
    BY <2>2, <2>3
<1> QED
  BY <1>3, <1>4

\* The ops a step leaves in the documents.
LEMMA TakesDocs ==
  ASSUME TypeOK, NEW n \in Node, NEW o, NEW receipt, Takes(n, o, receipt)
  PROVE  /\ DOMAIN doc'[n] = DOMAIN doc[n] \cup {o}
         /\ \A m \in Node : m # n => doc'[m] = doc[m]
BY DEF Takes, TypeOK, SetOpTrack, AddOp

\* A write keeps the inductive invariant.
LEMMA WriteInv ==
  ASSUME NodeInv, NEW n \in Node, NEW key \in Key, NEW value \in Value,
         NEW deletion \in BOOLEAN, Write(n, key, value, deletion)
  PROVE  LogInv' /\ SentInv' /\ AuthorizedIsBacked'
<1> DEFINE o == NewOp(n, key, value, deletion)
           receipt == [node |-> n, change |-> o, timestamp |-> now]
<1>0. TypeOK
  BY DEF NodeInv
<1>1. /\ o \in Op /\ o.node = n /\ o.lamport = lamport[n] + 1
      /\ Ticked(n, 0) = lamport[n] + 1
  BY <1>0, FreshOp
<1>2. Takes(n, o, receipt)
  BY <1>0, WriteTakes
<1>3. /\ lamport' = [lamport EXCEPT ![n] = lamport[n] + 1]
      /\ sent' = sent \cup {[op |-> o, receipt |-> receipt]}
      /\ n \in certs /\ certs' = certs
  BY <1>0, <1>1 DEF Write, TypeOK, gatewayVars
<1>4. receipt.node = n /\ receipt.change = o
  OBVIOUS
<1> HIDE DEF o, receipt
<1>5. /\ DOMAIN doc'[n] = DOMAIN doc[n] \cup {o}
      /\ \A m \in Node : m # n => doc'[m] = doc[m]
  BY <1>0, <1>2, TakesDocs
<1>6. LogInv'
  BY <1>0, <1>1, <1>3, <1>5, OwnOpLogged DEF NodeInv
<1>7. SentInv'
  <2> SUFFICES ASSUME NEW record \in sent'
               PROVE  /\ record.receipt.change = record.op
                      /\ record.receipt.node = record.op.node
                      /\ record.op.node \in certs'
                      /\ record.op \in DOMAIN doc'[record.op.node]
    BY DEF SentInv
  <2>1. CASE record \in sent
    <3>1. record.op.node \in Node
      BY <1>0, <2>1 DEF TypeOK, Record, Op
    <3> QED
      BY <1>3, <1>5, <2>1, <3>1 DEF NodeInv, SentInv
  <2>2. CASE record = [op |-> o, receipt |-> receipt]
    BY <1>1, <1>3, <1>4, <1>5, <2>2
  <2> QED
    BY <1>3, <2>1, <2>2
<1> QED
  BY <1>0, <1>2, <1>6, <1>7, TakesBacked DEF NodeInv

\* A delivery keeps the inductive invariant.
LEMMA DeliverInv ==
  ASSUME NodeInv, NEW n \in Node, NEW record \in sent,
         NEW receipt \in {record.receipt, NoReceipt}, ApplyRemote(n, record.op, receipt)
  PROVE  LogInv' /\ SentInv' /\ AuthorizedIsBacked'
<1>0. TypeOK
  BY DEF NodeInv
<1>1. Takes(n, record.op, receipt)
  BY ApplyTakes
<1>2. /\ DOMAIN doc'[n] = DOMAIN doc[n] \cup {record.op}
      /\ \A m \in Node : m # n => doc'[m] = doc[m]
  BY <1>0, <1>1, TakesDocs
<1>3. record.op.lamport \in Nat /\ lamport \in [Node -> Nat]
  BY <1>0 DEF TypeOK, Record, Op
<1>4. /\ lamport' = [lamport EXCEPT ![n] = Ticked(n, record.op.lamport)]
      /\ UNCHANGED <<sent, certs>>
  BY DEF ApplyRemote, gatewayVars
<1>5. lamport'[n] > lamport[n] /\ lamport'[n] > record.op.lamport /\ lamport'[n] \in Nat
      /\ \A m \in Node : m # n => lamport'[m] = lamport[m]
  BY <1>3, <1>4 DEF Ticked
<1>6. LogInv'
  <2>1. \A m \in Node : \A p \in DOMAIN doc[m] :
          p.lamport <= lamport[m] /\ p.lamport \in Nat /\ p.node \in Node
    BY <1>0 DEF NodeInv, LogInv, ClockInv, TypeOK, IsPartial, Op
  <2>2. record.op.node \in Node /\ record.op \in DOMAIN doc[record.op.node]
    BY <1>0 DEF NodeInv, SentInv, TypeOK, Record, Op
  <2>3. ClockInv'
    BY <1>2, <1>3, <1>5, <2>1 DEF ClockInv
  <2>4. HoldInv'
    BY <1>2, <2>1, <2>2 DEF NodeInv, LogInv, HoldInv
  <2>5. StampInv'
    BY <1>2, <2>2 DEF NodeInv, LogInv, StampInv
  <2> QED BY <2>3, <2>4, <2>5 DEF LogInv
<1>7. SentInv'
  <2>1. \A r \in sent : r.op.node \in Node
    BY <1>0 DEF TypeOK, Record, Op
  <2> QED
    BY <1>2, <1>4, <2>1 DEF NodeInv, SentInv
<1> QED
  BY <1>0, <1>1, <1>6, <1>7, TakesBacked DEF NodeInv

\* A write that raises keeps the inductive invariant.
LEMMA RaisesInv ==
  ASSUME NodeInv, NEW n \in Node, NEW key \in Key, NEW value \in Value,
         NEW deletion \in BOOLEAN, WriteRaises(n, key, value, deletion)
  PROVE  NodeInv'
<1> DEFINE o == NewOp(n, key, value, deletion)
<1>1. TypeOK /\ LogInv /\ SentInv /\ AuthorizedIsBacked
  BY DEF NodeInv
<1>2. TypeOK'
  BY <1>1, RaisesTypes
<1>3. /\ UNCHANGED <<now, certs, revoked, enrolled, receipts, sent>>
      /\ lamport' = [lamport EXCEPT ![n] = lamport[n] + 1]
      /\ UNCHANGED doc \/ Logs(n, o)
  BY <1>1, RaisesLogs
<1> HIDE DEF o
<1>4. \A record \in sent : record.op.node \in Node
  BY <1>1 DEF TypeOK, Record, Op
<1>5. CASE UNCHANGED doc
  <2>1. lamport \in [Node -> Nat] /\ \A m \in Node : \A p \in DOMAIN doc[m] : p.lamport \in Nat
    BY <1>1 DEF TypeOK, IsPartial, Op
  <2>2. ClockInv'
    BY <1>1, <1>3, <1>5, <2>1 DEF LogInv, ClockInv
  <2> QED
    BY <1>1, <1>2, <1>3, <1>5, <2>2
       DEF NodeInv, LogInv, HoldInv, StampInv, SentInv, AuthorizedIsBacked
<1>6. CASE Logs(n, o)
  <2>1. /\ DOMAIN doc'[n] = DOMAIN doc[n] \cup {o}
        /\ \A p \in DOMAIN doc[n] : doc'[n][p] = doc[n][p]
        /\ o \notin DOMAIN doc[n] => doc'[n][o] = "OBSERVED"
        /\ \A m \in Node : m # n => doc'[m] = doc[m]
    BY <1>1, <1>6 DEF Logs, AddOp, TypeOK
  <2>2. LogInv'
    BY <1>1, <1>3, <1>6, <2>1, OwnOpLogged DEF Logs
  <2>3. SentInv'
    BY <1>1, <1>3, <1>4, <2>1 DEF SentInv
  <2>4. AuthorizedIsBacked'
    BY <1>1, <1>3, <2>1 DEF AuthorizedIsBacked
  <2> QED
    BY <1>2, <2>2, <2>3, <2>4 DEF NodeInv
<1> QED
  BY <1>3, <1>5, <1>6

\* The inductive invariant holds at first.
LEMMA NodeInit == Init => NodeInv
<1> SUFFICES ASSUME Init PROVE NodeInv
  OBVIOUS
<1> QED
  BY TypeInit DEF Init, NodeInv, LogInv, ClockInv, HoldInv, StampInv, SentInv,
                  AuthorizedIsBacked, EmptyDoc

\* Every step keeps the inductive invariant.
LEMMA NodeStep == NodeInv /\ [Next]_vars => NodeInv'
<1> SUFFICES ASSUME NodeInv, [Next]_vars PROVE NodeInv'
  OBVIOUS
<1>0. TypeOK'
  BY TypeStep DEF NodeInv
<1>1. CASE Tick \/ UNCHANGED vars
  BY <1>0, <1>1 DEF Tick, vars, gatewayVars, nodeVars, NodeInv, LogInv, ClockInv, HoldInv,
                    StampInv, SentInv, AuthorizedIsBacked
<1>2. ASSUME NEW n \in Node, Enroll(n) \/ Revoke(n)
      PROVE  NodeInv'
  BY <1>0, <1>2 DEF Enroll, Revoke, nodeVars, NodeInv, LogInv, ClockInv, HoldInv, StampInv,
                    SentInv, AuthorizedIsBacked
<1>3. ASSUME NEW n \in Node, NEW record \in sent, Deliver(n, record)
      PROVE  NodeInv'
  BY <1>0, <1>3, DeliverInv DEF Deliver, NodeInv
<1> QED
  BY <1>0, <1>1, <1>2, <1>3, WriteInv, RaisesInv DEF Next, NodeInv

\* Whatever reaches a node, and whenever, the ops it shows as AUTHORIZED have their
\* authors' receipts in its ledger.
THEOREM AuthorizedHasEvidence == Spec => []AuthorizedIsBacked
<1>1. NodeInv => AuthorizedIsBacked
  BY DEF NodeInv
<1> QED
  BY <1>1, NodeInit, NodeStep, PTL DEF Spec

\* No stale receipt, and none of an unknown or revoked signer, promotes an op.
THEOREM PromotionForCause == Spec => PromotionIsJustified
<1>1. NodeInv /\ [Next]_vars => [PromotedForCause]_vars
  <2> SUFFICES ASSUME NodeInv, [Next]_vars,
                      NEW m \in Node, NEW p \in DOMAIN doc'[m], doc'[m][p] = "AUTHORIZED",
                      p \in DOMAIN doc[m] => doc[m][p] # "AUTHORIZED"
               PROVE  /\ p.node \in certs \ revoked
                      /\ Distance(now, receipts'[m][p].timestamp) <= ClockSkew
    BY DEF PromotedForCause
  <2>0. TypeOK
    BY DEF NodeInv
  <2>1. ASSUME NEW n \in Node, NEW o, NEW receipt, Takes(n, o, receipt)
        PROVE  /\ p.node \in certs \ revoked
               /\ Distance(now, receipts'[m][p].timestamp) <= ClockSkew
    <3>1. m = n /\ p = o /\ Classify(n, o, receipt) = "AUTHORIZED"
      BY <2>0, <2>1 DEF Takes, TypeOK, SetOpTrack, AddOp
    <3>2. receipts' = [receipts EXCEPT ![n] = PutReceipt(receipts[n], o, receipt)]
          /\ receipt.node = o.node
      BY <2>1, <3>1, GateChecks DEF Takes
    <3>3. receipts'[m][p] = receipt
      BY <2>0, <3>1, <3>2 DEF PutReceipt, TypeOK
    <3> QED
      BY <3>1, <3>2, <3>3, GateChecks
  <2>2. doc' # doc
    OBVIOUS
  <2>3. CASE \E n \in Node, key \in Key, value \in Value, deletion \in BOOLEAN :
               Write(n, key, value, deletion)
    BY <2>0, <2>1, <2>3, WriteTakes
  <2>4. CASE \E n \in Node, record \in sent : Deliver(n, record)
    BY <2>1, <2>4, DeliverTakes
  <2>5. ASSUME NEW n \in Node, NEW key \in Key, NEW value \in Value,
               NEW deletion \in BOOLEAN, WriteRaises(n, key, value, deletion)
        PROVE  FALSE
    <3>1. Logs(n, NewOp(n, key, value, deletion))
      BY <2>0, <2>2, <2>5, RaisesLogs
    <3> QED BY <2>0, <3>1 DEF Logs, AddOp, TypeOK
  <2> QED
    BY <2>2, <2>3, <2>4, <2>5 DEF Next, Tick, Enroll, Revoke, vars, nodeVars
<1> QED
  BY <1>1, NodeInit, NodeStep, PTL DEF Spec, PromotionIsJustified

----------------------------------------------------------------------------
(* Refinement.                                                             *)

\* The op that a write makes is later than all its node holds.
LEMMA WritesAreLast ==
  ASSUME NodeInv, NEW n \in Node, NEW key \in Key, NEW value \in Value,
         NEW deletion \in BOOLEAN, NEW o, o = NewOp(n, key, value, deletion)
  PROVE  \A p \in DOMAIN doc[n] : p.lamport < o.lamport
<1>0. TypeOK
  BY DEF NodeInv
<1>1. o \in Op /\ o.node = n /\ o.lamport = lamport[n] + 1
  BY <1>0, FreshOp
<1>2. \A p \in DOMAIN doc[n] : p.lamport \in Nat /\ p.lamport <= lamport[n]
  BY DEF NodeInv, LogInv, TypeOK, ClockInv, IsPartial, Op
<1> QED
  BY <1>0, <1>1, <1>2 DEF TypeOK

\* A node that logs an op of its own writes it in the abstract map, whether the write
\* raises after that or not.
LEMMA LogRefines ==
  ASSUME NodeInv, NEW n \in Node, NEW o \in Op, o.node = n, o.lamport = lamport[n] + 1,
         DOMAIN doc'[n] = DOMAIN doc[n] \cup {o},
         \A m \in Node : m # n => doc'[m] = doc[m]
  PROVE  Abstract!Next
<1>1. TypeOK /\ LogInv
  BY DEF NodeInv
<1>2. \A p \in DOMAIN doc[n] : p.lamport < o.lamport
  <2>1. \A p \in DOMAIN doc[n] : p.lamport \in Nat /\ p.lamport <= lamport[n]
    BY <1>1 DEF LogInv, ClockInv, TypeOK, IsPartial, Op
  <2> QED BY <1>1, <2>1 DEF TypeOK
<1>3. o \notin Held
  <2> SUFFICES ASSUME NEW m \in Node, o \in DOMAIN doc[m] PROVE FALSE
    BY DEF Held
  <2>1. o \in DOMAIN doc[n] /\ o.lamport \in Nat
    BY <1>1 DEF LogInv, HoldInv, Op
  <2> QED BY <1>2, <2>1
<1>4. Held' = Held \cup {o}
  <2>1. \A m \in Node : DOMAIN doc'[m] = DOMAIN doc[m] \cup (IF m = n THEN {o} ELSE {})
    OBVIOUS
  <2>2. \A p : p \in Held' <=> \E m \in Node : p \in DOMAIN doc'[m]
    BY DEF Held
  <2>3. \A p : p \in Held <=> \E m \in Node : p \in DOMAIN doc[m]
    BY DEF Held
  <2> QED BY <2>1, <2>2, <2>3
<1>5. [m \in Node |-> DOMAIN doc'[m]]
        = [[m \in Node |-> DOMAIN doc[m]] EXCEPT ![n] = @ \cup {o}]
  OBVIOUS
<1>6. \A p \in [m \in Node |-> DOMAIN doc[m]][n] : Before(p, o)
  BY <1>2 DEF Before
<1>7. Abstract!Write(n, o)
  BY <1>3, <1>4, <1>5, <1>6 DEF Abstract!Write, Abstract!Before, Before
<1>8. o \in Held'
  BY <1>4
<1> QED
  BY <1>7, <1>8 DEF Abstract!Next

\* A write of a node is a write of the abstract map.
LEMMA WriteRefines ==
  ASSUME NodeInv, NEW n \in Node, NEW key \in Key, NEW value \in Value,
         NEW deletion \in BOOLEAN, Write(n, key, value, deletion)
  PROVE  Abstract!Next
<1> DEFINE o == NewOp(n, key, value, deletion)
<1>1. TypeOK
  BY DEF NodeInv
<1>2. o \in Op /\ o.node = n /\ o.lamport = lamport[n] + 1
  BY <1>1, FreshOp
<1>3. \E receipt : Takes(n, o, receipt)
  BY <1>1, WriteTakes
<1> HIDE DEF o
<1>4. DOMAIN doc'[n] = DOMAIN doc[n] \cup {o} /\ \A m \in Node : m # n => doc'[m] = doc[m]
  BY <1>1, <1>3, TakesDocs
<1> QED
  BY <1>2, <1>4, LogRefines

\* A write that raises is one too, unless it raises before its op is in the log.
LEMMA RaisesRefines ==
  ASSUME NodeInv, NEW n \in Node, NEW key \in Key, NEW value \in Value,
         NEW deletion \in BOOLEAN, WriteRaises(n, key, value, deletion)
  PROVE  [Abstract!Next]_Abstract!vars
<1> DEFINE o == NewOp(n, key, value, deletion)
<1>1. TypeOK
  BY DEF NodeInv
<1>2. UNCHANGED doc \/ Logs(n, o)
  BY <1>1, RaisesLogs
<1> HIDE DEF o
<1>3. CASE UNCHANGED doc
  BY <1>3 DEF Abstract!vars, Held
<1>4. CASE Logs(n, o)
  <2>1. /\ DOMAIN doc'[n] = DOMAIN doc[n] \cup {o}
        /\ \A m \in Node : m # n => doc'[m] = doc[m]
    BY <1>1, <1>4 DEF Logs, AddOp, TypeOK
  <2> QED BY <1>4, <2>1, LogRefines DEF Logs
<1> QED
  BY <1>2, <1>3, <1>4

\* A delivery is a replica of the abstract map learning an op.
LEMMA AppliedRefines ==
  ASSUME NodeInv, NEW n \in Node, NEW record \in sent,
         NEW receipt \in {record.receipt, NoReceipt}, ApplyRemote(n, record.op, receipt)
  PROVE  Abstract!Next
<1>0. TypeOK
  BY DEF NodeInv
<1>1. Takes(n, record.op, receipt)
  BY ApplyTakes
<1>2. [m \in Node |-> DOMAIN doc'[m]]
        = [[m \in Node |-> DOMAIN doc[m]] EXCEPT ![n] = @ \cup {record.op}]
  BY <1>0, <1>1, TakesDocs
<1>3. record.op \in Held
  BY <1>0 DEF NodeInv, SentInv, TypeOK, Record, Op, Held
<1>4. Held' = Held
  <2>1. \A m \in Node :
          DOMAIN doc'[m] = DOMAIN doc[m] \cup (IF m = n THEN {record.op} ELSE {})
    BY <1>0, <1>1, TakesDocs
  <2>2. \A p : p \in Held' <=> \E m \in Node : p \in DOMAIN doc'[m]
    BY DEF Held
  <2>3. \A p : p \in Held <=> \E m \in Node : p \in DOMAIN doc[m]
    BY DEF Held
  <2> QED BY <1>3, <2>1, <2>2, <2>3
<1>5. Abstract!Learn(n, record.op)
  BY <1>2, <1>3, <1>4 DEF Abstract!Learn
<1> QED
  BY <1>3, <1>4, <1>5 DEF Abstract!Next

\* Every behaviour of the nodes is one of a ConvergentMap, writes that raise included: no op
\* is dropped or made up, and each write is ordered after all its author had seen.
THEOREM NodesImplementConvergentMap == Spec => ImplementsConvergentMap
<1>1. Init => Abstract!Init
  BY DEF Init, Abstract!Init, EmptyDoc, Held
<1>2. NodeInv /\ [Next]_vars => [Abstract!Next]_Abstract!vars
  <2> SUFFICES ASSUME NodeInv, [Next]_vars
               PROVE  [Abstract!Next]_Abstract!vars
    OBVIOUS
  <2>1. CASE Tick \/ UNCHANGED vars \/ \E n \in Node : Enroll(n) \/ Revoke(n)
    BY <2>1 DEF Tick, vars, Enroll, Revoke, gatewayVars, nodeVars, Abstract!vars, Held
  <2> QED
    BY <2>1, WriteRefines, RaisesRefines, AppliedRefines DEF Next, Deliver
<1> QED
  BY <1>1, <1>2, NodeInit, NodeStep, PTL DEF Spec, ImplementsConvergentMap, Abstract!Spec

----------------------------------------------------------------------------
(* What a node reads after it has written.                                 *)

\* What a view shows of a key whose last op is this one.
ReadsBack(view, key, value, deletion) ==
  IF deletion THEN key \notin DOMAIN view ELSE key \in DOMAIN view /\ view[key] = value

\* The only last op of a key on the tracks looked at is what the view shows of the key.
LEMMA WinnerIsRead ==
  ASSUME NEW d, NEW tracks, NEW o \in Winners(d, tracks), o.deletion \in BOOLEAN,
         \A p \in Winners(d, tracks) : p.key = o.key => p = o
  PROVE  ReadsBack(Materialise(d, tracks), o.key, o.value, o.deletion)
<1> DEFINE Kept == {p \in Winners(d, tracks) : ~ p.deletion}
           view == Materialise(d, tracks)
<1>1. /\ DOMAIN view = {p.key : p \in Kept}
      /\ \A k \in DOMAIN view : view[k] = (CHOOSE p \in Kept : p.key = k).value
  BY DEF Materialise
<1> HIDE DEF view
<1>2. CASE o.deletion
  <2>1. \A p \in Kept : p.key # o.key
    BY <1>2
  <2> HIDE DEF Kept
  <2> QED BY <1>1, <1>2, <2>1 DEF ReadsBack, view
<1>3. CASE ~ o.deletion
  <2>1. o \in Kept /\ \A p \in Kept : p.key = o.key => p = o
    BY <1>3
  <2> HIDE DEF Kept
  <2>2. (CHOOSE p \in Kept : p.key = o.key) = o
    BY <2>1
  <2>3. o.key \in DOMAIN view /\ view[o.key] = o.value
    BY <1>1, <2>1, <2>2
  <2> QED BY <1>3, <2>3 DEF ReadsBack, view
<1> QED
  BY <1>2, <1>3

\* An op that is later than all others of a document, on one of the tracks looked at, is
\* what the view shows of its key.
LEMMA LastOpIsRead ==
  ASSUME NEW d, IsPartial(d, Op, Visible), NEW tracks,
         NEW o \in DOMAIN d, d[o] \in tracks, Hash(o) \in Nat,
         \A p \in DOMAIN d : p # o => p.lamport < o.lamport
  PROVE  ReadsBack(Materialise(d, tracks), o.key, o.value, o.deletion)
<1> DEFINE Live == {p \in DOMAIN d : d[p] \in tracks}
<1>1. \A p \in DOMAIN d : p.lamport \in Nat /\ p.node \in Nat /\ p.deletion \in BOOLEAN
  BY NodeAssumption DEF IsPartial, Op
<1>2. \A p \in Live : ~ Before(o, p)
  <2> TAKE p \in Live
  <2>1. CASE p = o
    BY <1>1, <2>1 DEF Before
  <2>2. CASE p # o
    <3>1. p.lamport < o.lamport
      BY <2>2
    <3> QED BY <1>1, <3>1 DEF Before
  <2> QED BY <2>1, <2>2
<1>3. o \in Winners(d, tracks)
  BY <1>2 DEF Winners
<1>4. \A p \in Winners(d, tracks) : p.key = o.key => p = o
  <2> SUFFICES ASSUME NEW p \in Winners(d, tracks), p.key = o.key, p # o PROVE FALSE
    OBVIOUS
  <2>1. p \in DOMAIN d /\ ~ Before(p, o)
    BY DEF Winners
  <2>2. p.lamport < o.lamport
    BY <2>1
  <2> QED BY <2>1, <2>2 DEF Before
<1> QED
  BY <1>1, <1>3, <1>4, WinnerIsRead

\* A node reads what it wrote: right after write() its OBSERVED view shows the value under
\* the key, or no value after a deletion, whatever it held and whoever wrote that; and so
\* does its AUTHORIZED view unless the node is revoked.  Op ids are digests, compared as
\* numbers are.
THEOREM WritesAreRead ==
  ASSUME \A o \in Op : Hash(o) \in Nat
  PROVE  Spec => [][\A n \in Node, key \in Key, value \in Value, deletion \in BOOLEAN :
                      Write(n, key, value, deletion) =>
                        /\ ReadsBack(ObservedView(doc'[n]), key, value, deletion)
                        /\ n \notin revoked =>
                             ReadsBack(AuthorizedView(doc'[n]), key, value, deletion)]_vars
<1> DEFINE Reads == \A n \in Node, key \in Key, value \in Value, deletion \in BOOLEAN :
                      Write(n, key, value, deletion) =>
                        /\ ReadsBack(ObservedView(doc'[n]), key, value, deletion)
                        /\ n \notin revoked =>
                             ReadsBack(AuthorizedView(doc'[n]), key, value, deletion)
<1>1. NodeInv /\ NodeInv' /\ [Next]_vars => [Reads]_vars
  <2> SUFFICES ASSUME NodeInv, NodeInv', NEW n \in Node, NEW key \in Key, NEW value \in Value,
                      NEW deletion \in BOOLEAN, Write(n, key, value, deletion)
               PROVE  /\ ReadsBack(ObservedView(doc'[n]), key, value, deletion)
                      /\ n \notin revoked =>
                           ReadsBack(AuthorizedView(doc'[n]), key, value, deletion)
    OBVIOUS
  <2>0. TypeOK /\ IsPartial(doc'[n], Op, Visible)
    BY DEF NodeInv, TypeOK
  <2>1. PICK o : o = NewOp(n, key, value, deletion)
    OBVIOUS
  <2>2. o \in Op /\ o.key = key /\ o.value = value /\ o.deletion = deletion /\ o.node = n
    BY <2>0, <2>1, FreshOp DEF NewOp
  <2>3. PICK receipt : receipt = [node |-> n, change |-> o, timestamp |-> now]
    OBVIOUS
  <2>4. Takes(n, o, receipt)
    BY <2>0, <2>1, <2>3, WriteTakes
  <2>5. /\ DOMAIN doc'[n] = DOMAIN doc[n] \cup {o}
        /\ doc'[n][o] = Classify(n, o, receipt)
    BY <2>0, <2>4, TakesDocs DEF Takes, TypeOK, SetOpTrack, AddOp
  <2>6. \A p \in DOMAIN doc'[n] : p # o => p.lamport < o.lamport
    BY <2>1, <2>5, WritesAreLast
  <2>7. ReadsBack(ObservedView(doc'[n]), key, value, deletion)
    <3>1. doc'[n][o] \in Visible
      BY <2>5, TwoTracks
    <3> QED BY <2>0, <2>2, <2>5, <2>6, <3>1, LastOpIsRead DEF ObservedView
  <2>8. ASSUME n \notin revoked
        PROVE  ReadsBack(AuthorizedView(doc'[n]), key, value, deletion)
    <3>1. n \in enrolled /\ n \in certs /\ now \in Nat
      BY <2>0 DEF Write, TypeOK
    <3>2. receipt \in Receipt
      BY <2>2, <2>3, <3>1 DEF Receipt
    <3>3. receipt # NoReceipt /\ receipt.node = n /\ receipt.change = o /\ receipt.timestamp = now
      BY <2>3, <3>2, NoReceiptAssumption
    <3>4. InWindow(receipt)
      BY <3>1, <3>3, ClockAssumption DEF InWindow, Distance
    <3>5. Classify(n, o, receipt) = "AUTHORIZED"
      BY <2>8, <3>1, <3>3, <3>4 DEF Classify, ReceiptStatus, Registry
    <3> QED BY <2>0, <2>2, <2>5, <2>6, <3>5, LastOpIsRead DEF AuthorizedView
  <2> QED BY <2>7, <2>8
<1> QED
  BY <1>1, NodeInit, NodeStep, PTL DEF Spec

----------------------------------------------------------------------------
(* The nodes under the harness.                                            *)

\* A gossip step delivers a record, with its receipt, that is not the node's own.
PendingInv ==
  pending \subseteq {d \in enrolled \X sent : d[2].op.node # d[1]}

\* An op has one record, stamped in the past.
RecordInv ==
  /\ \A r, s \in sent : r.op = s.op => r = s
  /\ \A r \in sent : r.receipt.timestamp <= now

\* Such a delivery takes the op in with the receipt of its record.
LEMMA GossipTakes ==
  ASSUME NodeInv, PendingInv, NEW d \in pending,
         ApplyRemote(d[1], d[2].op, d[2].receipt)
  PROVE  /\ d[1] \in Node /\ d[1] \in enrolled /\ d[2] \in sent /\ d[2].op.node # d[1]
         /\ d[2].receipt \in Receipt
         /\ Takes(d[1], d[2].op, d[2].receipt)
         /\ NodeInv'
<1>1. TypeOK
  BY DEF NodeInv
<1>2. d[1] \in Node /\ d[1] \in enrolled /\ d[2] \in sent /\ d[2].op.node # d[1]
  BY <1>1 DEF PendingInv, TypeOK
<1>3. d[2].op \in Op /\ d[2].receipt \in Receipt
  BY <1>1, <1>2 DEF TypeOK, Record
<1>4. Takes(d[1], d[2].op, d[2].receipt)
  BY <1>2, ApplyTakes
<1>5. TypeOK'
  BY <1>1, <1>2, <1>3, ApplyTypes
<1>6. LogInv' /\ SentInv' /\ AuthorizedIsBacked'
  BY <1>2, DeliverInv
<1> QED
  BY <1>2, <1>3, <1>4, <1>5, <1>6 DEF NodeInv

\* The clock runs at any time, all else but the gossip itself between the rounds.
LEMMA HarnessSteps ==
  ASSUME HarnessNext \/ UNCHANGED harnessVars
  PROVE  \/ Tick /\ UNCHANGED pending
         \/ /\ pending = {} /\ pending' = {}
            /\ \/ \E n \in Node : Enroll(n) \/ Revoke(n)
               \/ \E n \in Node, key \in Key, value \in Value :
                    Write(n, key, value, FALSE) \/ WriteRaises(n, key, value, FALSE)
         \/ Gossip
         \/ GossipStep
         \/ UNCHANGED harnessVars
BY DEF HarnessNext, AddNode, RevokeNode, WriteThrough, Call

\* The nodes keep their inductive invariant under the harness.
LEMMA HarnessKeepsNodes ==
  NodeInv /\ PendingInv /\ [HarnessNext]_harnessVars => NodeInv'
<1> SUFFICES ASSUME NodeInv, PendingInv, [HarnessNext]_harnessVars PROVE NodeInv'
  OBVIOUS
<1>1. CASE GossipStep
  BY <1>1, GossipTakes DEF GossipStep
<1>2. CASE ~ GossipStep
  <2>1. Next \/ UNCHANGED vars
    <3>1. CASE \E n \in Node, key \in Key, value \in Value :
                 Write(n, key, value, FALSE) \/ WriteRaises(n, key, value, FALSE)
      <4>1. \E n \in Node, key \in Key, value \in Value, deletion \in BOOLEAN :
              Write(n, key, value, deletion) \/ WriteRaises(n, key, value, deletion)
        BY <3>1
      <4> QED BY <4>1 DEF Next
    <3> QED
      BY <1>2, <3>1, HarnessSteps DEF Next, Gossip, harnessVars
  <2> QED BY <2>1, NodeStep
<1> QED
  BY <1>1, <1>2

----------------------------------------------------------------------------
(* The tracks.                                                             *)

\* A record that a delivery at this moment would put on the AUTHORIZED track.
Timely(r) == Distance(now, r.receipt.timestamp) <= ClockSkew /\ r.op.node \notin revoked

Shown(n, r) == r.op \in DOMAIN doc[n] /\ doc[n][r.op] = "AUTHORIZED"

\* While a record is timely its author shows it, for nothing but its write set its track
\* there; and so does every node to which the present round has delivered it.
OwnInv == \A r \in sent : Timely(r) => Shown(r.op.node, r)
Settled ==
  \A r \in sent, n \in enrolled :
    r.op.node # n /\ <<n, r>> \notin pending /\ Timely(r) => Shown(n, r)

HarnessInv ==
  /\ NodeInv /\ PendingInv /\ RecordInv /\ OwnInv
  /\ pending # {} => Settled

\* Records age and authors stay revoked: what is timely later is timely now.
LEMMA TimelyBefore ==
  ASSUME TypeOK, RecordInv, NEW r \in sent, now' \in Nat, now <= now',
         revoked \subseteq revoked', Timely(r)'
  PROVE  Timely(r)
<1>1. r.receipt.timestamp \in Nat /\ now \in Nat /\ r.receipt.timestamp <= now
  BY DEF TypeOK, RecordInv, Record, Receipt
<1> QED
  BY <1>1, ClockAssumption DEF Timely, Distance

\* Taking in an op sets its track and leaves the others.
LEMMA TakesTracks ==
  ASSUME TypeOK, NEW n \in Node, NEW o, NEW receipt, Takes(n, o, receipt)
  PROVE  /\ o \in DOMAIN doc'[n] /\ doc'[n][o] = Classify(n, o, receipt)
         /\ \A r : r.op # o /\ Shown(n, r) => Shown(n, r)'
         /\ \A m \in Node : \A r : m # n /\ Shown(m, r) => Shown(m, r)'
<1> DEFINE taken == SetOpTrack(AddOp(doc[n], o), o, Classify(n, o, receipt))
<1>1. DOMAIN taken = DOMAIN doc[n] \cup {o} /\ taken[o] = Classify(n, o, receipt)
      /\ \A q \in DOMAIN doc[n] : q # o => taken[q] = doc[n][q]
  BY DEF SetOpTrack, AddOp
<1>2. doc' = [doc EXCEPT ![n] = taken] /\ DOMAIN doc = Node
  BY DEF Takes, TypeOK
<1> HIDE DEF taken
<1> QED
  BY <1>1, <1>2 DEF Shown

\* A timely record with its receipt passes the gate of an enrolled node.
LEMMA TimelyPasses ==
  ASSUME TypeOK, NEW n \in enrolled, NEW r, Timely(r), r.receipt \in Receipt,
         r.receipt.change = r.op, r.receipt.node = r.op.node, r.op.node \in certs
  PROVE  Classify(n, r.op, r.receipt) = "AUTHORIZED"
<1>1. r.receipt # NoReceipt
  BY NoReceiptAssumption
<1> QED
  BY <1>1 DEF Classify, ReceiptStatus, Registry, InWindow, Timely

\* A step of the round puts the op it delivers on the track, if that is timely, and takes
\* none off.
LEMMA GossipSettles ==
  ASSUME NodeInv, PendingInv, RecordInv, OwnInv, Settled, GossipStep
  PROVE  PendingInv' /\ RecordInv' /\ OwnInv' /\ Settled'
<1>0. TypeOK
  BY DEF NodeInv
<1>1. PICK d \in pending :
        ApplyRemote(d[1], d[2].op, d[2].receipt) /\ pending' = pending \ {d}
  BY DEF GossipStep
<1> DEFINE n == d[1]
           r == d[2]
<1>2. /\ n \in Node /\ n \in enrolled /\ r \in sent /\ r.op.node # n /\ d = <<n, r>>
      /\ r.receipt \in Receipt /\ Takes(n, r.op, r.receipt)
  BY <1>1, GossipTakes DEF PendingInv
<1>3. UNCHANGED <<now, certs, revoked, enrolled, sent>>
  BY <1>1 DEF ApplyRemote, gatewayVars
<1>4. /\ \A q \in sent : q.op # r.op /\ Shown(n, q) => Shown(n, q)'
      /\ \A m \in Node : \A q : m # n /\ Shown(m, q) => Shown(m, q)'
      /\ r.op \in DOMAIN doc'[n] /\ doc'[n][r.op] = Classify(n, r.op, r.receipt)
  BY <1>0, <1>2, TakesTracks
<1> HIDE DEF n, r
<1>5. Timely(r) => Shown(n, r)'
  <2>1. r.receipt.change = r.op /\ r.receipt.node = r.op.node /\ r.op.node \in certs
    BY <1>2 DEF NodeInv, SentInv
  <2> QED BY <1>0, <1>2, <1>4, <2>1, TimelyPasses DEF Shown
<1>6. \A q \in sent : q.op = r.op => q = r
  BY <1>2 DEF RecordInv
<1>7. \A q \in sent : q.op.node \in Node /\ (Timely(q)' <=> Timely(q))
  BY <1>0, <1>3 DEF TypeOK, Record, Op, Timely, Distance
<1>8. PendingInv' /\ RecordInv'
  BY <1>1, <1>3 DEF PendingInv, RecordInv
<1>9. OwnInv'
  <2> SUFFICES ASSUME NEW q \in sent, Timely(q) PROVE Shown(q.op.node, q)'
    BY <1>3, <1>7 DEF OwnInv
  <2>1. Shown(q.op.node, q)
    BY DEF OwnInv
  <2>2. q.op.node = n => q.op # r.op
    BY <1>2
  <2> QED BY <1>4, <1>7, <2>1, <2>2
<1>10. Settled'
  <2> SUFFICES ASSUME NEW q \in sent, NEW m \in enrolled, q.op.node # m,
                      <<m, q>> \notin pending', Timely(q)
               PROVE  Shown(m, q)'
    BY <1>3, <1>7 DEF Settled
  <2>1. m \in Node
    BY <1>0 DEF TypeOK
  <2>2. CASE m = n /\ q = r
    BY <2>2, <1>5
  <2>3. CASE ~ (m = n /\ q = r)
    <3>1. <<m, q>> \notin pending
      BY <1>1, <1>2, <2>3
    <3>2. Shown(m, q)
      BY <3>1 DEF Settled
    <3>3. m = n => q.op # r.op
      BY <1>6, <2>3
    <3> QED BY <1>4, <2>1, <3>2, <3>3
  <2> QED BY <2>2, <2>3
<1> QED
  BY <1>8, <1>9, <1>10

\* A write adds one record, of an op nobody had, and its author shows it unless revoked.
LEMMA WriteRecords ==
  ASSUME NodeInv, RecordInv, OwnInv, NEW n \in Node, NEW key \in Key, NEW value \in Value,
         Write(n, key, value, FALSE)
  PROVE  RecordInv' /\ OwnInv'
<1>0. TypeOK
  BY DEF NodeInv
<1>1. PICK r : r = [op |-> NewOp(n, key, value, FALSE),
                    receipt |-> [node |-> n, change |-> NewOp(n, key, value, FALSE),
                                 timestamp |-> now]]
  OBVIOUS
<1> DEFINE o == r.op
           receipt == r.receipt
<1>2. o = NewOp(n, key, value, FALSE) /\ o \in Op /\ o.node = n /\ o.lamport = lamport[n] + 1
  BY <1>0, <1>1, FreshOp
<1>3. receipt \in Receipt /\ receipt.node = n /\ receipt.change = o /\ receipt.timestamp = now
  <2>1. receipt = [node |-> n, change |-> o, timestamp |-> now]
    BY <1>1, <1>2
  <2>2. now \in Nat
    BY <1>0 DEF TypeOK
  <2> HIDE DEF o, receipt
  <2> QED BY <1>2, <2>1, <2>2 DEF Receipt
<1>4. Takes(n, o, receipt)
  BY <1>0, <1>1, WriteTakes
<1>5. /\ sent' = sent \cup {r} /\ n \in enrolled /\ n \in certs
      /\ UNCHANGED <<now, certs, revoked, enrolled>>
  BY <1>0, <1>1 DEF Write, gatewayVars, TypeOK
<1>6. \A q \in sent : q.op # o
  <2> SUFFICES ASSUME NEW q \in sent, q.op = o PROVE FALSE
    OBVIOUS
  <2>1. o \in DOMAIN doc[n]
    BY <1>2 DEF NodeInv, SentInv
  <2>2. o.lamport <= lamport[n] /\ lamport[n] \in Nat
    BY <1>0, <2>1 DEF NodeInv, LogInv, ClockInv, TypeOK
  <2>3. ~ (lamport[n] + 1 <= lamport[n])
    BY <2>2
  <2>4. o.lamport = lamport[n] + 1
    BY <1>2
  <2> HIDE DEF o
  <2> QED BY <2>2, <2>3, <2>4
<1>7. RecordInv'
  <2>1. now \in Nat
    BY <1>0 DEF TypeOK
  <2> QED BY <1>3, <1>5, <1>6, <2>1 DEF RecordInv
<1>8. OwnInv'
  <2>1. \A q \in sent' : Timely(q)' <=> Timely(q)
    BY <1>5 DEF Timely, Distance
  <2>2. ASSUME NEW q \in sent, Timely(q) PROVE Shown(q.op.node, q)'
    <3>1. Shown(q.op.node, q) /\ q.op.node \in Node
      BY <1>0, <2>2 DEF OwnInv, TypeOK, Record, Op
    <3> QED BY <1>0, <1>4, <1>6, <3>1, TakesTracks
  <2>3. Timely(r) => Shown(r.op.node, r)'
    <3>1. Timely(r) => Classify(n, r.op, r.receipt) = "AUTHORIZED"
      BY <1>0, <1>2, <1>3, <1>5, TimelyPasses
    <3>2. r.op \in DOMAIN doc'[n] /\ doc'[n][r.op] = Classify(n, r.op, r.receipt)
      BY <1>0, <1>4, TakesTracks
    <3>3. r.op.node = n
      BY <1>2
    <3> QED BY <3>1, <3>2, <3>3 DEF Shown
  <2> QED BY <1>5, <2>1, <2>2, <2>3 DEF OwnInv
<1> QED
  BY <1>7, <1>8

\* A write that raises leaves the records, and what the nodes show of them, as they were.
LEMMA RaisesShows ==
  ASSUME NodeInv, NEW n \in Node, NEW key \in Key, NEW value \in Value,
         WriteRaises(n, key, value, FALSE)
  PROVE  /\ UNCHANGED <<now, certs, revoked, enrolled, sent>>
         /\ \A m \in Node : \A r : Shown(m, r) => Shown(m, r)'
<1> DEFINE o == NewOp(n, key, value, FALSE)
<1>1. TypeOK
  BY DEF NodeInv
<1>2. /\ UNCHANGED <<now, certs, revoked, enrolled, sent>>
      /\ UNCHANGED doc \/ Logs(n, o)
  BY <1>1, RaisesLogs
<1> HIDE DEF o
<1>3. CASE Logs(n, o)
  BY <1>1, <1>2, <1>3 DEF Logs, AddOp, Shown, TypeOK
<1>4. CASE UNCHANGED doc
  BY <1>2, <1>4 DEF Shown
<1> QED
  BY <1>2, <1>3, <1>4

\* Every step of the harness keeps the invariant.
LEMMA HarnessStep == HarnessInv /\ [HarnessNext]_harnessVars => HarnessInv'
<1> SUFFICES ASSUME HarnessInv, [HarnessNext]_harnessVars PROVE HarnessInv'
  OBVIOUS
<1>0. TypeOK /\ NodeInv /\ NodeInv' /\ PendingInv /\ RecordInv /\ OwnInv
  BY HarnessKeepsNodes DEF HarnessInv, NodeInv
<1>1. CASE GossipStep
  <2>1. pending # {}
    BY <1>1 DEF GossipStep
  <2> QED BY <1>0, <1>1, <2>1, GossipSettles DEF HarnessInv
<1>2. CASE Tick /\ UNCHANGED pending
  <2>1. /\ UNCHANGED <<certs, revoked, enrolled, doc, sent, pending>>
        /\ now' = now + 1 /\ now \in Nat
    BY <1>0, <1>2 DEF Tick, gatewayVars, nodeVars, TypeOK
  <2>2. \A r \in sent : Timely(r)' => Timely(r)
    BY <1>0, <2>1, TimelyBefore
  <2>3. \A n, r : Shown(n, r)' <=> Shown(n, r)
    BY <2>1 DEF Shown
  <2>4. RecordInv'
    <3>1. \A r \in sent : r.receipt.timestamp \in Nat
      BY <1>0 DEF TypeOK, Record, Receipt
    <3> QED BY <1>0, <2>1, <3>1 DEF RecordInv
  <2>5. PendingInv' /\ OwnInv'
    BY <1>0, <2>1, <2>2, <2>3 DEF PendingInv, OwnInv
  <2>6. pending' # {} => Settled'
    BY <2>1, <2>2, <2>3 DEF HarnessInv, Settled
  <2> QED BY <1>0, <2>4, <2>5, <2>6 DEF HarnessInv
<1>3. CASE /\ pending = {} /\ pending' = {}
           /\ \E n \in Node, key \in Key, value \in Value : Write(n, key, value, FALSE)
  BY <1>0, <1>3, WriteRecords DEF HarnessInv, PendingInv
<1>4. CASE pending = {} /\ pending' = {} /\ \E n \in Node : Enroll(n) \/ Revoke(n)
  <2>1. UNCHANGED <<now, doc, sent>> /\ revoked \subseteq revoked' /\ now \in Nat
    BY <1>0, <1>4 DEF Enroll, Revoke, nodeVars, TypeOK
  <2>2. \A r \in sent : Timely(r)' => Timely(r)
    BY <1>0, <2>1, TimelyBefore
  <2>3. RecordInv' /\ OwnInv'
    BY <1>0, <2>1, <2>2 DEF RecordInv, OwnInv, Shown
  <2> QED BY <1>0, <1>4, <2>3 DEF HarnessInv, PendingInv
<1>5. CASE Gossip
  <2>1. UNCHANGED vars /\ pending' = Deliveries
    BY <1>5 DEF Gossip
  <2>2. UNCHANGED <<now, certs, revoked, enrolled, doc, sent>>
    BY <2>1 DEF vars, gatewayVars, nodeVars
  <2>3. PendingInv' /\ RecordInv' /\ OwnInv'
    BY <1>0, <2>1, <2>2 DEF PendingInv, RecordInv, OwnInv, Timely, Distance, Shown, Deliveries
  <2>4. Settled'
    BY <2>1, <2>2 DEF Settled, Deliveries
  <2> QED BY <1>0, <2>3, <2>4 DEF HarnessInv
<1>6. CASE UNCHANGED harnessVars
  <2>1. UNCHANGED <<now, certs, revoked, enrolled, doc, sent, pending>>
    BY <1>6 DEF harnessVars, vars, gatewayVars, nodeVars
  <2>2. PendingInv' /\ RecordInv' /\ OwnInv'
    BY <1>0, <2>1 DEF PendingInv, RecordInv, OwnInv, Timely, Distance, Shown
  <2>3. pending' # {} => Settled'
    BY <2>1 DEF HarnessInv, Settled, Timely, Distance, Shown
  <2> QED BY <1>0, <2>2, <2>3 DEF HarnessInv
<1>7. CASE /\ pending = {} /\ pending' = {}
           /\ \E n \in Node, key \in Key, value \in Value : WriteRaises(n, key, value, FALSE)
  <2>1. /\ UNCHANGED <<now, certs, revoked, enrolled, sent>>
        /\ \A m \in Node : \A r : Shown(m, r) => Shown(m, r)'
    BY <1>0, <1>7, RaisesShows
  <2>2. \A r \in sent : r.op.node \in Node /\ (Timely(r)' => Timely(r))
    BY <1>0, <2>1 DEF TypeOK, Record, Op, Timely, Distance
  <2>3. RecordInv' /\ OwnInv'
    BY <1>0, <2>1, <2>2 DEF RecordInv, OwnInv
  <2> QED BY <1>0, <1>7, <2>3 DEF HarnessInv, PendingInv
<1> QED
  BY <1>1, <1>2, <1>3, <1>4, <1>5, <1>6, <1>7, HarnessSteps

\* At first there is no record and no round.
LEMMA HarnessStart == HarnessInit => HarnessInv
<1> SUFFICES ASSUME HarnessInit PROVE HarnessInv
  OBVIOUS
<1>1. NodeInv /\ sent = {} /\ pending = {}
  BY NodeInit DEF HarnessInit, Init
<1> QED
  BY <1>1 DEF HarnessInv, PendingInv, RecordInv, OwnInv

\* A round that ends while a record is timely leaves its op on the AUTHORIZED track of
\* every node, in whatever order and over however many nodes it ran.
THEOREM RoundLeavesAuthorized == HarnessSpec => RoundAuthorizes
<1> DEFINE Authorizes ==
             pending # {} /\ pending' = {} =>
               \A record \in sent :
                 /\ Distance(now, record.receipt.timestamp) <= ClockSkew
                 /\ record.op.node \notin revoked
                 => \A n \in enrolled : doc'[n][record.op] = "AUTHORIZED"
<1>1. HarnessInv /\ [HarnessNext]_harnessVars => [Authorizes]_harnessVars
  <2> SUFFICES ASSUME HarnessInv, [HarnessNext]_harnessVars, pending # {}, pending' = {},
                      NEW r \in sent, Timely(r), NEW n \in enrolled
               PROVE  doc'[n][r.op] = "AUTHORIZED"
    BY DEF Timely
  <2>1. GossipStep
    BY HarnessSteps DEF Gossip, harnessVars
  <2>2. OwnInv' /\ Settled'
    BY <2>1, GossipSettles DEF HarnessInv
  <2>3. UNCHANGED <<now, revoked, enrolled, sent>>
    BY <2>1 DEF GossipStep, ApplyRemote, gatewayVars
  <2>4. Timely(r)'
    BY <2>3 DEF Timely, Distance
  <2>5. Shown(n, r)'
    BY <2>2, <2>3, <2>4 DEF OwnInv, Settled
  <2> QED BY <2>5 DEF Shown
<1> QED
  BY <1>1, HarnessStart, HarnessStep, PTL DEF HarnessSpec, RoundAuthorizes

----------------------------------------------------------------------------
(* The ops.                                                                *)

\* What a node holds was sent, unless it is an op of a write of its own that raised, which
\* nothing took off the OBSERVED track; and in a round every node holds what the round does
\* not have to deliver to it any more.
UnsentInv ==
  \A n \in Node : \A o \in DOMAIN doc[n] :
    o \in Sent \/ (o.node = n /\ doc[n][o] = "OBSERVED")
Delivered ==
  \A r \in sent, n \in enrolled : <<n, r>> \notin pending => r.op \in DOMAIN doc[n]

HeldInv == NodeInv /\ PendingInv /\ UnsentInv /\ (pending # {} => Delivered)

\* A step of the round takes in what it delivers.
LEMMA GossipDelivers ==
  ASSUME HeldInv, GossipStep
  PROVE  /\ UnsentInv' /\ Delivered' /\ PendingInv'
         /\ TypeOK' /\ UNCHANGED <<enrolled, sent>>
<1>1. PICK d \in pending :
        ApplyRemote(d[1], d[2].op, d[2].receipt) /\ pending' = pending \ {d}
  BY DEF GossipStep
<1> DEFINE n == d[1]
           r == d[2]
<1>2. NodeInv /\ PendingInv /\ TypeOK /\ UnsentInv /\ Delivered
  BY <1>1 DEF HeldInv, NodeInv
<1>3. /\ n \in Node /\ n \in enrolled /\ r \in sent /\ d = <<n, r>>
      /\ Takes(n, r.op, r.receipt) /\ NodeInv'
  BY <1>1, <1>2, GossipTakes DEF PendingInv
<1>4. UNCHANGED <<enrolled, sent>> /\ enrolled \subseteq Node
  BY <1>1, <1>2 DEF ApplyRemote, gatewayVars, TypeOK
<1> HIDE DEF n, r
<1>5. /\ DOMAIN doc'[n] = DOMAIN doc[n] \cup {r.op}
      /\ \A m \in Node : m # n => doc'[m] = doc[m]
  BY <1>2, <1>3, TakesDocs
<1>6. UnsentInv'
  <2>1. r.op \in Sent /\ Sent' = Sent
    BY <1>3, <1>4 DEF Sent
  <2>2. \A o \in DOMAIN doc[n] : o # r.op => doc'[n][o] = doc[n][o]
    BY <1>2, <1>3 DEF Takes, TypeOK, SetOpTrack, AddOp
  <2> QED BY <1>2, <1>5, <2>1, <2>2 DEF UnsentInv
<1>7. Delivered'
  <2> SUFFICES ASSUME NEW q \in sent, NEW m \in enrolled, <<m, q>> \notin pending'
               PROVE  q.op \in DOMAIN doc'[m]
    BY <1>4 DEF Delivered
  <2>1. CASE m = n /\ q = r
    BY <1>5, <2>1
  <2>2. CASE ~ (m = n /\ q = r)
    <3>1. <<m, q>> \notin pending
      BY <1>1, <1>3, <2>2
    <3>2. q.op \in DOMAIN doc[m] /\ m \in Node
      BY <1>2, <1>4, <3>1 DEF Delivered
    <3> QED BY <1>5, <3>2
  <2> QED BY <2>1, <2>2
<1>8. PendingInv'
  BY <1>1, <1>2, <1>4 DEF PendingInv
<1> QED
  BY <1>3, <1>4, <1>6, <1>7, <1>8 DEF NodeInv

\* Every step of the harness keeps the invariant.
LEMMA HeldStep == HeldInv /\ [HarnessNext]_harnessVars => HeldInv'
<1> SUFFICES ASSUME HeldInv, [HarnessNext]_harnessVars PROVE HeldInv'
  OBVIOUS
<1>0. TypeOK /\ NodeInv /\ NodeInv' /\ PendingInv /\ UnsentInv
  BY HarnessKeepsNodes DEF HeldInv, NodeInv
<1>1. CASE GossipStep
  BY <1>0, <1>1, GossipDelivers DEF HeldInv
<1>2. CASE Tick /\ UNCHANGED pending
  <2>1. UNCHANGED <<enrolled, doc, sent, pending>>
    BY <1>2 DEF Tick, gatewayVars, nodeVars
  <2> QED BY <1>0, <2>1 DEF HeldInv, PendingInv, UnsentInv, Sent, Delivered
<1>3. ASSUME pending = {}, pending' = {}, NEW n \in Node, NEW key \in Key, NEW value \in Value,
             Write(n, key, value, FALSE)
      PROVE  HeldInv'
  <2>1. PICK r : r = [op |-> NewOp(n, key, value, FALSE),
                      receipt |-> [node |-> n, change |-> NewOp(n, key, value, FALSE),
                                   timestamp |-> now]]
    OBVIOUS
  <2>2. sent' = sent \cup {r} /\ Takes(n, r.op, r.receipt)
    BY <1>0, <1>3, <2>1, WriteTakes DEF Write
  <2>3. /\ DOMAIN doc'[n] = DOMAIN doc[n] \cup {r.op}
        /\ \A m \in Node : m # n => doc'[m] = doc[m]
    BY <1>0, <2>2, TakesDocs
  <2>4. UnsentInv'
    <3>1. r.op \in Sent' /\ Sent \subseteq Sent'
      BY <2>2 DEF Sent
    <3>2. \A o \in DOMAIN doc[n] : o # r.op => doc'[n][o] = doc[n][o]
      BY <1>0, <2>2 DEF Takes, TypeOK, SetOpTrack, AddOp
    <3> QED BY <1>0, <2>3, <3>1, <3>2 DEF UnsentInv
  <2> QED BY <1>0, <1>3, <2>4 DEF HeldInv, PendingInv
<1>4. CASE pending = {} /\ pending' = {} /\ \E n \in Node : Enroll(n) \/ Revoke(n)
  <2>1. UNCHANGED <<doc, sent>>
    BY <1>4 DEF Enroll, Revoke, nodeVars
  <2> QED BY <1>0, <1>4, <2>1 DEF HeldInv, PendingInv, UnsentInv, Sent
<1>5. CASE Gossip
  <2>1. UNCHANGED <<enrolled, doc, sent>> /\ pending' = Deliveries
    BY <1>5 DEF Gossip, vars, gatewayVars, nodeVars
  <2>2. Delivered'
    <3> SUFFICES ASSUME NEW r \in sent, NEW n \in enrolled, <<n, r>> \notin Deliveries
                 PROVE  r.op \in DOMAIN doc[n]
      BY <2>1 DEF Delivered
    <3>1. r.op.node = n
      BY DEF Deliveries
    <3> QED BY <1>0, <3>1 DEF NodeInv, SentInv
  <2> QED BY <1>0, <2>1, <2>2 DEF HeldInv, PendingInv, UnsentInv, Sent, Deliveries
<1>6. CASE UNCHANGED harnessVars
  <2>1. UNCHANGED <<enrolled, doc, sent, pending>>
    BY <1>6 DEF harnessVars, vars, gatewayVars, nodeVars
  <2> QED BY <1>0, <2>1 DEF HeldInv, PendingInv, UnsentInv, Sent, Delivered
<1>7. ASSUME pending = {}, pending' = {}, NEW n \in Node, NEW key \in Key, NEW value \in Value,
             WriteRaises(n, key, value, FALSE)
      PROVE  HeldInv'
  <2>1. PICK o : o = NewOp(n, key, value, FALSE)
    OBVIOUS
  <2>2. UNCHANGED sent /\ (UNCHANGED doc \/ Logs(n, o))
    BY <1>0, <1>7, <2>1, RaisesLogs
  <2>3. Sent' = Sent
    BY <2>2 DEF Sent
  <2>4. CASE UNCHANGED doc
    BY <1>0, <1>7, <2>3, <2>4 DEF HeldInv, PendingInv, UnsentInv
  <2>5. CASE Logs(n, o)
    <3>1. /\ o.node = n /\ DOMAIN doc'[n] = DOMAIN doc[n] \cup {o}
          /\ \A p \in DOMAIN doc[n] : doc'[n][p] = doc[n][p]
          /\ o \notin DOMAIN doc[n] => doc'[n][o] = "OBSERVED"
          /\ \A m \in Node : m # n => doc'[m] = doc[m]
      BY <1>0, <2>5 DEF Logs, AddOp, TypeOK
    <3>2. UnsentInv'
      BY <1>0, <2>3, <3>1 DEF UnsentInv
    <3> QED BY <1>0, <1>7, <3>2 DEF HeldInv, PendingInv
  <2> QED BY <2>2, <2>4, <2>5
<1> QED
  BY <1>1, <1>2, <1>3, <1>4, <1>5, <1>6, <1>7, HarnessSteps

LEMMA HeldStart == HarnessInit => HeldInv
<1> SUFFICES ASSUME HarnessInit PROVE HeldInv
  OBVIOUS
<1>1. NodeInv /\ pending = {} /\ \A n \in Node : doc[n] = EmptyDoc
  BY NodeInit DEF HarnessInit, Init
<1> QED
  BY <1>1 DEF HeldInv, PendingInv, UnsentInv, EmptyDoc

\* The last op of each key in a set of ops.
Lasts(ops) == {o \in ops : \A p \in ops : p.key = o.key => ~ Before(o, p)}

\* Documents with the same ops on the tracks looked at show the same on them.
LEMMA SameLiveSameView ==
  ASSUME NEW d, NEW S, NEW e, NEW T,
         {o \in DOMAIN d : d[o] \in S} = {o \in DOMAIN e : e[o] \in T}
  PROVE  Materialise(d, S) = Materialise(e, T)
<1>1. Winners(d, S) = Winners(e, T)
  BY DEF Winners
<1> QED
  BY <1>1 DEF Materialise

\* Documents with the same last op of a key, the only one, show the same of it.
LEMMA SameWinnerSameKey ==
  ASSUME NEW d, NEW S, NEW e, NEW T, NEW key,
         \A o : o.key = key => (o \in Winners(d, S) <=> o \in Winners(e, T)),
         \A o, p \in Winners(d, S) : o.key = key /\ p.key = key => o = p,
         \A o \in Winners(d, S) : o.deletion \in BOOLEAN
  PROVE  SameOf(Materialise(d, S), Materialise(e, T), key)
<1>1. CASE \E o \in Winners(d, S) : o.key = key
  <2>1. PICK o \in Winners(d, S) : o.key = key
    BY <1>1
  <2>2. o \in Winners(e, T) /\ o.deletion \in BOOLEAN
    BY <2>1
  <2>3. ReadsBack(Materialise(d, S), key, o.value, o.deletion)
    BY <2>1, <2>2, WinnerIsRead
  <2>4. ReadsBack(Materialise(e, T), key, o.value, o.deletion)
    BY <2>1, <2>2, WinnerIsRead
  <2> QED BY <2>3, <2>4 DEF ReadsBack, SameOf
<1>2. CASE \A o \in Winners(d, S) : o.key # key
  <2>1. \A o \in Winners(e, T) : o.key # key
    BY <1>2
  <2>2. key \notin DOMAIN Materialise(d, S) /\ key \notin DOMAIN Materialise(e, T)
    BY <1>2, <2>1 DEF Materialise
  <2> QED BY <2>2 DEF SameOf
<1> QED
  BY <1>1, <1>2

\* Of two ops of one author and one time there is but one.
LEMMA OneStampOneOp ==
  ASSUME NodeInv, NEW o \in Held, NEW p \in Held, o.node = p.node, o.lamport = p.lamport
  PROVE  o = p
<1>1. o.node \in Node /\ o \in DOMAIN doc[o.node] /\ p \in DOMAIN doc[p.node]
  BY DEF NodeInv, LogInv, HoldInv, Held, TypeOK, IsPartial, Op
<1> QED
  BY <1>1 DEF NodeInv, LogInv, StampInv

\* The order of the ops that the nodes hold is total and transitive.
LEMMA HeldOrder ==
  ASSUME NodeInv
  PROVE  /\ \A o, p \in Held : o # p => Before(o, p) \/ Before(p, o)
         /\ \A o, p, q \in Held :
              o # p /\ p # q /\ Before(o, p) /\ Before(p, q) => Before(o, q)
<1>1. \A o \in Held : o.lamport \in Nat /\ o.node \in Nat
  <2>1. \A o \in Held : o \in Op
    BY DEF NodeInv, TypeOK, Held, IsPartial
  <2> QED BY <2>1, NodeAssumption DEF Op
<1>2. \A o, p \in Held : o # p => o.node # p.node \/ o.lamport # p.lamport
  BY OneStampOneOp
<1>3. ASSUME NEW o \in Held, NEW p \in Held, o # p
      PROVE  Before(o, p) \/ Before(p, o)
  BY <1>1, <1>2, <1>3 DEF Before
<1>4. ASSUME NEW o \in Held, NEW p \in Held, NEW q \in Held, o # p, p # q,
             Before(o, p), Before(p, q)
      PROVE  Before(o, q)
  <2>1. o.lamport < p.lamport \/ (o.lamport = p.lamport /\ o.node < p.node)
    BY <1>2, <1>4 DEF Before
  <2>2. p.lamport < q.lamport \/ (p.lamport = q.lamport /\ p.node < q.node)
    BY <1>2, <1>4 DEF Before
  <2> QED BY <1>1, <2>1, <2>2 DEF Before
<1> QED
  BY <1>3, <1>4

\* An op that was sent is held, by its author at least.
LEMMA SentAreHeld == NodeInv => Sent \subseteq Held
BY DEF NodeInv, SentInv, TypeOK, Record, Op, Sent, Held

\* Unless a failed write left an op of the key that is later than all that were sent, the
\* last op of a key is the last that was sent, whatever other ops a node holds besides.
LEMMA LastIsLastSent ==
  ASSUME NodeInv, NEW ops, Sent \subseteq ops, ops \subseteq Held,
         NEW key \in Key \ Apart, NEW o, o.key = key
  PROVE  o \in Lasts(ops) <=> o \in Lasts(Sent)
<1>1. Sent \subseteq Held
  BY SentAreHeld
<1>2. ASSUME NEW p \in ops, p \notin Sent, p.key = key
      PROVE  \E q \in Sent : q.key = key /\ Before(p, q)
  BY <1>2 DEF Apart
<1>3. ASSUME o \in Lasts(ops)
      PROVE  o \in Lasts(Sent)
  <2>1. o \in Sent
    BY <1>2, <1>3 DEF Lasts
  <2> QED BY <1>3, <2>1 DEF Lasts
<1>4. ASSUME o \in Lasts(Sent)
      PROVE  o \in Lasts(ops)
  <2>1. o \in Sent /\ \A q \in Sent : q.key = key => ~ Before(o, q)
    BY <1>4 DEF Lasts
  <2>2. ASSUME NEW p \in ops, p.key = key, Before(o, p)
        PROVE  FALSE
    <3>1. p \notin Sent
      BY <2>1, <2>2
    <3>2. PICK q \in Sent : q.key = key /\ Before(p, q)
      BY <1>2, <2>2, <3>1
    <3>3. Before(o, q)
      BY <1>1, <2>1, <2>2, <3>1, <3>2, HeldOrder
    <3> QED BY <2>1, <3>2, <3>3
  <2> QED BY <2>1, <2>2 DEF Lasts
<1> QED
  BY <1>3, <1>4

\* Of a key one op at most is the last that was sent.
LEMMA OneLastSent ==
  ASSUME NodeInv, NEW o \in Lasts(Sent), NEW p \in Lasts(Sent), o.key = p.key
  PROVE  o = p
BY SentAreHeld, HeldOrder DEF Lasts

\* A document that holds every op sent, among ops that some node holds, has for last op of
\* a key the last that was sent.
LEMMA WinnerIsLastSent ==
  ASSUME HeldInv, NEW d, NEW tracks, NEW ops, ops = {o \in DOMAIN d : d[o] \in tracks},
         Sent \subseteq ops, ops \subseteq Held, NEW key \in Key \ Apart
  PROVE  /\ \A o : o.key = key => (o \in Winners(d, tracks) <=> o \in Lasts(Sent))
         /\ \A o, p \in Winners(d, tracks) : o.key = key /\ p.key = key => o = p
         /\ \A o \in Winners(d, tracks) : o.deletion \in BOOLEAN
<1>1. NodeInv
  BY DEF HeldInv
<1>2. Winners(d, tracks) = Lasts(ops)
  BY DEF Winners, Lasts
<1>3. \A o : o.key = key => (o \in Winners(d, tracks) <=> o \in Lasts(Sent))
  BY <1>1, <1>2, LastIsLastSent
<1>4. \A o, p \in Winners(d, tracks) : o.key = key /\ p.key = key => o = p
  BY <1>1, <1>3, OneLastSent
<1>5. \A o \in Winners(d, tracks) : o.deletion \in BOOLEAN
  BY <1>1, <1>2 DEF Lasts, Held, NodeInv, TypeOK, IsPartial, Op
<1> QED
  BY <1>3, <1>4, <1>5

AllDelivered == \A r \in sent, n \in enrolled : r.op \in DOMAIN doc[n]

\* Nodes that hold every op sent differ only on the keys that failed writes keep apart.
LEMMA DeliveredConverge ==
  HeldInv /\ AllDelivered =>
    ConvergedButFor(Apart) /\ (Held \subseteq Sent => Converged)
<1> SUFFICES ASSUME HeldInv, AllDelivered
             PROVE  ConvergedButFor(Apart) /\ (Held \subseteq Sent => Converged)
  OBVIOUS
<1>1. ASSUME NEW n \in enrolled
      PROVE  /\ {o \in DOMAIN doc[n] : doc[n][o] \in Visible} = DOMAIN doc[n]
             /\ Sent \subseteq DOMAIN doc[n] /\ DOMAIN doc[n] \subseteq Held
  <2>1. n \in Node /\ IsPartial(doc[n], Op, Visible)
    BY <1>1 DEF HeldInv, NodeInv, TypeOK
  <2> QED BY <1>1, <2>1 DEF IsPartial, AllDelivered, Sent, Held
<1>2. ASSUME NEW m \in enrolled, NEW n \in enrolled, NEW key \in Key \ Apart
      PROVE  SameOf(ObservedView(doc[m]), ObservedView(doc[n]), key)
  <2>1. ASSUME NEW l \in enrolled
        PROVE  /\ \A o : o.key = key => (o \in Winners(doc[l], Visible) <=> o \in Lasts(Sent))
               /\ \A o, p \in Winners(doc[l], Visible) : o.key = key /\ p.key = key => o = p
               /\ \A o \in Winners(doc[l], Visible) : o.deletion \in BOOLEAN
    <3>1. PICK tracks, d : tracks = Visible /\ d = doc[l]
      OBVIOUS
    <3>2. PICK ops : ops = {o \in DOMAIN d : d[o] \in tracks}
      OBVIOUS
    <3>3. Sent \subseteq ops /\ ops \subseteq Held
      BY <1>1, <2>1, <3>1, <3>2
    <3>4. /\ \A o : o.key = key => (o \in Winners(d, tracks) <=> o \in Lasts(Sent))
          /\ \A o, p \in Winners(d, tracks) : o.key = key /\ p.key = key => o = p
          /\ \A o \in Winners(d, tracks) : o.deletion \in BOOLEAN
      BY <1>2, <3>2, <3>3, WinnerIsLastSent
    <3> QED BY <3>1, <3>4
  <2> QED BY <2>1, SameWinnerSameKey DEF ObservedView
<1>3. ASSUME Held \subseteq Sent, NEW m \in enrolled, NEW n \in enrolled
      PROVE  ObservedView(doc[m]) = ObservedView(doc[n])
  <2>1. DOMAIN doc[m] = DOMAIN doc[n]
    BY <1>1, <1>3
  <2> QED BY <1>1, <2>1, SameLiveSameView DEF ObservedView
<1> QED
  BY <1>2, <1>3 DEF ConvergedButFor, Converged

\* The delivery that ends a round leaves nothing undelivered.
LEMMA RoundEndDelivers ==
  HeldInv /\ [HarnessNext]_harnessVars
    => [pending # {} /\ pending' = {} => AllDelivered']_harnessVars
<1> SUFFICES ASSUME HeldInv, [HarnessNext]_harnessVars, pending # {}, pending' = {}
             PROVE  AllDelivered'
  OBVIOUS
<1>1. GossipStep
  BY HarnessSteps DEF Gossip, harnessVars
<1>2. Delivered' /\ UNCHANGED <<enrolled, sent>>
  BY <1>1, GossipDelivers
<1> QED
  BY <1>2 DEF Delivered, AllDelivered

\* The safety half of RoundConverges, for any nodes, writes and rounds: the delivery that
\* ends a round of gossip leaves the nodes with the same OBSERVED value of every key but
\* those that failed writes keep apart, and with the same OBSERVED state if none of the
\* ops that the nodes hold is of a failed write.
THEOREM RoundsEndConverged ==
  HarnessSpec =>
    [][pending # {} /\ pending' = {} =>
         (ConvergedButFor(Apart) /\ (Held \subseteq Sent => Converged))']_harnessVars
BY DeliveredConverge, RoundEndDelivers, HeldStart, HeldStep, PTL DEF HarnessSpec

\* The harness is a network of nodes like any other: what its nodes hold is a
\* ConvergentMap too, and an op they show as AUTHORIZED has its evidence on file.
THEOREM HarnessIsConvergent == HarnessSpec => ImplementsConvergentMap /\ []AuthorizedIsBacked
<1>1. HarnessInit => Abstract!Init
  BY DEF HarnessInit, Init, Abstract!Init, EmptyDoc, Held
<1>2. HeldInv /\ [HarnessNext]_harnessVars => [Abstract!Next]_Abstract!vars
  <2> SUFFICES ASSUME HeldInv, [HarnessNext]_harnessVars
               PROVE  [Abstract!Next]_Abstract!vars
    OBVIOUS
  <2>0. NodeInv /\ PendingInv
    BY DEF HeldInv
  <2>1. CASE GossipStep
    <3>1. PICK d \in pending : ApplyRemote(d[1], d[2].op, d[2].receipt)
      BY <2>1 DEF GossipStep
    <3>2. d[1] \in Node /\ d[2] \in sent /\ ApplyRemote(d[1], d[2].op, d[2].receipt)
      BY <2>0, <3>1, GossipTakes
    <3> QED BY <2>0, <3>2, AppliedRefines
  <2>2. CASE (Tick /\ UNCHANGED pending) \/ Gossip \/ UNCHANGED harnessVars
    BY <2>2 DEF Tick, Gossip, harnessVars, vars, nodeVars, Abstract!vars, Held
  <2>3. CASE \E n \in Node : Enroll(n) \/ Revoke(n)
    BY <2>3 DEF Enroll, Revoke, nodeVars, Abstract!vars, Held
  <2>4. CASE \E n \in Node, key \in Key, value \in Value :
               Write(n, key, value, FALSE) \/ WriteRaises(n, key, value, FALSE)
    BY <2>0, <2>4, WriteRefines, RaisesRefines
  <2> QED BY <2>1, <2>2, <2>3, <2>4, HarnessSteps
<1>3. HeldInv => AuthorizedIsBacked
  BY DEF HeldInv, NodeInv
<1> QED
  BY <1>1, <1>2, <1>3, HeldStart, HeldStep, PTL
     DEF HarnessSpec, ImplementsConvergentMap, Abstract!Spec

AllShown == \A r \in sent, n \in enrolled : Shown(n, r)

\* Nodes that show every op sent as AUTHORIZED show the same on that track, and on both
\* tracks the same of every key but those that failed writes keep apart.
LEMMA ShownAgree ==
  HeldInv /\ AllShown =>
    \A m, n \in enrolled :
      /\ AuthorizedView(doc[m]) = AuthorizedView(doc[n])
      /\ \A key \in Key \ Apart :
           SameOf(AuthorizedView(doc[m]), ObservedView(doc[n]), key)
<1> SUFFICES ASSUME HeldInv, AllShown PROVE
      \A m, n \in enrolled :
        /\ AuthorizedView(doc[m]) = AuthorizedView(doc[n])
        /\ \A key \in Key \ Apart :
             SameOf(AuthorizedView(doc[m]), ObservedView(doc[n]), key)
  OBVIOUS
<1> DEFINE Trusted(n) == {o \in DOMAIN doc[n] : doc[n][o] \in {"AUTHORIZED"}}
           Seen(n) == {o \in DOMAIN doc[n] : doc[n][o] \in Visible}
<1>1. ASSUME NEW n \in enrolled
      PROVE  Trusted(n) = Sent /\ Sent \subseteq Seen(n) /\ Seen(n) \subseteq Held
  <2>1. n \in Node
    BY <1>1 DEF HeldInv, NodeInv, TypeOK
  <2>2. \A o \in Sent : o \in DOMAIN doc[n] /\ doc[n][o] = "AUTHORIZED"
    BY <1>1 DEF AllShown, Shown, Sent
  <2>3. \A o \in DOMAIN doc[n] : doc[n][o] = "AUTHORIZED" => o \in Sent
    BY <2>1 DEF HeldInv, UnsentInv
  <2> QED BY <2>1, <2>2, <2>3 DEF Visible, Held
<1>2. Sent \subseteq Held
  BY SentAreHeld DEF HeldInv
<1>3. ASSUME NEW m \in enrolled, NEW n \in enrolled
      PROVE  AuthorizedView(doc[m]) = AuthorizedView(doc[n])
  BY <1>1, <1>3, SameLiveSameView DEF AuthorizedView
<1>4. ASSUME NEW m \in enrolled, NEW n \in enrolled, NEW key \in Key \ Apart
      PROVE  SameOf(AuthorizedView(doc[m]), ObservedView(doc[n]), key)
  <2>1. PICK ops : ops = Trusted(m)
    OBVIOUS
  <2>2. /\ \A o : o.key = key =>
               (o \in Winners(doc[m], {"AUTHORIZED"}) <=> o \in Lasts(Sent))
        /\ \A o, p \in Winners(doc[m], {"AUTHORIZED"}) : o.key = key /\ p.key = key => o = p
        /\ \A o \in Winners(doc[m], {"AUTHORIZED"}) : o.deletion \in BOOLEAN
    BY <1>1, <1>2, <1>4, <2>1, WinnerIsLastSent
  <2>3. PICK tracks, d : tracks = Visible /\ d = doc[n]
    OBVIOUS
  <2>4. \A o : o.key = key => (o \in Winners(doc[n], Visible) <=> o \in Lasts(Sent))
    <3>1. PICK all : all = {o \in DOMAIN d : d[o] \in tracks}
      OBVIOUS
    <3>2. Sent \subseteq all /\ all \subseteq Held
      BY <1>1, <1>4, <2>3, <3>1
    <3>3. \A o : o.key = key => (o \in Winners(d, tracks) <=> o \in Lasts(Sent))
      BY <1>4, <3>1, <3>2, WinnerIsLastSent
    <3> QED BY <2>3, <3>3
  <2> QED BY <2>2, <2>4, SameWinnerSameKey DEF AuthorizedView, ObservedView
<1> QED
  BY <1>3, <1>4

\* tests/test_runtime.py, which asks converged() of both tracks after a round, under the
\* condition that makes it true of the AUTHORIZED one: when a round ends while every record
\* is within ClockSkew and no author of one is revoked, the nodes show the same on that
\* track, and it is what they show on both, but for the keys that failed writes keep apart.
THEOREM RoundsEndAuthorized ==
  HarnessSpec =>
    [][pending # {} /\ pending' = {} /\ (\A r \in sent : Timely(r)) =>
         (\A m, n \in enrolled :
            /\ AuthorizedView(doc[m]) = AuthorizedView(doc[n])
            /\ \A key \in Key \ Apart :
                 SameOf(AuthorizedView(doc[m]), ObservedView(doc[n]), key))']_harnessVars
<1>1. HeldInv /\ HarnessInv /\ [HarnessNext]_harnessVars
        => [pending # {} /\ pending' = {} /\ (\A r \in sent : Timely(r)) =>
              AllShown']_harnessVars
  <2> SUFFICES ASSUME HeldInv, HarnessInv, [HarnessNext]_harnessVars,
                      pending # {}, pending' = {}, \A r \in sent : Timely(r)
               PROVE  AllShown'
    OBVIOUS
  <2>1. GossipStep
    BY HarnessSteps DEF Gossip, harnessVars
  <2>2. UNCHANGED <<enrolled, sent, now, revoked>>
    BY <2>1 DEF GossipStep, ApplyRemote, gatewayVars
  <2>3. OwnInv' /\ Settled'
    BY <2>1, GossipSettles DEF HarnessInv
  <2>4. \A r \in sent' : Timely(r)'
    BY <2>2 DEF Timely, Distance
  <2> QED BY <2>3, <2>4 DEF OwnInv, Settled, AllShown
<1> QED
  BY <1>1, ShownAgree, HeldStart, HeldStep, HarnessStart, HarnessStep, PTL DEF HarnessSpec
=============================================================================
