----------------------- MODULE MeshCoordinator_proofs -----------------------
(***************************************************************************)
(* TLAPS proofs about MeshCoordinator, for any sets of nodes, requests and *)
(* threads, any timeouts and any seeded pick.                              *)
(***************************************************************************)
EXTENDS MeshCoordinator, Recursion, SequenceTheorems

----------------------------------------------------------------------------
(* The least-connections pick.                                             *)

\* Least-connections picks one of the candidates it is given.
LEMMA PickIsCandidate ==
  ASSUME TypeOK, NEW r \in Request, NEW candidates \in SUBSET Node, candidates # {}
  PROVE  LeastConnections(r, candidates) \in candidates
<1> DEFINE counts == {active[n] : n \in candidates}
           tied == {n \in candidates : \A m \in candidates : active[n] <= active[m]}
<1>1. counts \in SUBSET Nat /\ counts # {}
  BY DEF TypeOK
<1>2. PICK least \in counts : \A k \in counts : least <= k
  <2> HIDE DEF counts
  <2> QED BY <1>1, LeastNatural
<1>3. tied # {}
  BY <1>2
<1>4. F1Pick(r, tied) \in tied
  BY <1>3, PickAssumption
<1> QED
  BY <1>4 DEF LeastConnections

----------------------------------------------------------------------------
(* Type correctness.  A receipt has a type only because a thread inside    *)
(* dispatch() holds a real request, so the two are proved together.        *)

ThreadInv ==
  \A t \in Thread :
    /\ pc[t] # "idle" => job[t] \in Request
    /\ pc[t] \in {"count", "receipt", "credit"} => sel[t] \in Node

TypeInv == TypeOK /\ ThreadInv

\* Nothing has joined and no thread is in dispatch(): the state is well typed.
LEMMA TypeInit == Init => TypeInv
BY TimeAssumption DEF Init, TypeInv, TypeOK, ThreadInv, Tile, NoTile, Status, InDispatch, Never

\* Marking a tile leaves it a tile.
LEMMA TileMarks ==
  ASSUME NEW a \in Tile, NEW status \in Status, NEW time \in Nat
  PROVE  /\ [a EXCEPT !.status = status] \in Tile
         /\ [a EXCEPT !.last_seen = time, !.status = status] \in Tile
BY DEF Tile

\* A token issued has an expiry.
LEMMA TokenType ==
  ASSUME TypeOK, NEW n \in Node, IssueToken(n, TokenTTL) \/ IssueToken(n, SelfTokenTTL)
  PROVE  tokenUntil' \in [Node -> Nat \cup {Never}]
<1>1. /\ tokenUntil \in [Node -> Nat \cup {Never}] /\ now \in Nat
      /\ now + TokenTTL \in Nat /\ now + SelfTokenTTL \in Nat
  BY TimeAssumption DEF TypeOK
<1>2. CASE IssueToken(n, TokenTTL)
  BY <1>1, <1>2 DEF IssueToken
<1>3. CASE IssueToken(n, SelfTokenTTL)
  BY <1>1, <1>3 DEF IssueToken
<1> QED BY <1>2, <1>3

\* Joins, tokens, heartbeats, revocations and completions keep it well typed.
LEMMA TypeMembership ==
  ASSUME TypeInv, NEW n \in Node, Membership(n)
  PROVE  TypeInv'
<1>0. TypeOK /\ ThreadInv
  BY DEF TypeInv
<1>1. CASE JoinNode(n)
  <2>1. FreshTile \in Tile
    BY <1>0, TimeAssumption DEF TypeOK, FreshTile, Tile, Status
  <2>2. tile' \in [Node -> Tile] /\ active' \in [Node -> Nat]
    BY <1>0, <1>1, <2>1 DEF TypeOK, JoinNode
  <2>3. tokenUntil' \in [Node -> Nat \cup {Never}]
    BY <1>0, <1>1, TokenType DEF JoinNode
  <2> QED BY <1>0, <1>1, <2>2, <2>3 DEF TypeInv, TypeOK, ThreadInv, JoinNode, threadVars, controlVars
<1>7. CASE IssueSelfToken(n)
  <2>1. tokenUntil' \in [Node -> Nat \cup {Never}]
    BY <1>0, <1>7, TokenType DEF IssueSelfToken
  <2> QED BY <1>0, <1>7, <2>1 DEF TypeInv, TypeOK, ThreadInv, IssueSelfToken, threadVars, controlVars
<1>2. CASE HeartbeatVerify(n)
  BY <1>0, <1>2 DEF TypeInv, TypeOK, ThreadInv, HeartbeatVerify, threadVars
<1>3. CASE HeartbeatApply(n)
  <2>1. tile' \in {tile, [tile EXCEPT ![n] = [@ EXCEPT !.last_seen = now, !.status = "UP"]]}
    BY <1>3 DEF HeartbeatApply
  <2>2. [tile[n] EXCEPT !.last_seen = now, !.status = "UP"] \in Tile
    BY <1>0, TileMarks DEF TypeOK, Status
  <2>3. tile' \in [Node -> Tile]
    BY <1>0, <2>1, <2>2 DEF TypeOK
  <2> QED BY <1>0, <1>3, <2>3 DEF TypeInv, TypeOK, ThreadInv, HeartbeatApply, threadVars
<1>4. CASE RevokeToken(n)
  BY <1>0, <1>4 DEF TypeInv, TypeOK, ThreadInv, RevokeToken, threadVars
<1>5. CASE RevokeMarkDown(n)
  <2>1. tile' \in {tile, [tile EXCEPT ![n] = [@ EXCEPT !.status = "DOWN"]]}
    BY <1>5 DEF RevokeMarkDown
  <2>2. [tile[n] EXCEPT !.status = "DOWN"] \in Tile
    BY <1>0, TileMarks DEF TypeOK, Status
  <2>3. tile' \in [Node -> Tile]
    BY <1>0, <2>1, <2>2 DEF TypeOK
  <2> QED BY <1>0, <1>5, <2>3 DEF TypeInv, TypeOK, ThreadInv, RevokeMarkDown, threadVars
<1>6. CASE JobComplete(n)
  <2>1. active' \in [Node -> Nat] /\ running' \in [Node -> Nat]
    BY <1>0, <1>6 DEF TypeOK, JobComplete
  <2> QED BY <1>0, <1>6, <2>1 DEF TypeInv, TypeOK, ThreadInv, JobComplete, threadVars, controlVars
<1> QED
  BY <1>1, <1>2, <1>3, <1>4, <1>5, <1>6, <1>7 DEF Membership

\* Counting a job or crediting a contribution leaves a tile a tile.
LEMMA TileCounters ==
  ASSUME NEW x \in Tile
  PROVE  /\ [x EXCEPT !.total_jobs = @ + 1] \in Tile
         /\ [x EXCEPT !.contribution = @ + 1] \in Tile
BY DEF Tile

\* So do the lock regions of a dispatch, which need the selected node to be a node.
LEMMA TypeDispatch ==
  ASSUME TypeInv, NEW t \in Thread, DispatchStep(t)
  PROVE  TypeInv'
<1> USE DEF TypeInv, TypeOK, ThreadInv, Tile, InDispatch, threadVars, controlVars
<1>1. CASE DispatchSelect(t)
  <2>1. job[t] \in Request /\ UpNodes \in SUBSET Node /\ UpNodes # {}
    BY <1>1 DEF DispatchSelect, UpNodes
  <2>2. LeastConnections(job[t], UpNodes) \in UpNodes
    <3> USE DEF TypeInv
    <3> HIDE DEF TypeOK, ThreadInv
    <3> QED BY <2>1, PickIsCandidate
  <2> QED
    BY <1>1, <2>1, <2>2 DEF DispatchSelect
<1>2. CASE DispatchDegrade(t)
  BY <1>2 DEF DispatchDegrade, Return
<1>3. CASE DispatchCount(t)
  <2>1. sel[t] \in Node /\ tile[sel[t]] \in Tile /\ active[sel[t]] \in Nat
    BY <1>3 DEF DispatchCount
  <2>2. [tile[sel[t]] EXCEPT !.total_jobs = @ + 1] \in Tile
    <3> HIDE DEF Tile
    <3> QED BY <2>1, TileCounters
  <2>3. tile' \in [Node -> Tile]
    <3> HIDE DEF Tile
    <3> QED BY <1>3, <2>2 DEF DispatchCount
  <2>4. active' \in [Node -> Nat]
    BY <1>3, <2>1 DEF DispatchCount
  <2> QED
    BY <1>3, <2>3, <2>4 DEF DispatchCount
<1>4. CASE DispatchReceipt(t)
  <2>1. [job_id |-> job[t], admitted |-> admitted[t]] \in Receipt
    BY <1>4 DEF DispatchReceipt, Receipt
  <2>2. ledger' \in Seq(Receipt)
    BY <1>4, <2>1, AppendProperties DEF DispatchReceipt
  <2> QED
    BY <1>4, <2>2 DEF DispatchReceipt
<1>5. CASE DispatchCredit(t)
  <2>1. sel[t] \in Node /\ tile[sel[t]] \in Tile /\ running[sel[t]] \in Nat
    BY <1>5 DEF DispatchCredit
  <2>2. [tile[sel[t]] EXCEPT !.contribution = @ + 1] \in Tile
    <3> HIDE DEF Tile
    <3> QED BY <2>1, TileCounters
  <2>3. tile' \in [Node -> Tile]
    <3> HIDE DEF Tile
    <3> QED BY <1>5, <2>2 DEF DispatchCredit
  <2>4. running' \in [Node -> Nat]
    BY <1>5, <2>1 DEF DispatchCredit
  <2> QED
    BY <1>5, <2>3, <2>4 DEF DispatchCredit, Return
<1> QED
  BY <1>1, <1>2, <1>3, <1>4, <1>5 DEF DispatchStep

\* What the relay holds after a lookup is again a time or nothing for each id.
LEMMA RelayType ==
  ASSUME TypeOK, NEW r \in Request
  PROVE  RelayAfter(r) \in [Request -> Nat \cup {Never}]
BY DEF TypeOK, RelayAfter, Unexpired

\* Hence every step of the coordinator does.
LEMMA TypeStep == TypeInv /\ [Next]_vars => TypeInv'
<1> SUFFICES ASSUME TypeInv, [Next]_vars PROVE TypeInv'
  OBVIOUS
<1>1. CASE Tick
  BY <1>1 DEF Tick, TypeInv, TypeOK, ThreadInv, threadVars, controlVars
<1>2. CASE EvictReadClock
  BY <1>2 DEF EvictReadClock, TypeInv, TypeOK, ThreadInv, threadVars, controlVars
<1>3. CASE EvictStaleTiles
  <2>1. ASSUME NEW n \in Node PROVE [tile[n] EXCEPT !.status = "DOWN"] \in Tile
    BY TileMarks DEF TypeInv, TypeOK, Status
  <2>2. tile' \in [Node -> Tile]
    BY <1>3, <2>1 DEF EvictStaleTiles, TypeInv, TypeOK
  <2> QED BY <1>3, <2>2 DEF EvictStaleTiles, TypeInv, TypeOK, ThreadInv, threadVars
<1>4. CASE \E n \in Node : Membership(n)
  BY <1>4, TypeMembership
<1>5. CASE \E t \in Thread : DispatchStep(t)
  BY <1>5, TypeDispatch
<1>6. ASSUME NEW t \in Thread, NEW r \in Request, DispatchAdmit(t, r)
      PROVE  TypeInv'
  <2>1. seen' \in [Request -> Nat \cup {Never}]
    BY <1>6, RelayType DEF DispatchAdmit, TypeInv
  <2> QED
    BY <1>6, <2>1 DEF DispatchAdmit, TypeInv, TypeOK, ThreadInv, InDispatch, controlVars
<1>7. ASSUME NEW t \in Thread, NEW r \in Request, NEW passed \in BOOLEAN,
             DispatchRefuse(t, r, passed)
      PROVE  TypeInv'
  <2>1. seen' \in [Request -> Nat \cup {Never}]
    BY <1>7, RelayType DEF DispatchRefuse, TypeInv
  <2> QED
    BY <1>7, <2>1 DEF DispatchRefuse, TypeInv, TypeOK, ThreadInv, threadVars, controlVars
<1>8. CASE UNCHANGED vars
  BY <1>8 DEF vars, TypeInv, TypeOK, ThreadInv, threadVars, controlVars
<1> QED
  BY <1>1, <1>2, <1>3, <1>4, <1>5, <1>6, <1>7, <1>8 DEF Next

\* Every reachable state is well typed: in particular a connection count never goes
\* below zero, and every receipt names a request.
THEOREM TypeCorrect == Spec => []TypeOK
<1>1. TypeInv => TypeOK
  BY DEF TypeInv
<1> QED
  BY <1>1, TypeInit, TypeStep, PTL DEF Spec
----------------------------------------------------------------------------
(* dispatch() never looks up a tile that is not there.                     *)

\* Once a node has a tile it keeps one: joins replace it and nothing removes it.
LEMMA TilesStay ==
  ASSUME TypeInv, [Next]_vars, NEW n \in Node, tile[n].status # "ABSENT"
  PROVE  tile'[n].status # "ABSENT"
<1> USE DEF TypeInv, TypeOK, ThreadInv, Tile, threadVars
<1>1. CASE Tick
  BY <1>1 DEF Tick
<1>2. CASE EvictReadClock
  BY <1>2 DEF EvictReadClock
<1>7. CASE EvictStaleTiles
  <2>1. tile'[n] = IF Stale(n) THEN [tile[n] EXCEPT !.status = "DOWN"] ELSE tile[n]
    BY <1>7 DEF EvictStaleTiles
  <2> QED BY <2>1
<1>3. ASSUME NEW m \in Node, Membership(m)
      PROVE  tile'[n].status # "ABSENT"
  <2>1. CASE JoinNode(m)
    BY <2>1 DEF JoinNode, FreshTile
  <2>2. CASE HeartbeatApply(m)
    BY <2>2 DEF HeartbeatApply
  <2>3. CASE RevokeMarkDown(m)
    BY <2>3 DEF RevokeMarkDown
  <2>4. CASE IssueSelfToken(m) \/ HeartbeatVerify(m) \/ RevokeToken(m) \/ JobComplete(m)
    BY <2>4 DEF IssueSelfToken, HeartbeatVerify, RevokeToken, JobComplete
  <2> QED
    BY <1>3, <2>1, <2>2, <2>3, <2>4 DEF Membership
<1>4. ASSUME NEW t \in Thread, DispatchStep(t)
      PROVE  tile'[n].status # "ABSENT"
  <2>1. CASE DispatchSelect(t) \/ DispatchDegrade(t) \/ DispatchReceipt(t)
    BY <2>1 DEF DispatchSelect, DispatchDegrade, DispatchReceipt
  <2>2. CASE DispatchCount(t)
    BY <2>2 DEF DispatchCount
  <2>3. CASE DispatchCredit(t)
    BY <2>3 DEF DispatchCredit
  <2> QED
    BY <1>4, <2>1, <2>2, <2>3 DEF DispatchStep
<1>5. CASE \E t \in Thread, r \in Request :
             DispatchAdmit(t, r) \/ \E passed \in BOOLEAN : DispatchRefuse(t, r, passed)
  BY <1>5 DEF DispatchAdmit, DispatchRefuse
<1>6. CASE UNCHANGED vars
  BY <1>6 DEF vars
<1> QED
  BY <1>1, <1>2, <1>3, <1>4, <1>5, <1>6, <1>7 DEF Next

\* A node is selected among those with a tile, and tiles stay: the selection stays good.
LEMMA SelectedStep ==
  TypeInv /\ SelectedTileExists /\ [Next]_vars => SelectedTileExists'
<1> SUFFICES ASSUME TypeInv, SelectedTileExists, [Next]_vars,
                    NEW t \in Thread, (pc[t] \in {"count", "receipt", "credit"})'
             PROVE  sel'[t] \in Node /\ tile'[sel'[t]].status # "ABSENT"
  BY DEF SelectedTileExists
<1>1. CASE pc[t] \in {"count", "receipt", "credit"} /\ sel'[t] = sel[t]
  BY <1>1, TilesStay DEF SelectedTileExists
<1>2. CASE DispatchSelect(t)
  <2>1. job[t] \in Request /\ UpNodes \in SUBSET Node /\ UpNodes # {}
    BY <1>2 DEF DispatchSelect, UpNodes, TypeInv, ThreadInv
  <2>2. LeastConnections(job[t], UpNodes) \in UpNodes
    BY <2>1, PickIsCandidate DEF TypeInv
  <2>3. sel'[t] = LeastConnections(job[t], UpNodes) /\ tile' = tile
    BY <1>2 DEF DispatchSelect, TypeInv, TypeOK
  <2> QED
    BY <2>2, <2>3 DEF UpNodes
<1>3. (pc[t] \in {"count", "receipt", "credit"} /\ sel'[t] = sel[t]) \/ DispatchSelect(t)
  <2> USE DEF TypeInv, TypeOK, threadVars
  <2>1. CASE Tick \/ EvictReadClock \/ EvictStaleTiles \/ UNCHANGED vars
    BY <2>1 DEF Tick, EvictReadClock, EvictStaleTiles, vars
  <2>2. CASE \E n \in Node : Membership(n)
    BY <2>2 DEF Membership, JoinNode, IssueSelfToken, HeartbeatVerify, HeartbeatApply, RevokeToken,
                RevokeMarkDown, JobComplete
  <2>3. ASSUME NEW u \in Thread, DispatchStep(u)
        PROVE  (pc[t] \in {"count", "receipt", "credit"} /\ sel'[t] = sel[t])
                 \/ DispatchSelect(t)
    <3>1. CASE DispatchSelect(u)
      BY <3>1 DEF DispatchSelect
    <3>2. CASE DispatchDegrade(u) \/ DispatchCredit(u)
      BY <3>2 DEF DispatchDegrade, DispatchCredit, Return
    <3>3. CASE DispatchCount(u) \/ DispatchReceipt(u)
      BY <3>3 DEF DispatchCount, DispatchReceipt
    <3> QED
      BY <2>3, <3>1, <3>2, <3>3 DEF DispatchStep
  <2>4. CASE \E u \in Thread, r \in Request :
               DispatchAdmit(u, r) \/ \E passed \in BOOLEAN : DispatchRefuse(u, r, passed)
    BY <2>4 DEF DispatchAdmit, DispatchRefuse
  <2> QED
    BY <2>1, <2>2, <2>3, <2>4 DEF Next
<1> QED
  BY <1>1, <1>2, <1>3

\* The two unlocked look-ups of self._tiles[node_id] in dispatch() always succeed.
THEOREM SelectedTileIsThere == Spec => []SelectedTileExists
<1>1. Init => SelectedTileExists
  BY DEF Init, SelectedTileExists
<1> QED
  BY <1>1, TypeInit, TypeStep, SelectedStep, PTL DEF Spec
----------------------------------------------------------------------------
(* F7: at most one admission of a request id per TTL.  The strengthening   *)
(* says what the relay remembers: it forgets an id only when every         *)
(* admission of it, receipted or still on its way, is out of the TTL.      *)

\* The relay holds an admission of r at time a, unless a is out of the TTL.
Remembered(r, a) ==
  /\ a <= now
  /\ now > a + RelayTTL \/ (seen[r] # Never /\ a <= seen[r])

RelayInv ==
  /\ \A i \in DOMAIN ledger : Remembered(ledger[i].job_id, ledger[i].admitted)
  /\ \A t \in Thread : pc[t] # "idle" => Remembered(job[t], admitted[t])

F7Inv == RelayInv /\ AtMostOncePerTTL

\* A step that only advances the clock or prunes and extends the relay forgets nothing.
LEMMA StillRemembered ==
  ASSUME TypeOK, NEW r \in Request, NEW a \in Nat, Remembered(r, a), now' \in Nat,
         \/ now' >= now /\ seen' = seen
         \/ now' = now /\ \E q \in Request : seen' = RelayAfter(q)
  PROVE  Remembered(r, a)'
<1> USE TimeAssumption DEF TypeOK, Remembered, Never
<1>1. CASE now' >= now /\ seen' = seen
  BY <1>1
<1>2. ASSUME now' = now, NEW q \in Request, seen' = RelayAfter(q)
      PROVE  Remembered(r, a)'
  <2>1. Unexpired[r] = IF seen[r] # Never /\ now - seen[r] > RelayTTL
                      THEN Never ELSE seen[r]
    BY DEF Unexpired
  <2>2. seen'[r] = Unexpired[r] \/ seen'[r] = now
    BY <1>2 DEF RelayAfter, Unexpired
  <2>3. seen[r] \in Nat \cup {Never} /\ now \in Nat
    OBVIOUS
  <2> QED
    BY <1>2, <2>1, <2>2, <2>3
<1> QED
  BY <1>1, <1>2

\* An id the relay does not hold has no admission within the TTL.
LEMMA NotDuplicate ==
  ASSUME TypeOK, NEW r \in Request, NEW a \in Nat, Remembered(r, a), ~IsDuplicate(r)
  PROVE  Apart(now, a)
BY TimeAssumption DEF TypeOK, Remembered, IsDuplicate, Unexpired, Apart, Never

\* What DispatchAdmit records is remembered.
LEMMA AdmittedRemembered ==
  ASSUME TypeOK, NEW r \in Request, ~IsDuplicate(r), seen' = RelayAfter(r), now' = now
  PROVE  Remembered(r, now)'
BY DEF TypeOK, RelayAfter, Unexpired, Remembered, Never

\* Nothing is admitted and nothing is remembered.
LEMMA F7Init == Init => F7Inv
BY DEF Init, F7Inv, RelayInv, AtMostOncePerTTL

\* Time advances, or the relay is looked up, or neither moves.
RelayMoves ==
  /\ now' \in Nat
  /\ \/ now' >= now /\ seen' = seen
     \/ now' = now /\ \E q \in Request : seen' = RelayAfter(q)

\* The threads in dispatch() were there before with the same request, at most as far
\* from their receipt.
NoNewAdmission ==
  /\ ledger' = ledger
  /\ \A t \in Thread : pc'[t] # "idle" =>
       /\ pc[t] # "idle" /\ job'[t] = job[t] /\ admitted'[t] = admitted[t]
       /\ pc[t] = "credit" => pc'[t] = "credit"

\* The fields of a receipt, for any index of the ledger.
LEMMA ReceiptFields ==
  ASSUME TypeOK, NEW i \in DOMAIN ledger
  PROVE  ledger[i].job_id \in Request /\ ledger[i].admitted \in Nat
<1>1. ledger[i] \in Receipt
  BY ElementOfSeq, i \in 1..Len(ledger) DEF TypeOK
<1> QED
  BY <1>1 DEF Receipt

\* A step that admits nothing and writes no receipt keeps the admissions apart.
LEMMA F7Quiet ==
  ASSUME TypeInv, TypeInv', F7Inv, RelayMoves, NoNewAdmission
  PROVE  F7Inv'
<1> USE DEF F7Inv, TypeInv
<1>1. RelayInv'
  <2>1. ASSUME NEW i \in DOMAIN ledger
        PROVE  Remembered(ledger[i].job_id, ledger[i].admitted)'
    <3>1. ledger[i].job_id \in Request /\ ledger[i].admitted \in Nat
      BY <2>1, ReceiptFields
    <3>2. PICK r \in Request, a \in Nat : r = ledger[i].job_id /\ a = ledger[i].admitted
      BY <3>1
    <3>3. Remembered(r, a)
      BY <3>2 DEF RelayInv
    <3>4. Remembered(r, a)'
      BY <3>3, StillRemembered DEF RelayMoves
    <3> QED
      BY <3>2, <3>4 DEF NoNewAdmission, Remembered
  <2>2. ASSUME NEW t \in Thread, pc'[t] # "idle"
        PROVE  Remembered(job[t], admitted[t])'
    <3>1. pc[t] # "idle" /\ job'[t] = job[t] /\ admitted'[t] = admitted[t]
      BY <2>2 DEF NoNewAdmission
    <3>2. job[t] \in Request /\ admitted[t] \in Nat /\ Remembered(job[t], admitted[t])
      BY <3>1 DEF TypeOK, ThreadInv, RelayInv
    <3> QED
      BY <3>1, <3>2, StillRemembered DEF RelayMoves, Remembered
  <2> QED
    BY <2>1, <2>2 DEF RelayInv, NoNewAdmission
<1>2. AtMostOncePerTTL'
  <2>0. /\ AtMostOncePerTTL /\ ledger' = ledger
        /\ \A t \in Thread : pc'[t] # "idle" =>
             /\ pc[t] # "idle" /\ job'[t] = job[t] /\ admitted'[t] = admitted[t]
    BY DEF NoNewAdmission
  <2>1. ASSUME NEW i \in DOMAIN ledger', NEW j \in DOMAIN ledger',
               i < j, ledger'[i].job_id = ledger'[j].job_id
        PROVE  Apart(ledger'[i].admitted, ledger'[j].admitted)
    BY <2>0, <2>1 DEF AtMostOncePerTTL
  <2>2. ASSUME NEW t \in Thread, NEW u \in Thread, t # u,
               pc'[t] # "idle", pc'[u] # "idle", job'[t] = job'[u]
        PROVE  Apart(admitted'[t], admitted'[u])
    BY <2>0, <2>2 DEF AtMostOncePerTTL
  <2> QED BY <2>0, <2>1, <2>2 DEF AtMostOncePerTTL, NoNewAdmission, TypeOK, InDispatch
<1> QED
  BY <1>1, <1>2

\* A new admission is apart from every earlier one: the relay would have held the id.
LEMMA F7Admit ==
  ASSUME TypeInv, TypeInv', F7Inv, NEW u \in Thread, NEW q \in Request, DispatchAdmit(u, q)
  PROVE  F7Inv'
<1> USE DEF F7Inv, TypeInv
<1>1. /\ ~IsDuplicate(q) /\ seen' = RelayAfter(q) /\ now' = now /\ ledger' = ledger
      /\ pc[u] = "idle" /\ pc' = [pc EXCEPT ![u] = "select"]
      /\ job'[u] = q /\ admitted'[u] = now
      /\ \A t \in Thread \ {u} :
           pc'[t] = pc[t] /\ job'[t] = job[t] /\ admitted'[t] = admitted[t]
  BY DEF DispatchAdmit, TypeOK
<1>2. RelayMoves
  BY <1>1 DEF RelayMoves, TypeOK
\* The new admission is out of the TTL of every earlier one of its id.
<1>3. ASSUME NEW i \in DOMAIN ledger, ledger[i].job_id = q
      PROVE  Apart(now, ledger[i].admitted)
  BY <1>1, <1>3, ReceiptFields, NotDuplicate DEF RelayInv
<1>4. ASSUME NEW t \in Thread, pc[t] # "idle", job[t] = q
      PROVE  Apart(now, admitted[t])
  BY <1>1, <1>4, NotDuplicate DEF RelayInv, TypeOK
<1>5. RelayInv'
  <2>1. ASSUME NEW i \in DOMAIN ledger
        PROVE  Remembered(ledger[i].job_id, ledger[i].admitted)'
    <3>1. PICK r \in Request, a \in Nat : r = ledger[i].job_id /\ a = ledger[i].admitted
      BY <2>1, ReceiptFields
    <3>2. Remembered(r, a)
      BY <3>1 DEF RelayInv
    <3>3. Remembered(r, a)'
      BY <1>2, <3>2, StillRemembered DEF RelayMoves
    <3> QED
      BY <1>1, <3>1, <3>3 DEF Remembered
  <2>2. ASSUME NEW t \in Thread \ {u}, pc'[t] # "idle"
        PROVE  Remembered(job[t], admitted[t])'
    <3>1. PICK r \in Request, a \in Nat : r = job[t] /\ a = admitted[t]
      BY <1>1, <2>2 DEF TypeOK, ThreadInv
    <3>2. Remembered(r, a)
      BY <1>1, <2>2, <3>1 DEF RelayInv
    <3>3. Remembered(r, a)'
      BY <1>2, <3>2, StillRemembered DEF RelayMoves
    <3> QED
      BY <1>1, <3>1, <3>3 DEF Remembered
  <2>3. Remembered(job[u], admitted[u])'
    BY <1>1, AdmittedRemembered DEF Remembered
  <2> QED
    BY <1>1, <2>1, <2>2, <2>3 DEF RelayInv
<1>6. AtMostOncePerTTL'
  <2>1. ASSUME NEW t \in Thread, NEW v \in Thread, t # v,
               pc'[t] # "idle", pc'[v] # "idle", job'[t] = job'[v]
        PROVE  Apart(admitted[t], admitted[v])'
    BY <1>1, <1>4, <2>1 DEF AtMostOncePerTTL, Apart
  <2>2. ASSUME NEW i \in DOMAIN ledger, NEW t \in Thread,
               pc'[t] \in InDispatch \ {"credit"}, job'[t] = ledger[i].job_id
        PROVE  Apart(admitted[t], ledger[i].admitted)'
    BY <1>1, <1>3, <2>2 DEF AtMostOncePerTTL, Apart
  <2> QED
    BY <1>1, <2>1, <2>2 DEF AtMostOncePerTTL, Apart
<1> QED
  BY <1>5, <1>6

\* Writing a receipt moves an admission from its thread to the ledger.
LEMMA F7Receipt ==
  ASSUME TypeInv, TypeInv', F7Inv, NEW u \in Thread, DispatchReceipt(u)
  PROVE  F7Inv'
<1> USE DEF F7Inv, TypeInv
<1> DEFINE new == [job_id |-> job[u], admitted |-> admitted[u]]
           last == Len(ledger) + 1
<1>1. /\ UNCHANGED <<now, seen, job, admitted>>
      /\ pc[u] = "receipt" /\ pc' = [pc EXCEPT ![u] = "credit"]
  BY DEF DispatchReceipt
<1>2. /\ ledger' = Append(ledger, new)
      /\ DOMAIN ledger' = DOMAIN ledger \cup {last}
      /\ \A i \in DOMAIN ledger : ledger'[i] = ledger[i]
      /\ ledger'[last].job_id = job[u] /\ ledger'[last].admitted = admitted[u]
      /\ \A i \in DOMAIN ledger : i < last
  <2>1. new \in Receipt
    BY <1>1 DEF TypeOK, ThreadInv, Receipt
  <2>2. ledger' = Append(ledger, new) /\ ledger \in Seq(Receipt)
    BY DEF DispatchReceipt, TypeOK
  <2> HIDE DEF new
  <2>3. /\ Append(ledger, new) \in Seq(Receipt)
        /\ Len(Append(ledger, new)) = Len(ledger) + 1
        /\ \A i \in 1 .. Len(ledger) : Append(ledger, new)[i] = ledger[i]
        /\ Append(ledger, new)[last] = new
    BY <2>1, <2>2, AppendProperties
  <2>4. DOMAIN ledger = 1 .. Len(ledger) /\ DOMAIN ledger' = 1 .. last /\ Len(ledger) \in Nat
    BY <2>2, <2>3, LenProperties
  <2> QED
    BY <2>2, <2>3, <2>4 DEF new
<1>3. RelayInv'
  BY <1>1, <1>2 DEF RelayInv, Remembered, TypeOK
<1>4. AtMostOncePerTTL'
  <2>1. ASSUME NEW i \in DOMAIN ledger', NEW j \in DOMAIN ledger', i < j,
               ledger'[i].job_id = ledger'[j].job_id
        PROVE  Apart(ledger[i].admitted, ledger[j].admitted)'
    <3>1. CASE j \in DOMAIN ledger /\ i \in DOMAIN ledger
      BY <1>2, <2>1, <3>1 DEF AtMostOncePerTTL, Apart
    <3>2. CASE j = last /\ i \in DOMAIN ledger
      BY <1>1, <1>2, <2>1, <3>2 DEF AtMostOncePerTTL, Apart, InDispatch
    <3> QED
      BY <1>2, <2>1, <3>1, <3>2, LenProperties DEF TypeOK
  <2>2. ASSUME NEW t \in Thread, NEW v \in Thread, t # v,
               pc'[t] # "idle", pc'[v] # "idle", job'[t] = job'[v]
        PROVE  Apart(admitted[t], admitted[v])'
    BY <1>1, <2>2 DEF AtMostOncePerTTL, Apart, TypeOK
  <2>3. ASSUME NEW i \in DOMAIN ledger', NEW t \in Thread,
               pc'[t] \in InDispatch \ {"credit"}, job'[t] = ledger'[i].job_id
        PROVE  Apart(admitted[t], ledger[i].admitted)'
    <3>1. t # u /\ pc[t] \in InDispatch \ {"credit"}
      BY <1>1, <2>3 DEF TypeOK
    <3>2. CASE i \in DOMAIN ledger
      BY <1>1, <1>2, <2>3, <3>1, <3>2 DEF AtMostOncePerTTL, Apart
    <3>3. CASE i = last
      BY <1>1, <1>2, <2>3, <3>1, <3>3 DEF AtMostOncePerTTL, Apart, InDispatch
    <3> QED
      BY <1>2, <3>2, <3>3
  <2> QED
    BY <2>1, <2>2, <2>3 DEF AtMostOncePerTTL
<1> QED
  BY <1>3, <1>4

\* Hence every step of the coordinator keeps admissions apart.
LEMMA F7Step == TypeInv /\ F7Inv /\ [Next]_vars => F7Inv'
<1> SUFFICES ASSUME TypeInv, F7Inv, [Next]_vars PROVE F7Inv'
  OBVIOUS
<1>0. TypeInv'
  BY TypeStep
<1>1. CASE RelayMoves /\ NoNewAdmission
  BY <1>0, <1>1, F7Quiet
<1>2. CASE \E t \in Thread, r \in Request : DispatchAdmit(t, r)
  BY <1>0, <1>2, F7Admit
<1>3. CASE \E t \in Thread : DispatchReceipt(t)
  BY <1>0, <1>3, F7Receipt
<1>4. \/ RelayMoves /\ NoNewAdmission
      \/ \E t \in Thread, r \in Request : DispatchAdmit(t, r)
      \/ \E t \in Thread : DispatchReceipt(t)
  <2> USE DEF RelayMoves, NoNewAdmission, TypeInv, TypeOK, threadVars
  <2>1. CASE Tick \/ EvictReadClock \/ EvictStaleTiles \/ UNCHANGED vars
    BY <2>1 DEF Tick, EvictReadClock, EvictStaleTiles, vars
  <2>2. CASE \E n \in Node : Membership(n)
    BY <2>2 DEF Membership, JoinNode, IssueSelfToken, HeartbeatVerify, HeartbeatApply, RevokeToken,
                RevokeMarkDown, JobComplete
  <2>3. ASSUME NEW t \in Thread, DispatchStep(t), ~ DispatchReceipt(t)
        PROVE  RelayMoves /\ NoNewAdmission
    BY <2>3 DEF DispatchStep, DispatchSelect, DispatchDegrade, DispatchCount,
                DispatchCredit, Return
  <2>4. ASSUME NEW t \in Thread, NEW r \in Request, NEW passed \in BOOLEAN,
               DispatchRefuse(t, r, passed)
        PROVE  RelayMoves /\ NoNewAdmission
    BY <2>4 DEF DispatchRefuse
  <2> HIDE DEF RelayMoves, NoNewAdmission
  <2> QED
    BY <2>1, <2>2, <2>3, <2>4 DEF Next
<1> QED
  BY <1>1, <1>2, <1>3, <1>4

\* F7: however dispatches of one request id interleave, two that the relay let through
\* are more than its TTL apart.
THEOREM RequestsAreIdempotent == Spec => []AtMostOncePerTTL
<1>1. F7Inv => AtMostOncePerTTL
  BY DEF F7Inv
<1> QED
  BY <1>1, TypeInit, TypeStep, F7Init, F7Step, PTL DEF Spec

----------------------------------------------------------------------------
(* What takes a tile DOWN, and what brings it back.                        *)

\* The clock an eviction read is not ahead of the clock.
EvictInv == evictNow = Never \/ evictNow <= now

\* The clock an eviction read is never ahead of the present one.
LEMMA EvictStep == TypeInv /\ EvictInv /\ [Next]_vars => EvictInv'
<1> SUFFICES ASSUME TypeInv, EvictInv, [Next]_vars PROVE EvictInv'
  OBVIOUS
<1> USE DEF TypeInv, TypeOK, EvictInv, controlVars
<1>1. CASE Tick
  BY <1>1 DEF Tick, Never
<1>2. CASE EvictReadClock \/ EvictStaleTiles
  BY <1>2 DEF EvictReadClock, EvictStaleTiles, Never
<1>3. CASE UNCHANGED <<now, evictNow>>
  BY <1>3
<1>4. Tick \/ EvictReadClock \/ EvictStaleTiles \/ UNCHANGED <<now, evictNow>>
  BY DEF Next, vars, Membership, JoinNode, IssueSelfToken, HeartbeatVerify, HeartbeatApply, RevokeToken,
         RevokeMarkDown, JobComplete, DispatchStep, DispatchSelect, DispatchDegrade,
         DispatchCount, DispatchReceipt, DispatchCredit, Return, DispatchAdmit,
         DispatchRefuse
<1> QED
  BY <1>1, <1>2, <1>3, <1>4

\* An UP tile goes DOWN only while its node is being revoked or when it is stale by the
\* present clock, although the eviction judged it by an older one.
THEOREM DownOnlyForCause == Spec => DownIsJustified
<1>1. TypeInv /\ EvictInv /\ [Next]_vars => [GoesDownForCause]_vars
  <2> SUFFICES ASSUME TypeInv, EvictInv, [Next]_vars,
                      NEW n \in Node, tile[n].status = "UP", tile'[n].status = "DOWN"
               PROVE  n \in revoking \/ now - tile[n].last_seen > OfflineTimeout
    BY DEF GoesDownForCause
  <2>0. tile[n] \in Tile /\ tile \in [Node -> Tile]
    BY DEF TypeInv, TypeOK
  <2>1. CASE EvictStaleTiles
    <3>1. evictNow - tile[n].last_seen > OfflineTimeout /\ evictNow # Never
      BY <2>0, <2>1 DEF EvictStaleTiles, Stale
    <3>2. evictNow \in Nat /\ now \in Nat /\ evictNow <= now /\ tile[n].last_seen \in Nat
      BY <2>0, <3>1 DEF TypeInv, TypeOK, EvictInv, Tile
    <3> QED
      BY <3>1, <3>2, TimeAssumption
  <2>2. ASSUME NEW m \in Node, Membership(m)
        PROVE  n \in revoking
    <3>1. CASE RevokeMarkDown(m)
      BY <2>0, <3>1 DEF RevokeMarkDown
    <3>2. CASE JoinNode(m)
      BY <2>0, <3>2 DEF JoinNode, FreshTile
    <3>3. CASE HeartbeatApply(m)
      BY <2>0, <3>3 DEF HeartbeatApply, Tile
    <3>4. CASE IssueSelfToken(m) \/ HeartbeatVerify(m) \/ RevokeToken(m) \/ JobComplete(m)
      BY <3>4 DEF IssueSelfToken, HeartbeatVerify, RevokeToken, JobComplete
    <3> QED
      BY <2>2, <3>1, <3>2, <3>3, <3>4 DEF Membership
  <2>3. ASSUME NEW t \in Thread, DispatchStep(t)
        PROVE  FALSE
    <3>1. CASE DispatchCount(t)
      BY <2>0, <3>1 DEF DispatchCount, Tile
    <3>2. CASE DispatchCredit(t)
      BY <2>0, <3>2 DEF DispatchCredit, Tile
    <3>3. CASE DispatchSelect(t) \/ DispatchDegrade(t) \/ DispatchReceipt(t)
      BY <3>3 DEF DispatchSelect, DispatchDegrade, DispatchReceipt
    <3> QED
      BY <2>3, <3>1, <3>2, <3>3 DEF DispatchStep
  <2>4. CASE Tick \/ EvictReadClock \/ UNCHANGED vars
             \/ \E t \in Thread, r \in Request :
                  DispatchAdmit(t, r) \/ \E passed \in BOOLEAN : DispatchRefuse(t, r, passed)
    BY <2>4 DEF Tick, EvictReadClock, vars, DispatchAdmit, DispatchRefuse
  <2> QED
    BY <2>1, <2>2, <2>3, <2>4 DEF Next
<1>2. Init => EvictInv
  BY DEF Init, EvictInv
<1> QED
  BY <1>1, <1>2, TypeInit, TypeStep, EvictStep, PTL DEF Spec, DownIsJustified

\* Joins, tokens, heartbeats and revocations of any node leave it retired, rejoin it or
\* issue it a token.
LEMMA RetiredMembership ==
  ASSUME TypeInv, NEW n \in Node, Retired(n), NEW m \in Node, Membership(m)
  PROVE  \/ Retired(n)'
         \/ tile'[n] = FreshTile
         \/ n \notin revoked /\ tokenUntil'[n] >= now
<1>0. /\ tile \in [Node -> Tile] /\ tokenUntil \in [Node -> Nat \cup {Never}] /\ now \in Nat
      /\ tile[n] \in Tile
  BY DEF TypeInv, TypeOK
<1> USE DEF Retired, threadVars
<1>1. CASE JoinNode(m)
  BY <1>0, <1>1 DEF JoinNode, IssueToken, controlVars
<1>2. CASE IssueSelfToken(m)
  BY <1>0, <1>2, TimeAssumption DEF IssueSelfToken, IssueToken, controlVars, Never
<1>3. CASE HeartbeatVerify(m)
  <2>1. m # n
    BY <1>0, <1>3 DEF HeartbeatVerify, TokenAccepted, Never
  <2> QED BY <1>0, <1>3, <2>1 DEF HeartbeatVerify
<1>4. CASE HeartbeatApply(m)
  <2>1. m # n
    BY <1>4 DEF HeartbeatApply
  <2> QED BY <1>0, <1>4, <2>1 DEF HeartbeatApply
<1>5. CASE RevokeToken(m)
  BY <1>5 DEF RevokeToken
<1>6. CASE RevokeMarkDown(m)
  BY <1>0, <1>6 DEF RevokeMarkDown, Tile
<1>7. CASE JobComplete(m)
  BY <1>7 DEF JobComplete, controlVars
<1> QED
  BY <1>1, <1>2, <1>3, <1>4, <1>5, <1>6, <1>7 DEF Membership

\* No region of a dispatch selects a DOWN node or changes a tile's status.
LEMMA RetiredDispatch ==
  ASSUME TypeInv, NEW n \in Node, Retired(n), NEW t \in Thread, DispatchStep(t)
  PROVE  Retired(n)'
<1>0. /\ tile \in [Node -> Tile] /\ tile[n] \in Tile
      /\ pc \in [Thread -> {"idle"} \cup InDispatch] /\ sel \in [Thread -> Node \cup {NoNode}]
  BY DEF TypeInv, TypeOK
<1> USE DEF Retired, controlVars
<1>1. CASE DispatchSelect(t)
  <2>1. job[t] \in Request /\ UpNodes \in SUBSET Node /\ UpNodes # {}
    BY <1>1 DEF DispatchSelect, UpNodes, TypeInv, ThreadInv
  <2>2. LeastConnections(job[t], UpNodes) \in UpNodes
    BY <2>1, PickIsCandidate DEF TypeInv
  <2>3. sel'[t] # n
    BY <1>0, <1>1, <2>2 DEF DispatchSelect, UpNodes
  <2> QED BY <1>0, <1>1, <2>3 DEF DispatchSelect
<1>2. CASE DispatchDegrade(t)
  BY <1>0, <1>2 DEF DispatchDegrade, Return
<1>3. CASE DispatchCount(t)
  <2>1. sel[t] # n
    BY <1>3 DEF DispatchCount
  <2> QED BY <1>0, <1>3, <2>1 DEF DispatchCount
<1>4. CASE DispatchReceipt(t)
  BY <1>0, <1>4 DEF DispatchReceipt
<1>5. CASE DispatchCredit(t)
  <2>1. tile'[n].status = tile[n].status
    BY <1>0, <1>5 DEF DispatchCredit, Tile
  <2> QED BY <1>0, <1>5, <2>1 DEF DispatchCredit, Return
<1> QED
  BY <1>1, <1>2, <1>3, <1>4, <1>5 DEF DispatchStep

\* RetirementHolds, for any nodes, threads, lifetimes and callers: what is left of the
\* promise of revoke_node once the window that RevokedStaysDown shows is closed.
THEOREM RetiredNodesStayOut == Spec => RetirementHolds
<1> DEFINE Holds == \A n \in Node : Retired(n) =>
                      \/ Retired(n)'
                      \/ tile'[n] = FreshTile
                      \/ n \notin revoked /\ tokenUntil'[n] >= now
<1>1. TypeInv /\ [Next]_vars => Holds
  <2> SUFFICES ASSUME TypeInv, [Next]_vars, NEW n \in Node, Retired(n)
               PROVE  \/ Retired(n)'
                      \/ tile'[n] = FreshTile
                      \/ n \notin revoked /\ tokenUntil'[n] >= now
    OBVIOUS
  <2>0. /\ tile \in [Node -> Tile] /\ tokenUntil \in [Node -> Nat \cup {Never}] /\ now \in Nat
        /\ pc \in [Thread -> {"idle"} \cup InDispatch]
    BY DEF TypeInv, TypeOK
  <2>1. CASE Tick
    BY <2>0, <2>1 DEF Tick, Retired, controlVars, threadVars, Never
  <2>2. CASE EvictReadClock \/ UNCHANGED vars
    BY <2>2 DEF EvictReadClock, vars, Retired, controlVars, threadVars
  <2>3. CASE EvictStaleTiles
    BY <2>0, <2>3 DEF EvictStaleTiles, Stale, Retired, threadVars
  <2>4. CASE \E m \in Node : Membership(m)
    BY <2>4, RetiredMembership
  <2>5. CASE \E t \in Thread : DispatchStep(t)
    BY <2>5, RetiredDispatch
  <2>6. CASE \E t \in Thread, r \in Request :
               DispatchAdmit(t, r) \/ \E passed \in BOOLEAN : DispatchRefuse(t, r, passed)
    BY <2>0, <2>6 DEF DispatchAdmit, DispatchRefuse, Retired, controlVars, threadVars
  <2> QED
    BY <2>1, <2>2, <2>3, <2>4, <2>5, <2>6 DEF Next
<1>2. TypeInv /\ [Next]_vars => [Holds]_vars
  BY <1>1
<1> QED
  BY <1>2, TypeInit, TypeStep, PTL DEF Spec, RetirementHolds

----------------------------------------------------------------------------
(* The load.                                                               *)

\* The threads that counted a job on the node and have not started it yet.
OnTheWay(n) == {t \in Thread : sel[t] = n /\ pc[t] \in {"receipt", "credit"}}

\* Sets of threads have a number of members, which one thread more or less changes by one.
LEMMA ThreadsAreCounted ==
  ASSUME NEW F \in SUBSET Thread, NEW G \in SUBSET Thread, NEW t \in Thread
  PROVE  /\ Cardinality(F) \in Nat
         /\ t \notin F /\ G = F \cup {t} => Cardinality(G) = Cardinality(F) + 1
         /\ t \in F /\ G = F \ {t} => Cardinality(G) = Cardinality(F) - 1
<1>1. IsFiniteSet(F)
  BY ThreadAssumption, FS_Subset
<1> QED
  BY <1>1, FS_CardinalityType, FS_AddElement, FS_RemoveElement

\* A step keeps the load of a node if it lowers the count, or leaves it, while the jobs
\* and those on their way stay.
LEMMA LoadKept ==
  ASSUME TypeOK, TypeOK', LoadNeverOverstated, NEW n \in Node,
         active'[n] <= active[n], running'[n] = running[n], OnTheWay(n)' = OnTheWay(n)
  PROVE  active'[n] <= running'[n] + Cardinality(OnTheWay(n)')
<1>1. OnTheWay(n) \in SUBSET Thread
  BY DEF OnTheWay
<1>2. Cardinality(OnTheWay(n)) \in Nat
  BY <1>1, ThreadAssumption, FS_Subset, FS_CardinalityType
<1>3. active[n] <= running[n] + Cardinality(OnTheWay(n))
  BY DEF LoadNeverOverstated, OnTheWay
<1>4. active[n] \in Nat /\ active'[n] \in Nat /\ running[n] \in Nat
  BY DEF TypeOK
<1> QED
  BY <1>2, <1>3, <1>4

\* A completion takes one off a count that is positive, and one off the jobs.
LEMMA LoadAfterCompletion ==
  ASSUME TypeOK, TypeOK', LoadNeverOverstated, NEW n \in Node, NEW m \in Node, JobComplete(m)
  PROVE  active'[n] <= running'[n] + Cardinality(OnTheWay(n)')
<1>1. OnTheWay(n)' = OnTheWay(n) /\ OnTheWay(n) \in SUBSET Thread
  BY DEF JobComplete, threadVars, OnTheWay
<1>2. Cardinality(OnTheWay(n)) \in Nat
  BY <1>1, ThreadAssumption, FS_Subset, FS_CardinalityType
<1>3. active[n] <= running[n] + Cardinality(OnTheWay(n))
  BY DEF LoadNeverOverstated, OnTheWay
<1>4. active[n] \in Nat /\ running[n] \in Nat /\ active'[n] \in Nat /\ running'[n] \in Nat
  BY DEF TypeOK
<1>5. CASE n # m
  <2>1. active'[n] = active[n] /\ running'[n] = running[n]
    BY <1>5 DEF JobComplete, TypeOK
  <2> QED BY <2>1, <1>1, <1>3
<1>6. CASE n = m
  <2>1. /\ running[n] > 0 /\ running'[n] = running[n] - 1
        /\ active'[n] = IF active[n] = 0 THEN 0 ELSE active[n] - 1
    BY <1>6 DEF JobComplete, TypeOK
  <2> QED BY <2>1, <1>1, <1>2, <1>3, <1>4
<1> QED
  BY <1>5, <1>6

\* A dispatch brings a thread on the way when it counts its job, and takes it off the way
\* when the job starts.
LEMMA LoadAfterDispatch ==
  ASSUME TypeInv, TypeOK', LoadNeverOverstated, NEW n \in Node, NEW t \in Thread,
         DispatchStep(t)
  PROVE  active'[n] <= running'[n] + Cardinality(OnTheWay(n)')
<1> DEFINE F == OnTheWay(n)
           G == OnTheWay(n)'
<1>1. F \in SUBSET Thread /\ G \in SUBSET Thread
  BY DEF OnTheWay
<1>2. /\ Cardinality(F) \in Nat /\ Cardinality(G) \in Nat
      /\ t \notin F /\ G = F \cup {t} => Cardinality(G) = Cardinality(F) + 1
      /\ t \in F /\ G = F \ {t} => Cardinality(G) = Cardinality(F) - 1
  <2> HIDE DEF F, G
  <2> QED BY <1>1, ThreadsAreCounted
<1>3. active[n] <= running[n] + Cardinality(F)
  BY DEF LoadNeverOverstated, OnTheWay
<1>4. /\ active[n] \in Nat /\ running[n] \in Nat
      /\ active'[n] \in Nat /\ running'[n] \in Nat
  BY DEF TypeInv, TypeOK
<1>5. CASE DispatchSelect(t) \/ DispatchDegrade(t) \/ DispatchReceipt(t)
  <2>1. G = F
    BY <1>5 DEF DispatchSelect, DispatchDegrade, DispatchReceipt, Return, OnTheWay, TypeInv, TypeOK
  <2>2. active' = active /\ running' = running
    BY <1>5 DEF DispatchSelect, DispatchDegrade, DispatchReceipt
  <2> QED BY <2>1, <2>2, <1>3
<1>6. CASE DispatchCount(t)
  <2>1. /\ sel[t] \in Node /\ running' = running
        /\ active'[n] = IF n = sel[t] THEN active[n] + 1 ELSE active[n]
    BY <1>6 DEF DispatchCount, TypeInv, TypeOK, ThreadInv
  <2>2. IF n = sel[t] THEN t \notin F /\ G = F \cup {t} ELSE G = F
    BY <1>6 DEF DispatchCount, OnTheWay, TypeInv, TypeOK
  <2>3. active'[n] <= running'[n] + Cardinality(G)
    <3> HIDE DEF F, G
    <3> QED BY <2>1, <2>2, <1>2, <1>3, <1>4
  <2> QED BY <2>3
<1>7. CASE DispatchCredit(t)
  <2>1. /\ sel[t] \in Node /\ active' = active
        /\ running'[n] = IF n = sel[t] THEN running[n] + 1 ELSE running[n]
    BY <1>7 DEF DispatchCredit, TypeInv, TypeOK, ThreadInv
  <2>2. IF n = sel[t] THEN t \in F /\ G = F \ {t} ELSE G = F
    BY <1>7 DEF DispatchCredit, Return, OnTheWay, TypeInv, TypeOK
  <2>3. active'[n] <= running'[n] + Cardinality(G)
    <3> HIDE DEF F, G
    <3> QED BY <2>1, <2>2, <1>2, <1>3, <1>4
  <2> QED BY <2>3
<1> QED
  BY <1>5, <1>6, <1>7 DEF DispatchStep

\* No other step touches the jobs or the threads on the way, nor raises a count.
LEMMA LoadStep ==
  TypeInv /\ TypeInv' /\ LoadNeverOverstated /\ [Next]_vars => LoadNeverOverstated'
<1> SUFFICES ASSUME TypeInv, TypeInv', LoadNeverOverstated, [Next]_vars, NEW n \in Node
             PROVE  active'[n] <= running'[n] + Cardinality(OnTheWay(n)')
  BY DEF LoadNeverOverstated, OnTheWay
<1>1. TypeOK /\ TypeOK'
  BY DEF TypeInv
<1>2. CASE \E m \in Node : JobComplete(m)
  BY <1>1, <1>2, LoadAfterCompletion
<1>3. CASE \E t \in Thread : DispatchStep(t)
  BY <1>1, <1>3, LoadAfterDispatch
<1>4. CASE \E m \in Node : JoinNode(m)
  <2>1. active'[n] <= active[n]
    BY <1>1, <1>4 DEF JoinNode, TypeOK
  <2>2. running' = running /\ OnTheWay(n)' = OnTheWay(n)
    BY <1>4 DEF JoinNode, threadVars, OnTheWay
  <2> QED BY <1>1, <2>1, <2>2, LoadKept
<1>5. CASE \E t \in Thread, r \in Request : DispatchAdmit(t, r)
  <2>1. active' = active /\ running' = running
    BY <1>5 DEF DispatchAdmit
  <2>2. OnTheWay(n)' = OnTheWay(n)
    BY <1>1, <1>5 DEF DispatchAdmit, OnTheWay, TypeOK
  <2>3. active'[n] <= active[n]
    BY <1>1, <2>1 DEF TypeOK
  <2> QED BY <1>1, <2>1, <2>2, <2>3, LoadKept
<1>6. CASE UNCHANGED <<active, running, pc, sel>>
  <2>1. OnTheWay(n)' = OnTheWay(n) /\ running' = running
    BY <1>6 DEF OnTheWay
  <2>2. active'[n] <= active[n]
    BY <1>1, <1>6 DEF TypeOK
  <2> QED BY <1>1, <2>1, <2>2, LoadKept
<1>7. \/ \E m \in Node : JobComplete(m) \/ JoinNode(m)
      \/ \E t \in Thread : DispatchStep(t)
      \/ \E t \in Thread, r \in Request : DispatchAdmit(t, r)
      \/ UNCHANGED <<active, running, pc, sel>>
  BY DEF Next, vars, threadVars, Tick, EvictReadClock, EvictStaleTiles, Membership,
     IssueSelfToken, HeartbeatVerify, HeartbeatApply, RevokeToken, RevokeMarkDown,
     DispatchRefuse
<1> QED
  BY <1>2, <1>3, <1>4, <1>5, <1>6, <1>7

\* The scheduler never believes a node busier than it is, for any number of threads.
THEOREM LoadIsNeverOverstated == Spec => []LoadNeverOverstated
<1>1. Init => LoadNeverOverstated
  <2> SUFFICES ASSUME Init, NEW n \in Node
               PROVE  active[n] <= running[n] + Cardinality(OnTheWay(n))
    BY DEF LoadNeverOverstated, OnTheWay
  <2>1. active[n] = 0 /\ running[n] = 0
    BY DEF Init
  <2>2. OnTheWay(n) = {}
    BY DEF Init, OnTheWay
  <2> QED BY <2>1, <2>2, FS_EmptySet
<1> QED
  BY <1>1, TypeInit, TypeStep, LoadStep, PTL DEF Spec

----------------------------------------------------------------------------
(* The ledger and the counters of the tiles.                               *)

\* The jobs counted on the tiles, and the contributions credited to them.
JobsOn(tiles) == MapThenSumSet(LAMBDA n : tiles[n].total_jobs, Node)
CreditsOn(tiles) == MapThenSumSet(LAMBDA n : tiles[n].contribution, Node)

JobCounts(tiles) == [n \in Node |-> tiles[n].total_jobs]
CreditCounts(tiles) == [n \in Node |-> tiles[n].contribution]

\* Both are sums of the values of a function.
LEMMA JobsAreSummed ==
  ASSUME NEW tiles \in [Node -> Tile]
  PROVE  JobsOn(tiles) = Sum(JobCounts(tiles), Node)
<1> DEFINE f == JobCounts(tiles)
           Solves(g) == g = [t \in SUBSET Node |->
                               IF t = {} THEN 0
                               ELSE tiles[CHOOSE x \in t : TRUE].total_jobs
                                      + g[t \ {CHOOSE x \in t : TRUE}]]
           g == CHOOSE g : Solves(g)
<1>1. JobsOn(tiles) = g[Node]
  BY DEF JobsOn, MapThenSumSet, MapThenFoldSet
<1>2. \A n \in Node : f[n] \in Int /\ f[n] = tiles[n].total_jobs
  BY DEF JobCounts, Tile
<1>3. \A h : IsSum(h, f, Node) <=> Solves(h)
  <2> HIDE DEF f
  <2> QED BY <1>2 DEF IsSum
<1>4. IsSum(g, f, Node)
  <2> HIDE DEF Solves, f
  <2> QED BY <1>2, <1>3, NodeAssumption, SumExists
<1> HIDE DEF g, f
<1>5. g[Node] = Sum(f, Node)
  BY <1>2, <1>4, NodeAssumption, SumUnique
<1> QED
  BY <1>1, <1>5 DEF f

LEMMA CreditsAreSummed ==
  ASSUME NEW tiles \in [Node -> Tile]
  PROVE  CreditsOn(tiles) = Sum(CreditCounts(tiles), Node)
<1> DEFINE f == CreditCounts(tiles)
           Solves(g) == g = [t \in SUBSET Node |->
                               IF t = {} THEN 0
                               ELSE tiles[CHOOSE x \in t : TRUE].contribution
                                      + g[t \ {CHOOSE x \in t : TRUE}]]
           g == CHOOSE g : Solves(g)
<1>1. CreditsOn(tiles) = g[Node]
  BY DEF CreditsOn, MapThenSumSet, MapThenFoldSet
<1>2. \A n \in Node : f[n] \in Int /\ f[n] = tiles[n].contribution
  BY DEF CreditCounts, Tile
<1>3. \A h : IsSum(h, f, Node) <=> Solves(h)
  <2> HIDE DEF f
  <2> QED BY <1>2 DEF IsSum
<1>4. IsSum(g, f, Node)
  <2> HIDE DEF Solves, f
  <2> QED BY <1>2, <1>3, NodeAssumption, SumExists
<1> HIDE DEF g, f
<1>5. g[Node] = Sum(f, Node)
  BY <1>2, <1>4, NodeAssumption, SumUnique
<1> QED
  BY <1>1, <1>5 DEF f

\* Tiles whose counters are no higher carry no more, and one count more is one more.
LEMMA CountersCompare ==
  ASSUME NEW tiles \in [Node -> Tile], NEW after \in [Node -> Tile]
  PROVE  /\ JobsOn(tiles) \in Int /\ CreditsOn(tiles) \in Int
         /\ (\A n \in Node : after[n].total_jobs <= tiles[n].total_jobs)
              => JobsOn(after) <= JobsOn(tiles)
         /\ (\A n \in Node : after[n].contribution <= tiles[n].contribution)
              => CreditsOn(after) <= CreditsOn(tiles)
         /\ \A m \in Node :
              /\ (\A n \in Node : after[n].total_jobs =
                     IF n = m THEN tiles[n].total_jobs + 1 ELSE tiles[n].total_jobs)
                   => JobsOn(after) = JobsOn(tiles) + 1
              /\ (\A n \in Node : after[n].contribution =
                     IF n = m THEN tiles[n].contribution + 1 ELSE tiles[n].contribution)
                   => CreditsOn(after) = CreditsOn(tiles) + 1
<1> DEFINE j == JobCounts(tiles)
           k == JobCounts(after)
           c == CreditCounts(tiles)
           d == CreditCounts(after)
<1>1. \A n \in Node : /\ j[n] = tiles[n].total_jobs /\ k[n] = after[n].total_jobs
                      /\ c[n] = tiles[n].contribution /\ d[n] = after[n].contribution
                      /\ j[n] \in Int /\ k[n] \in Int /\ c[n] \in Int /\ d[n] \in Int
  BY DEF JobCounts, CreditCounts, Tile
<1>2. /\ JobsOn(tiles) = Sum(j, Node) /\ JobsOn(after) = Sum(k, Node)
      /\ CreditsOn(tiles) = Sum(c, Node) /\ CreditsOn(after) = Sum(d, Node)
  BY JobsAreSummed, CreditsAreSummed
<1> HIDE DEF j, k, c, d
<1>3. Sum(j, Node) \in Int /\ Sum(c, Node) \in Int
  BY <1>1, NodeAssumption, SumRules
<1>4. ASSUME \A n \in Node : after[n].total_jobs <= tiles[n].total_jobs
      PROVE  Sum(k, Node) <= Sum(j, Node)
  BY <1>1, <1>4, NodeAssumption, SumMonotonic
<1>5. ASSUME \A n \in Node : after[n].contribution <= tiles[n].contribution
      PROVE  Sum(d, Node) <= Sum(c, Node)
  BY <1>1, <1>5, NodeAssumption, SumMonotonic
<1>6. ASSUME NEW m \in Node,
             \A n \in Node : after[n].total_jobs =
               IF n = m THEN tiles[n].total_jobs + 1 ELSE tiles[n].total_jobs
      PROVE  Sum(k, Node) = Sum(j, Node) + 1
  <2>1. (\A n \in Node \ {m} : k[n] = j[n]) /\ k[m] = j[m] + 1
    BY <1>1, <1>6
  <2> QED BY <1>1, <2>1, NodeAssumption, SumOneMore
<1>7. ASSUME NEW m \in Node,
             \A n \in Node : after[n].contribution =
               IF n = m THEN tiles[n].contribution + 1 ELSE tiles[n].contribution
      PROVE  Sum(d, Node) = Sum(c, Node) + 1
  <2>1. (\A n \in Node \ {m} : d[n] = c[n]) /\ d[m] = c[m] + 1
    BY <1>1, <1>7
  <2> QED BY <1>1, <2>1, NodeAssumption, SumOneMore
<1> QED
  BY <1>2, <1>3, <1>4, <1>5, <1>6, <1>7

\* The threads that stand at a label of dispatch().
AtLabel(label) == {t \in Thread : pc[t] = label}

\* ReceiptsCoverJobs, with its sums named.
CoverInv ==
  /\ JobsOn(tile) <= Len(ledger) + Cardinality(AtLabel("receipt"))
  /\ CreditsOn(tile) + Cardinality(AtLabel("credit")) <= Len(ledger)

\* A step that raises no counter, writes no receipt and moves no thread that has counted
\* its job keeps the ledger covering the counters.
LEMMA CoverKept ==
  ASSUME TypeOK, TypeOK', CoverInv, ledger' = ledger,
         \A n \in Node : /\ tile'[n].total_jobs <= tile[n].total_jobs
                         /\ tile'[n].contribution <= tile[n].contribution,
         AtLabel("receipt")' = AtLabel("receipt"), AtLabel("credit")' = AtLabel("credit")
  PROVE  CoverInv'
<1> DEFINE r == Cardinality(AtLabel("receipt"))
           c == Cardinality(AtLabel("credit"))
<1>1. r \in Nat /\ c \in Nat
  <2>1. \A label : AtLabel(label) \in SUBSET Thread
    BY DEF AtLabel
  <2>2. \A F \in SUBSET Thread : Cardinality(F) \in Nat
    BY ThreadAssumption, FS_Subset, FS_CardinalityType
  <2> QED
    BY <2>1, <2>2
<1>2. /\ JobsOn(tile) \in Int /\ CreditsOn(tile) \in Int
      /\ JobsOn(tile') \in Int /\ CreditsOn(tile') \in Int
      /\ JobsOn(tile') <= JobsOn(tile) /\ CreditsOn(tile') <= CreditsOn(tile)
  BY CountersCompare DEF TypeOK
<1>3. JobsOn(tile)' = JobsOn(tile') /\ CreditsOn(tile)' = CreditsOn(tile')
  BY DEF JobsOn, CreditsOn, MapThenSumSet, MapThenFoldSet
<1>4. Len(ledger) \in Nat
  BY LenProperties DEF TypeOK
<1>5. JobsOn(tile) <= Len(ledger) + r /\ CreditsOn(tile) + c <= Len(ledger)
  BY DEF CoverInv
<1>6. JobsOn(tile') <= Len(ledger') + r /\ CreditsOn(tile') + c <= Len(ledger')
  <2> HIDE DEF r, c
  <2> QED BY <1>1, <1>2, <1>4, <1>5
<1> QED
  BY <1>3, <1>6 DEF CoverInv

\* A dispatch counts its job and then owes a receipt, writes it and then owes the credit.
LEMMA CoverAfterDispatch ==
  ASSUME TypeInv, TypeOK', CoverInv, NEW t \in Thread, DispatchStep(t)
  PROVE  CoverInv'
<1> DEFINE R == AtLabel("receipt")
           C == AtLabel("credit")
           R1 == AtLabel("receipt")'
           C1 == AtLabel("credit")'
<1>1. TypeOK /\ pc \in [Thread -> {"idle"} \cup InDispatch] /\ tile \in [Node -> Tile]
      /\ tile' \in [Node -> Tile] /\ ledger \in Seq(Receipt)
  BY DEF TypeInv, TypeOK
<1>2. /\ Cardinality(R) \in Nat /\ Cardinality(R1) \in Nat
      /\ t \notin R /\ R1 = R \cup {t} => Cardinality(R1) = Cardinality(R) + 1
      /\ t \in R /\ R1 = R \ {t} => Cardinality(R1) = Cardinality(R) - 1
  <2>1. R \in SUBSET Thread /\ R1 \in SUBSET Thread
    BY DEF AtLabel
  <2> HIDE DEF R, R1
  <2> QED BY <2>1, ThreadsAreCounted
<1>3. /\ Cardinality(C) \in Nat /\ Cardinality(C1) \in Nat
      /\ t \notin C /\ C1 = C \cup {t} => Cardinality(C1) = Cardinality(C) + 1
      /\ t \in C /\ C1 = C \ {t} => Cardinality(C1) = Cardinality(C) - 1
  <2>1. C \in SUBSET Thread /\ C1 \in SUBSET Thread
    BY DEF AtLabel
  <2> HIDE DEF C, C1
  <2> QED BY <2>1, ThreadsAreCounted
<1>4. /\ JobsOn(tile) \in Int /\ CreditsOn(tile) \in Int
      /\ JobsOn(tile') \in Int /\ CreditsOn(tile') \in Int
  BY <1>1, CountersCompare
<1>5. JobsOn(tile)' = JobsOn(tile') /\ CreditsOn(tile)' = CreditsOn(tile')
  BY DEF JobsOn, CreditsOn, MapThenSumSet, MapThenFoldSet
<1>6. Len(ledger) \in Nat
  BY <1>1, LenProperties
<1>7. /\ JobsOn(tile) <= Len(ledger) + Cardinality(R)
      /\ CreditsOn(tile) + Cardinality(C) <= Len(ledger)
  BY DEF CoverInv
<1> SUFFICES /\ JobsOn(tile') <= Len(ledger') + Cardinality(R1)
             /\ CreditsOn(tile') + Cardinality(C1) <= Len(ledger')
  BY <1>5 DEF CoverInv
<1>8. CASE DispatchSelect(t) \/ DispatchDegrade(t)
  <2>1. R1 = R /\ C1 = C
    BY <1>1, <1>8 DEF DispatchSelect, DispatchDegrade, Return, AtLabel
  <2>2. tile' = tile /\ ledger' = ledger
    BY <1>8 DEF DispatchSelect, DispatchDegrade
  <2> QED
    BY <1>7, <2>1, <2>2
<1>9. CASE DispatchCount(t)
  <2>1. t \notin R /\ R1 = R \cup {t} /\ C1 = C
    BY <1>1, <1>9 DEF DispatchCount, AtLabel
  <2>2. sel[t] \in Node /\ ledger' = ledger
    BY <1>9 DEF DispatchCount, TypeInv, ThreadInv
  <2>3. /\ \A n \in Node : tile'[n].total_jobs =
             IF n = sel[t] THEN tile[n].total_jobs + 1 ELSE tile[n].total_jobs
        /\ \A n \in Node : tile'[n].contribution <= tile[n].contribution
    <3>1. \A n \in Node : tile[n] \in Tile /\ tile[n].contribution \in Nat
      BY <1>1 DEF Tile
    <3> QED BY <1>1, <1>9, <3>1 DEF DispatchCount, Tile
  <2>4. JobsOn(tile') = JobsOn(tile) + 1 /\ CreditsOn(tile') <= CreditsOn(tile)
    BY <1>1, <2>2, <2>3, CountersCompare
  <2> HIDE DEF R, R1, C, C1
  <2> QED
    BY <1>2, <1>3, <1>4, <1>6, <1>7, <2>1, <2>2, <2>4
<1>10. CASE DispatchReceipt(t)
  <2>1. t \in R /\ R1 = R \ {t} /\ t \notin C /\ C1 = C \cup {t}
    BY <1>1, <1>10 DEF DispatchReceipt, AtLabel
  <2>2. tile' = tile /\ Len(ledger') = Len(ledger) + 1
    <3>1. [job_id |-> job[t], admitted |-> admitted[t]] \in Receipt
      BY <1>10 DEF DispatchReceipt, Receipt, TypeInv, ThreadInv, TypeOK
    <3> QED BY <1>1, <1>10, <3>1, AppendProperties DEF DispatchReceipt
  <2> HIDE DEF R, R1, C, C1
  <2> QED
    BY <1>2, <1>3, <1>4, <1>6, <1>7, <2>1, <2>2
<1>11. CASE DispatchCredit(t)
  <2>1. R1 = R /\ t \in C /\ C1 = C \ {t}
    BY <1>1, <1>11 DEF DispatchCredit, Return, AtLabel
  <2>2. sel[t] \in Node /\ ledger' = ledger
    BY <1>11 DEF DispatchCredit, TypeInv, ThreadInv
  <2>3. /\ \A n \in Node : tile'[n].contribution =
             IF n = sel[t] THEN tile[n].contribution + 1 ELSE tile[n].contribution
        /\ \A n \in Node : tile'[n].total_jobs <= tile[n].total_jobs
    <3>1. \A n \in Node : tile[n] \in Tile /\ tile[n].total_jobs \in Nat
      BY <1>1 DEF Tile
    <3> QED BY <1>1, <1>11, <3>1 DEF DispatchCredit, Tile
  <2>4. CreditsOn(tile') = CreditsOn(tile) + 1 /\ JobsOn(tile') <= JobsOn(tile)
    BY <1>1, <2>2, <2>3, CountersCompare
  <2> HIDE DEF R, R1, C, C1
  <2> QED
    BY <1>2, <1>3, <1>4, <1>6, <1>7, <2>1, <2>2, <2>4
<1> QED
  BY <1>8, <1>9, <1>10, <1>11 DEF DispatchStep

\* Joins lower the counters, the other steps leave them.
LEMMA CoverStep == TypeInv /\ TypeInv' /\ CoverInv /\ [Next]_vars => CoverInv'
<1> SUFFICES ASSUME TypeInv, TypeInv', CoverInv, [Next]_vars PROVE CoverInv'
  OBVIOUS
<1>1. TypeOK /\ TypeOK'
  BY DEF TypeInv
<1>2. \A n \in Node : tile[n].total_jobs \in Nat /\ tile[n].contribution \in Nat
  BY <1>1 DEF TypeOK, Tile
<1>3. CASE \E t \in Thread : DispatchStep(t)
  BY <1>1, <1>3, CoverAfterDispatch
<1>4. CASE UNCHANGED <<ledger, pc, tile>>
  <2>1. AtLabel("receipt")' = AtLabel("receipt") /\ AtLabel("credit")' = AtLabel("credit")
    BY <1>4 DEF AtLabel
  <2>2. \A n \in Node : /\ tile'[n].total_jobs <= tile[n].total_jobs
                        /\ tile'[n].contribution <= tile[n].contribution
    BY <1>2, <1>4
  <2> QED BY <1>1, <1>4, <2>1, <2>2, CoverKept
<1>5. CASE \E t \in Thread, r \in Request : DispatchAdmit(t, r)
  <2>1. AtLabel("receipt")' = AtLabel("receipt") /\ AtLabel("credit")' = AtLabel("credit")
    BY <1>1, <1>5 DEF AtLabel, DispatchAdmit, TypeOK
  <2>2. /\ ledger' = ledger
        /\ \A n \in Node : /\ tile'[n].total_jobs <= tile[n].total_jobs
                           /\ tile'[n].contribution <= tile[n].contribution
    BY <1>2, <1>5 DEF DispatchAdmit
  <2> QED BY <1>1, <2>1, <2>2, CoverKept
<1>6. CASE EvictStaleTiles \/ \E n \in Node : JoinNode(n) \/ HeartbeatApply(n) \/ RevokeMarkDown(n)
  <2>1. pc' = pc /\ ledger' = ledger
    BY <1>6 DEF EvictStaleTiles, JoinNode, HeartbeatApply, RevokeMarkDown, threadVars
  <2>2. AtLabel("receipt")' = AtLabel("receipt") /\ AtLabel("credit")' = AtLabel("credit")
    BY <2>1 DEF AtLabel
  <2>3. ASSUME NEW n \in Node
        PROVE  /\ tile'[n].total_jobs <= tile[n].total_jobs
               /\ tile'[n].contribution <= tile[n].contribution
    <3>1. tile[n] \in Tile /\ tile \in [Node -> Tile]
      BY <1>1 DEF TypeOK
    <3>2. CASE EvictStaleTiles
      BY <1>2, <3>1, <3>2 DEF EvictStaleTiles, Tile
    <3>3. CASE \E m \in Node : JoinNode(m)
      BY <1>2, <3>1, <3>3 DEF JoinNode, FreshTile, Tile
    <3>4. CASE \E m \in Node : HeartbeatApply(m)
      BY <1>2, <3>1, <3>4 DEF HeartbeatApply, Tile
    <3>5. CASE \E m \in Node : RevokeMarkDown(m)
      BY <1>2, <3>1, <3>5 DEF RevokeMarkDown, Tile
    <3> QED
      BY <1>6, <3>2, <3>3, <3>4, <3>5
  <2> QED BY <1>1, <2>1, <2>2, <2>3, CoverKept
<1>7. \/ EvictStaleTiles \/ \E n \in Node : JoinNode(n) \/ HeartbeatApply(n) \/ RevokeMarkDown(n)
      \/ \E t \in Thread : DispatchStep(t)
      \/ \E t \in Thread, r \in Request : DispatchAdmit(t, r)
      \/ UNCHANGED <<ledger, pc, tile>>
  BY DEF Next, vars, threadVars, Tick, EvictReadClock, Membership,
     IssueSelfToken, HeartbeatVerify, RevokeToken, JobComplete, DispatchRefuse
<1> QED
  BY <1>3, <1>4, <1>5, <1>6, <1>7

\* ReceiptsCoverJobs, for any finite set of nodes and any number of threads: the ledger
\* accounts for the jobs counted and the contributions credited, however the joins, which
\* restart the counters, fall between the regions of the dispatches.
THEOREM LedgerAccountsForJobs == Spec => []ReceiptsCoverJobs
<1>1. Init => CoverInv
  <2> SUFFICES ASSUME Init PROVE CoverInv
    OBVIOUS
  <2>1. TypeOK /\ tile = [n \in Node |-> NoTile]
    BY TypeInit DEF TypeInv, Init
  <2> DEFINE zero == [n \in Node |-> 0]
  <2>2. JobCounts(tile) = zero /\ CreditCounts(tile) = zero
    BY <2>1 DEF JobCounts, CreditCounts, NoTile
  <2>3. JobsOn(tile) = Sum(zero, Node) /\ CreditsOn(tile) = Sum(zero, Node)
    BY <2>1, <2>2, JobsAreSummed, CreditsAreSummed DEF TypeOK
  <2>4. Sum(zero, Node) = 0
    <3>1. \A n \in Node : zero[n] \in Int /\ zero[n] = 0
      OBVIOUS
    <3> HIDE DEF zero
    <3> QED BY <3>1, NodeAssumption, SumOfZeros
  <2>5. AtLabel("receipt") = {} /\ AtLabel("credit") = {} /\ Len(ledger) = 0
    BY DEF Init, AtLabel
  <2>6. Cardinality({}) = 0
    BY FS_EmptySet
  <2> HIDE DEF zero
  <2>7. JobsOn(tile) = 0 /\ CreditsOn(tile) = 0
    BY <2>3, <2>4
  <2>8. Cardinality(AtLabel("receipt")) = 0 /\ Cardinality(AtLabel("credit")) = 0
    BY <2>5, <2>6
  <2> QED
    BY <2>5, <2>7, <2>8 DEF CoverInv
<1>2. CoverInv => ReceiptsCoverJobs
  BY DEF CoverInv, ReceiptsCoverJobs, JobsOn, CreditsOn, AtLabel, MapThenSumSet, MapThenFoldSet
<1> QED
  BY <1>1, <1>2, TypeInit, TypeStep, CoverStep, PTL DEF Spec
=============================================================================
