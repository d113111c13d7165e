-------------------------- MODULE MeshCoordinator --------------------------
(***************************************************************************)
(* The sovereign mesh coordinator (src/sovereign/szl_mesh_coordinator.py): *)
(* its tile registry, revocation store, request relay and routing ledger,  *)
(* with the interleavings its locks leave open.  Every lock region of the  *)
(* code is one action, so a caller can be overtaken between two regions:   *)
(* a heartbeat between verifying its token and marking the tile, a         *)
(* revocation between the store and the tile, an eviction between reading  *)
(* the clock and the tiles, a dispatch between its four lock regions.      *)
(***************************************************************************)
EXTENDS Integers, Sequences, FiniteSets, FiniteSetsExt

CONSTANTS
  Node,            \* node ids
  Request,         \* request ids clients dispatch
  Thread,          \* threads that call dispatch()
  OfflineTimeout,  \* NODE_OFFLINE_TIMEOUT_S, in clock ticks
  RelayTTL,        \* ChaskiRelay ttl_seconds
  TokenTTL,        \* token_ttl, the lifetime of the tokens join_node issues
  SelfTokenTTL,    \* JOIN_TOKEN_TTL_S, the lifetime of those a node issues itself
  MaxTime,         \* bound of the model: the clock stops here
  NoNode,          \* no node selected
  NoRequest,       \* no request being dispatched
  F1Pick(_, _)     \* f1_seeded_pick: a hash of the request id picks one of a set

ASSUME TimeAssumption ==
  /\ OfflineTimeout \in Nat
  /\ RelayTTL \in Nat
  /\ TokenTTL \in Nat
  /\ SelfTokenTTL \in Nat
  /\ MaxTime \in Nat

ASSUME ThreadAssumption == IsFiniteSet(Thread)

ASSUME NodeAssumption == IsFiniteSet(Node)

ASSUME NullAssumption == NoNode \notin Node /\ NoRequest \notin Request

\* f1_seeded_pick draws from the ids it is given, and depends on nothing else.
ASSUME PickAssumption ==
  \A r \in Request : \A S \in SUBSET Node : S # {} => F1Pick(r, S) \in S

Never == -1        \* no time: not in the relay, no token issued, no eviction under way

VARIABLES
  now,          \* time.time()
  tile,         \* _tiles: one routing record per node, "ABSENT" before it joins
  tokenUntil,   \* the latest expiry of the tokens issued for each node (the nodes' side)
  revoked,      \* _revocation_store
  active,       \* _active_connections
  seen,         \* ChaskiRelay._seen: id -> time it was recorded
  ledger,       \* _routing_ledger, with the time each request was admitted
  pc,           \* where each thread stands in dispatch(), "idle" outside it
  job,          \* the request id a thread dispatches
  admitted,     \* when the relay let that id through (history)
  sel,          \* the node a thread selected
  heartbeats,   \* nodes with a heartbeat verified but not yet applied
  revoking,     \* nodes in the store whose tile revoke_node has not yet reached
  evictNow,     \* the clock evict_stale_tiles read before taking the lock
  running       \* jobs dispatched and not yet reported complete (the clients' side)

threadVars == <<pc, job, admitted, sel>>
controlVars == <<heartbeats, revoking, evictNow>>
vars == <<now, tile, tokenUntil, revoked, active, seen, ledger, threadVars, controlVars,
          running>>

Status == {"ABSENT", "UP", "DOWN"}
InDispatch == {"select", "count", "receipt", "credit"}

Tile == [status : Status, last_seen : Nat, total_jobs : Nat, contribution : Nat]

Receipt == [job_id : Request, admitted : Nat]

TypeOK ==
  /\ now \in Nat
  /\ tile \in [Node -> Tile]
  /\ tokenUntil \in [Node -> Nat \cup {Never}]
  /\ revoked \subseteq Node
  /\ active \in [Node -> Nat]
  /\ seen \in [Request -> Nat \cup {Never}]
  /\ ledger \in Seq(Receipt)
  /\ pc \in [Thread -> {"idle"} \cup InDispatch]
  /\ job \in [Thread -> Request \cup {NoRequest}]
  /\ admitted \in [Thread -> Nat]
  /\ sel \in [Thread -> Node \cup {NoNode}]
  /\ heartbeats \subseteq Node
  /\ revoking \subseteq revoked
  /\ evictNow \in Nat \cup {Never}
  /\ running \in [Node -> Nat]

NoTile == [status |-> "ABSENT", last_seen |-> 0, total_jobs |-> 0, contribution |-> 0]

Init ==
  /\ now = 0
  /\ tile = [n \in Node |-> NoTile]
  /\ tokenUntil = [n \in Node |-> Never]
  /\ revoked = {}
  /\ active = [n \in Node |-> 0]
  /\ seen = [r \in Request |-> Never]
  /\ ledger = <<>>
  /\ pc = [t \in Thread |-> "idle"]
  /\ job = [t \in Thread |-> NoRequest]
  /\ admitted = [t \in Thread |-> 0]
  /\ sel = [t \in Thread |-> NoNode]
  /\ heartbeats = {}
  /\ revoking = {}
  /\ evictNow = Never
  /\ running = [n \in Node |-> 0]

Tick ==
  /\ now < MaxTime
  /\ now' = now + 1
  /\ UNCHANGED <<tile, tokenUntil, revoked, active, seen, ledger, threadVars, controlVars,
                 running>>

----------------------------------------------------------------------------
(* Membership: join, heartbeat, eviction, revocation.                      *)

\* The tile join_node creates.
FreshTile == [status |-> "UP", last_seen |-> now, total_jobs |-> 0, contribution |-> 0]

\* issue_join_token: one more token for n, with its expiry.
IssueToken(n, ttl) ==
  tokenUntil' = [tokenUntil EXCEPT ![n] = IF @ < now + ttl THEN now + ttl ELSE @]

\* join_node: one lock region.  The node is given a token, its tile is replaced by a
\* fresh UP one whatever it was, and its connection count restarts at zero.  (The layer
\* range it is given is added by PipelineWalk, the only reader of it.)
JoinNode(n) ==
  /\ IssueToken(n, TokenTTL)
  /\ tile' = [tile EXCEPT ![n] = FreshTile]
  /\ active' = [active EXCEPT ![n] = 0]
  /\ UNCHANGED <<now, revoked, seen, ledger, threadVars, controlVars, running>>

\* issue_self_token on the node, which holds the mesh secret: the coordinator takes no
\* part, whether the node has joined or not.
IssueSelfToken(n) ==
  /\ IssueToken(n, SelfTokenTTL)
  /\ UNCHANGED <<now, tile, revoked, active, seen, ledger, threadVars, controlVars, running>>

\* Faulty variant: the token's signature and expiry are checked, not its revocation.
TokenAcceptedIfRevoked(n) == tokenUntil[n] >= now

\* verify_join_token: some token issued for the node has not expired, and the node is not
\* revoked.  Whether others of its tokens have expired does not matter.
TokenAccepted(n) == tokenUntil[n] >= now /\ n \notin revoked

\* receive_heartbeat, before the lock.  A rejected heartbeat changes nothing.
HeartbeatVerify(n) ==
  /\ TokenAccepted(n)
  /\ n \notin heartbeats        \* bound: one verified heartbeat of a node at a time
  /\ heartbeats' = heartbeats \cup {n}
  /\ UNCHANGED <<now, tile, tokenUntil, revoked, active, seen, ledger, threadVars,
                 revoking, evictNow, running>>

\* receive_heartbeat, under the lock: `if tile`.
HeartbeatApply(n) ==
  /\ n \in heartbeats
  /\ tile' = IF tile[n].status = "ABSENT" THEN tile
             ELSE [tile EXCEPT ![n].last_seen = now, ![n].status = "UP"]
  /\ heartbeats' = heartbeats \ {n}
  /\ UNCHANGED <<now, tokenUntil, revoked, active, seen, ledger, threadVars, revoking, evictNow,
                 running>>

\* evict_stale_tiles reads the clock before it waits for the lock.
EvictReadClock ==
  /\ evictNow = Never           \* bound: one eviction at a time
  /\ evictNow' = now
  /\ UNCHANGED <<now, tile, tokenUntil, revoked, active, seen, ledger, threadVars, heartbeats,
                 revoking, running>>

\* Faulty variant: a tile is stale already at the timeout.
StaleAtTimeout(n) ==
  tile[n].status = "UP" /\ evictNow - tile[n].last_seen >= OfflineTimeout

Stale(n) == tile[n].status = "UP" /\ evictNow - tile[n].last_seen > OfflineTimeout

\* Faulty variant: a stale tile is removed rather than marked DOWN.
EvictRemovesTiles ==
  /\ evictNow # Never
  /\ tile' = [n \in Node |-> IF Stale(n) THEN NoTile ELSE tile[n]]
  /\ evictNow' = Never
  /\ UNCHANGED <<now, tokenUntil, revoked, active, seen, ledger, threadVars, heartbeats,
                 revoking, running>>

\* evict_stale_tiles, under the lock.
EvictStaleTiles ==
  /\ evictNow # Never
  /\ tile' = [n \in Node |->
                IF Stale(n)
                THEN [tile[n] EXCEPT !.status = "DOWN"]
                ELSE tile[n]]
  /\ evictNow' = Never
  /\ UNCHANGED <<now, tokenUntil, revoked, active, seen, ledger, threadVars, heartbeats,
                 revoking, running>>

\* revoke_node, before the lock.
RevokeToken(n) ==
  /\ n \notin revoking          \* bound: one revocation of a node at a time
  /\ revoked' = revoked \cup {n}
  /\ revoking' = revoking \cup {n}
  /\ UNCHANGED <<now, tile, tokenUntil, active, seen, ledger, threadVars, heartbeats,
                 evictNow, running>>

\* revoke_node, under the lock: `if tile`.
RevokeMarkDown(n) ==
  /\ n \in revoking
  /\ tile' = IF tile[n].status = "ABSENT" THEN tile
             ELSE [tile EXCEPT ![n].status = "DOWN"]
  /\ revoking' = revoking \ {n}
  /\ UNCHANGED <<now, tokenUntil, revoked, active, seen, ledger, threadVars, heartbeats,
                 evictNow, running>>

----------------------------------------------------------------------------
(* Dispatch.                                                               *)

\* Faulty variant: ids are forgotten already at the TTL.
UnexpiredBeforeTTL ==
  [r \in Request |-> IF seen[r] # Never /\ now - seen[r] >= RelayTTL THEN Never ELSE seen[r]]

\* ChaskiRelay._evict: forget the ids recorded more than RelayTTL ago.
Unexpired == [r \in Request |->
                IF seen[r] # Never /\ now - seen[r] > RelayTTL THEN Never ELSE seen[r]]

\* Faulty variant: an id that is let through is not recorded.
RelayAfterUnrecorded(r) == Unexpired

\* ChaskiRelay.is_duplicate(r), one lock region: what it answers and what it leaves.
IsDuplicate(r) == Unexpired[r] # Never
RelayAfter(r) == IF IsDuplicate(r) THEN Unexpired ELSE [Unexpired EXCEPT ![r] = now]

\* dispatch() returns: the thread's locals are gone.
Return(t) ==
  /\ pc' = [pc EXCEPT ![t] = "idle"]
  /\ job' = [job EXCEPT ![t] = NoRequest]
  /\ admitted' = [admitted EXCEPT ![t] = 0]
  /\ sel' = [sel EXCEPT ![t] = NoNode]

\* dispatch(): the relay refuses a duplicate, and the Lambda gate (whose verdict
\* depends on the request alone) rejects one that the relay has by then recorded.
DispatchRefuse(t, r, passed) ==
  /\ pc[t] = "idle"
  /\ IsDuplicate(r) \/ ~passed
  /\ seen' = RelayAfter(r)
  /\ UNCHANGED <<now, tile, tokenUntil, revoked, active, ledger, threadVars, controlVars, running>>

\* dispatch(): past the relay and the gate.
DispatchAdmit(t, r) ==
  /\ pc[t] = "idle"
  /\ ~IsDuplicate(r)
  /\ seen' = RelayAfter(r)
  /\ pc' = [pc EXCEPT ![t] = "select"]
  /\ job' = [job EXCEPT ![t] = r]
  /\ admitted' = [admitted EXCEPT ![t] = now]
  /\ UNCHANGED <<now, tile, tokenUntil, revoked, active, ledger, sel, controlVars, running>>

UpNodes == {n \in Node : tile[n].status = "UP"}

\* f1_least_connections_pick: the fewest active connections, F1 among the tied.
LeastConnections(r, candidates) ==
  F1Pick(r, {n \in candidates : \A m \in candidates : active[n] <= active[m]})

\* dispatch(): the candidate snapshot and the pick made from it.
DispatchSelect(t) ==
  /\ pc[t] = "select"
  /\ UpNodes # {}
  /\ sel' = [sel EXCEPT ![t] = LeastConnections(job[t], UpNodes)]
  /\ pc' = [pc EXCEPT ![t] = "count"]
  /\ UNCHANGED <<now, tile, tokenUntil, revoked, active, seen, ledger, job, admitted, controlVars,
                 running>>

\* dispatch(): no UP tile, honest degradation.
DispatchDegrade(t) ==
  /\ pc[t] = "select"
  /\ UpNodes = {}
  /\ Return(t)
  /\ UNCHANGED <<now, tile, tokenUntil, revoked, active, seen, ledger, controlVars, running>>

\* Faulty variant: the contribution is credited when the job is counted.
DispatchCountAndCredit(t) ==
  /\ pc[t] = "count"
  /\ active' = [active EXCEPT ![sel[t]] = @ + 1]
  /\ tile' = [tile EXCEPT ![sel[t]].total_jobs = @ + 1, ![sel[t]].contribution = @ + 1]
  /\ pc' = [pc EXCEPT ![t] = "receipt"]
  /\ UNCHANGED <<now, tokenUntil, revoked, seen, ledger, job, admitted, sel, controlVars,
                 running>>

\* dispatch(): count the connection and the job on the selected node's current tile.
DispatchCount(t) ==
  /\ pc[t] = "count"
  /\ active' = [active EXCEPT ![sel[t]] = @ + 1]
  /\ tile' = [tile EXCEPT ![sel[t]].total_jobs = @ + 1]
  /\ pc' = [pc EXCEPT ![t] = "receipt"]
  /\ UNCHANGED <<now, tokenUntil, revoked, seen, ledger, job, admitted, sel, controlVars,
                 running>>

\* dispatch(): the routing receipt.  append_routing keeps the request id and not the
\* node it was routed to.
DispatchReceipt(t) ==
  /\ pc[t] = "receipt"
  /\ ledger' = Append(ledger, [job_id |-> job[t], admitted |-> admitted[t]])
  /\ pc' = [pc EXCEPT ![t] = "credit"]
  /\ UNCHANGED <<now, tile, tokenUntil, revoked, active, seen, job, admitted, sel, controlVars,
                 running>>

\* dispatch(): the contribution credit, and the return that starts the job.
DispatchCredit(t) ==
  /\ pc[t] = "credit"
  /\ tile' = [tile EXCEPT ![sel[t]].contribution = @ + 1]
  /\ running' = [running EXCEPT ![sel[t]] = @ + 1]
  /\ Return(t)
  /\ UNCHANGED <<now, tokenUntil, revoked, active, seen, ledger, controlVars>>

\* Faulty variant: a completion is ignored while the node's tile is DOWN.
JobCompleteIfUp(n) ==
  /\ running[n] > 0
  /\ running' = [running EXCEPT ![n] = @ - 1]
  /\ active' = [active EXCEPT ![n] =
                   IF @ = 0 \/ tile[n].status = "DOWN" THEN @ ELSE @ - 1]
  /\ UNCHANGED <<now, tile, tokenUntil, revoked, seen, ledger, threadVars, controlVars>>

\* Faulty variant: the connection count has no floor at zero.
JobCompleteNoFloor(n) ==
  /\ running[n] > 0
  /\ running' = [running EXCEPT ![n] = @ - 1]
  /\ active' = [active EXCEPT ![n] = @ - 1]
  /\ UNCHANGED <<now, tile, tokenUntil, revoked, seen, ledger, threadVars, controlVars>>

\* job_complete(n), called once for a job that was dispatched to n.
JobComplete(n) ==
  /\ running[n] > 0
  /\ running' = [running EXCEPT ![n] = @ - 1]
  /\ active' = [active EXCEPT ![n] = IF @ = 0 THEN 0 ELSE @ - 1]
  /\ UNCHANGED <<now, tile, tokenUntil, revoked, seen, ledger, threadVars, controlVars>>

----------------------------------------------------------------------------
Membership(n) ==
  \/ JoinNode(n) \/ IssueSelfToken(n)
  \/ HeartbeatVerify(n) \/ HeartbeatApply(n)
  \/ RevokeToken(n) \/ RevokeMarkDown(n)
  \/ JobComplete(n)

DispatchStep(t) ==
  \/ DispatchSelect(t) \/ DispatchDegrade(t)
  \/ DispatchCount(t) \/ DispatchReceipt(t) \/ DispatchCredit(t)

Next ==
  \/ Tick
  \/ EvictReadClock \/ EvictStaleTiles
  \/ \E n \in Node : Membership(n)
  \/ \E t \in Thread : DispatchStep(t)
  \/ \E t \in Thread, r \in Request :
       \/ DispatchAdmit(t, r)
       \/ \E passed \in BOOLEAN : DispatchRefuse(t, r, passed)

Spec == Init /\ [][Next]_vars

----------------------------------------------------------------------------
(* Properties.                                                             *)

\* Two times more than the relay's TTL apart.
Apart(a, b) == a > b + RelayTTL \/ b > a + RelayTTL

\* F7 idempotence (ChaskiRelay): two admissions of one request id are more than the
\* relay's TTL apart, however the two dispatches interleave and however late either
\* of them writes its receipt.
AtMostOncePerTTL ==
  /\ \A i, j \in DOMAIN ledger :
       i < j /\ ledger[i].job_id = ledger[j].job_id =>
         Apart(ledger[i].admitted, ledger[j].admitted)
  /\ \A t, u \in Thread :
       t # u /\ pc[t] # "idle" /\ pc[u] # "idle" /\ job[t] = job[u] =>
         Apart(admitted[t], admitted[u])
  /\ \A i \in DOMAIN ledger, t \in Thread :
       pc[t] \in InDispatch \ {"credit"} /\ job[t] = ledger[i].job_id =>
         Apart(admitted[t], ledger[i].admitted)

\* The routing ledger accounts for the work: the jobs counted on tiles are each in the
\* ledger or about to be written there by the thread that counted them, and no tile's
\* contribution (F11) was credited before its receipt.
ReceiptsCoverJobs ==
  LET Jobs == MapThenSumSet(LAMBDA n : tile[n].total_jobs, Node)
      Credits == MapThenSumSet(LAMBDA n : tile[n].contribution, Node)
      At(label) == Cardinality({t \in Thread : pc[t] = label})
  IN  /\ Jobs <= Len(ledger) + At("receipt")
      /\ Credits + At("credit") <= Len(ledger)

\* The scheduler never believes a node busier than it is: its connection count is at
\* most the jobs it runs and those on their way to it, whatever joins and completions
\* came in between.
LoadNeverOverstated ==
  \A n \in Node :
    active[n] <= running[n] +
      Cardinality({t \in Thread : sel[t] = n /\ pc[t] \in {"receipt", "credit"}})

\* dispatch() reads self._tiles[node_id] twice after releasing the lock: the tile it
\* selected is still there, though it may have gone DOWN or been replaced.
SelectedTileExists ==
  \A t \in Thread :
    pc[t] \in {"count", "receipt", "credit"} => /\ sel[t] \in Node
                                               /\ tile[sel[t]].status # "ABSENT"

GoesDownForCause ==
  \A n \in Node :
    tile[n].status = "UP" /\ tile'[n].status = "DOWN" =>
      \/ n \in revoking
      \/ now - tile[n].last_seen > OfflineTimeout

\* A tile goes DOWN only for a reason that holds at that moment: a revocation in
\* progress, or more than OfflineTimeout without a heartbeat, even when one arrived
\* while the eviction was waiting for the lock.
DownIsJustified == [][GoesDownForCause]_vars

\* A node without a token that would be accepted, revoked or expired, whose tile is DOWN,
\* with no heartbeat on its way and no dispatch about to count a job on it.
Retired(n) ==
  /\ n \in revoked \/ tokenUntil[n] < now
  /\ tile[n].status = "DOWN"
  /\ n \notin heartbeats
  /\ \A t \in Thread : ~ (sel[t] = n /\ pc[t] = "count")

\* What revocation and expiry do bring about: once the heartbeats and dispatches under way
\* have passed, the tile stays DOWN and no job is counted on it until the node joins afresh
\* or, if it is not revoked, is issued a token.  A revoked node gets nothing by a new token.
RetirementHolds ==
  [][\A n \in Node : Retired(n) =>
       \/ Retired(n)'
       \/ tile'[n] = FreshTile
       \/ n \notin revoked /\ tokenUntil'[n] >= now]_vars

\* docs/MESH_RUNBOOK.md, on revoke_node: "The coordinator marks the tile DOWN - it will
\* not receive new dispatch".  Once revoke_node has returned, only a fresh join may bring
\* the tile back UP.  Violated: a heartbeat verified before the revocation does.
RevokedStaysDown ==
  [][\A n \in revoked \ revoking :
       tile[n].status = "DOWN" /\ tile'[n].status = "UP" => tile'[n] = FreshTile]_vars
=============================================================================
