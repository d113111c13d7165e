# TLA+ verification of SZL-MESH

This directory holds TLA+ models of the parts of the repository that face
concurrency or disorder of delivery: the **sovereign mesh** (a coordinator
that registers nodes and routes governed work to them, and the agent each node
runs, `src/sovereign/`), the **SZL-MESH runtime** (nodes that replicate an
append-only, receipted CRDT document, quorum certificates and a ledger of
corroborations, `src/szl_mesh/`), and the two smaller programs that promise an
answer independent of the order of arrival (`mesh_command/`, `lab/`). Every module is
translated from the code, with the docs and tests as a second reading. Where code and docs
disagree section 6 says so: three of these disagreements are shown by runs of their own,
the others are described there.

Run a check with `tlc -config X.cfg M` and a proof file with `tlapm M.tla`, in
this directory. Paths below are relative to the repository.

## 1. The system

### Sovereign mesh (`src/sovereign/`, threads over one lock)

| component | state | operations | what makes it correct |
|---|---|---|---|
| **Tile registry** (`MeshCoordinator`) | `_tiles` (node → status, last_seen, counters, layer range), `_revocation_store` | `join_node`, `receive_heartbeat`, `evict_stale_tiles`, `revoke_node`, `tile_status` | a tile goes DOWN, and comes back, only for a reason that holds at that moment; a tile in use is never lost |
| **Dispatch** (`MeshCoordinator.dispatch`) | relay `_seen`, `_active_connections`, `_routing_ledger` | relay check, Λ gate, candidate snapshot, F1 / least-connections pick, count, receipt, credit; `job_complete` | one id is routed once per TTL; every counted job has its receipt; the load the scheduler sees is never above the real one |
| **Layer shares** (`assign_layers`, `_pipeline_plan`) | each tile's `vram`, `layer_start`, `layer_end` | place a joining node; plan a chain of tiles that covers the model | the placement is the least loaded; "covered" is said exactly when it is true; the plan is the shortest |
| **Pipeline walk** (`run_pipeline`) | a call's locals, over the coordinator's state | plan once, one dispatch per stage, under a step budget | it ends; it reports "converged" only for a covered plan, within budget, one receipt per stage |
| **Node agent** (`szl_mesh_agent.py`) | `_token`, `_contribution`, `_running`; `JobReceiptLedger` (`_chain`, `_head_hash`), `NodeRegistry`, the shared revocation store | `issue_self_token`, `accept_external_token`, `revoke_self`, `start_heartbeat`, `stop_heartbeat`, `accept_work`, `append`, `verify_chain`, `register`, `heartbeat`, `evict_stale`, `add_contribution` | receipts chain in order whichever threads append; credit is never above the receipts; a revoked node takes no new work; a stopped heartbeat stops |
| **HTTP API** (`api.py`) | a lazily created coordinator | thin routes, 5xx → honest degradation | the lazy constructor call (line 122) passes a keyword the constructor does not take, so every route degrades |
| `KhipuBFT` | a node set | counts ≥ 4 | a constant answer, no protocol |

Interactions: API routes and clients call the coordinator from many threads.
The coordinator locks per *region*, not per call: `dispatch` takes the
coordinator's lock three times, the relay's and the ledger's once each; `receive_heartbeat`,
`revoke_node` and `evict_stale_tiles` each do work before taking it. The hard
part is what comes between two regions. Nothing is persisted; the relay
expires ids by the clock; heartbeats race evictions and revocations.

In the agent the chain and the registry have locks, but `_token`,
`_contribution` and `_running` have none. `accept_work` reads the token twice,
appends its receipt, adds to the count (a read and a write), reads the count
again for its assertion, and only then credits the registry: calls of other
threads come between any two of these. `start_heartbeat` starts a thread without
looking for one that runs already, so loops may pile up.

### SZL-MESH runtime (`src/szl_mesh/`, one thread per node, messages between)

| component | state | operations | what makes it correct |
|---|---|---|---|
| **CRDT document** (`crdt.py`) | op log keyed by op id, a track per op | `add_op`, `set_op_track`, `merge`, views, heads | replicas with the same ops show the same state |
| **Formation gateway** (`enrollment.py`) | `cert_store`, `revoked` | `enroll` (a ladder of refusals), `revoke`, `pubkey_registry` | only admitted, unrevoked keys verify receipts |
| **Receipt gate** (`receipts.py`) | none | build, sign, `validate_receipt` | a VALID receipt is by a known signer, over this very op, in the window |
| **Node** (`node.py`) | `_lamport`, document, `receipt_ledger`, `enrolled` | `enroll`, `write`, `apply_remote`, `_classify` | an op is AUTHORIZED only on evidence held; writes follow what their author saw, after a write that raised too |
| **Harness** (`harness.py`) | its nodes, `_broadcast_log` | `add_node`, `write`, `gossip`, `converged` | a gossip round makes all nodes agree on what is in the log |
| **Quorum certificates** (`quorum.py`, vendored `khipu_consensus`) | the certificate, as JSON | `sign_verdict`, `tally`, `propose_action`, `verify_quorum` | canonical needs as many distinct trusted organs as the verifier's policy asks for, each having signed an allow of this action; what is added on the way demotes nothing |
| **Corroboration** (`quorum.py`) | `entries` per collector: status, list of nodes, k, class, window | `observe`, `mark_failed`, `combined_classification` | CORROBORATED needs k distinct nodes, so with k above the number of Byzantine ones an honest one among them; collectors agree on nodes, status, k and class |
| **Spine** (`spine.py`) | none | folds a transition into an external receipt shape | a pure conversion |

Interactions: a gateway is shared by reference, so a revocation is seen by all
nodes at once; a write returns an op and an envelope, which reach other nodes
by gossip, in any order, any number of times, with or without the envelope.
A certificate's signatures cover each organ's verdict about an action. The
fields around them (action, policy, the verdict's copy, the `canonical` flag) are not
signed, so the verifier must not believe them.

### Order of arrival (`mesh_command/`, `lab/`)

| component | state | operations | what makes it correct |
|---|---|---|---|
| **Mesh command** (`mesh_command/app.py`) | none but a request | `merge_snapshots`: vector clocks, last-writer-wins registers, tombstones, conflicts | the reply does not depend on the order in which the sites are listed; the relations agree with the joined clock |
| **Mesh lab** (`lab/simulator.py`) | none but a scenario | read rows, refuse conflicting ones, feed every replica in an order of its own, check convergence, replay, commutativity, associativity | a scenario that is accepted converges, and would by merging what the replicas hold |

### Others

`proto/`, `examples/`, `demo.py`, CI scripts, web pages: see `PROJECT.json`, *components*.

## 2. The models

| module | models | state ↔ code |
|---|---|---|
| `MeshCoordinator` | tile registry, revocation, relay, dispatch, ledger | one action per **lock region**, so that everything the locks allow interleaves. `pc`, `job`, `sel` are the locals of a thread in `dispatch`; `heartbeats`, `revoking`, `evictNow` are calls standing before their lock; `running` is the clients' side (jobs not yet reported complete), and `tokenUntil` the nodes' side: the latest expiry among the tokens issued for each, by the coordinator or by the node itself |
| `LayerPlan` | `assign_layers`, `_pipeline_plan` as operators, the sliding window and the greedy walk as recursive functions | a share is `[vram, first, last]` |
| `LayerAssignment` | shares as nodes join and re-join | `shares` |
| `PipelineWalk` | `run_pipeline` over `MeshCoordinator` and `LayerPlan` | `run[t]` is the call's locals, then its result; each stage is a `dispatch` of `MeshCoordinator`, step by step |
| `CRDTDocument` | `crdt.py` as operators | a document is a function from ops to tracks |
| `ConvergentMap` | **abstract specification** of the replicated document: write after all you know, learn, never drop | `written`, `known` |
| `MeshNode` | gateway, receipt gate, nodes, and a network that reorders, repeats and drops records and strips envelopes | `lamport`, `doc`, `receipts` per node; `sent` is what writes returned. `WriteRaises` is a write that fails after it moved the clock, before or after it logged its op |
| `MeshHarness` | the harness over `MeshNode`: rounds of deliveries | `pending` is what is left of the round |
| `MeshAgent` | the node agent, its chain, its registry record and its heartbeat loops | one action per lock region, and one per read or write of what has no lock. `pc`, `prev`, `mem` are a thread's place in `accept_work`, its `prev_contribution` and the operand of its `+=`; `managing` is the place of the one thread that joins, leaves, starts and stops; `sleeping` and `beating` count heartbeat loops by where they stand |
| `QuorumCertificate` | the khipu engine, `propose_action`, `verify_quorum`, and what may happen to a certificate between them | `issued` and `cert` are the certificate at its proposer and as it is by now; `signed` is all that organs ever signed; `damage` and `faults` count changes. An organ that JSON gives as a list or an object is `Unhashable`, and `Raises` says when the verifier comes to no verdict for it |
| `CorroborationLedger` | `CorroborationLedger` of `quorum.py`, one per collector, honest and Byzantine reporters | `entries`, whose nodes are a sequence in order of arrival and whose window is the first caller's; `sighted` and `heard` are history |
| `ConvergenceLab` | `simulate_scenario`, over documents kept as the program keeps them: logs in order of arrival | `delivered` rows, `unique` ops with their tracks, `report` |
| `SnapshotMerge` | `merge_snapshots` and the request's validation | `request`, `tombstones` (the flag `include_tombstones`), `reply` |
| `ArrivalOrder` | the three above in one specification | `part` says which of the three a behaviour follows |
| `MC*` | instances for TLC | |
| `*_proofs` | theorems; `ArrivalOrder_proofs` has those of the three modules it composes, `MeshHarness_proofs` those of `MeshNode` | |
| `Recursion` | no code: lemmas on induction, recursion, sums, sorted sequences and folds that the proofs share | |

`PipelineWalk` EXTENDS `MeshCoordinator` and `LayerPlan`; `MeshHarness` EXTENDS
`MeshNode`, which EXTENDS `CRDTDocument`; `MeshNode` implements `ConvergentMap`.
`ConvergenceLab` EXTENDS `CRDTDocument` too: the former folds a log from its first
op to its last, as the loops of `crdt.py` do, and the latter says which op
of each key is latest, and `FoldsAreMaxima` ties the two. So what `MeshNode` assumes of
documents is checked against the loops. `ArrivalOrder` EXTENDS `CorroborationLedger`,
`ConvergenceLab` and `SnapshotMerge`.
The definitions named *Faulty variant* are plausible bugs of the definition that
follows them. They are used by no specification; `PROJECT.json`, *mutants*,
pairs each with the property that rejects it.

What the models abstract:

- **Data.** Names, payloads and models are model values. An op *is* its content
  hash, so equal ops are one op; `Hash` only orders them. Node ids of the
  runtime are naturals (digests are compared by order). Signatures are the
  signer's name: enrolled keys are honest and a signature verifies exactly when
  the signer is in the registry. Down-reasons, labels, logs, digests are left out.
- **Hash of the pick.** `F1Pick` is a constant operator with the one assumption
  that it returns a member of the set it is given.
- **Time.** One clock, not going backwards, read as an integer (receipt timestamps are
  whole seconds in the code, so a receipt there looks up to a second older than it is). The time-outs
  are constants; their boundaries (`>` or `>=`) are kept.
- **Λ gate.** Its verdict depends on the request alone, so it is a free choice
  of `DispatchRefuse`, and fixed per run (the field `passes`) in `PipelineWalk`.
- **Tokens.** `verify_join_token` accepts every authentic token that is unexpired and whose node
  is not revoked. So of all the tokens issued for a node, by `join_node` or by `issue_self_token`,
  only the latest expiry decides whether the node can send a heartbeat that is accepted; it is
  kept in `tokenUntil`, and a join or a self-issued token can only move it on.
- **Layer shares** are separate from `tile`: only the plan reads them.
- **Hashes and signatures.** `KhipuHash` of the agent's chain is a constant operator
  of which nothing is assumed (a pair in TLC). In `QuorumCertificate` a record is who
  signed what, plus a flag that says whether it is still as it was signed. A digest
  that the lab compares is the view it digests.
- **Order of strings.** Sites, writers, keys and op hashes are compared as the code compares
  strings: they are numbers where only the order matters.
- **Replies.** The snapshot reply leaves out the receipt with its `input_digest`. That digest
  is taken of the request as listed, so it does follow the order of the list.
- **Agent.** The receipts' fields that no property reads (model, latency, policy score) are
  left out; the policy gate's verdict depends on the request alone, so it is a free choice of
  `Reject`. `AcceptExternalToken` takes any token the coordinator can have issued by now.
- **Steps shrunk.** `dispatch`'s relay check and Λ gate are one action: the gate
  reads no shared state, so nothing can come between that matters.

## 3. What is checked

Each run asks its own question. Its cfg checks for deadlock too, except where the system
really may stop: the pipeline runs (every call has returned and no tile is left to revoke),
`quorum_certificate` (no change is left to the bound) and `arrival_order` (a request or a
scenario is over when it is answered).

| run | instance | shows |
|---|---|---|
| `coordinator_timing` | 1 node, 2 threads, 1 id, relay TTL 1, timeout 1, tokens 2 (from a join) and 1 (self-issued), clock 0..4 | `AtMostOncePerTTL`, `DownIsJustified`: ages strictly inside, at, and beyond each limit; the same id admitted again after its TTL while its first dispatch is still under way |
| `coordinator_load` | 2 nodes, 2 threads, 1 id, limits 0, clock 0..1 | `TypeOK`, `ReceiptsCoverJobs`, `LoadNeverOverstated`, `SelectedTileExists`, `RetirementHolds`: the node picked dies, re-joins or is revoked in mid-dispatch, completions come after a re-join has reset the count; a revoked or expired node issues itself a token while its last heartbeat is still on its way |
| `coordinator_revoked` | as above | *violation*, see section 6 |
| `layer_assignment` | 3 nodes, 5 layers, VRAM 0, 1 or 3 | `PlanIsExact`, `PlanIsMinimal` for every subset of UP tiles; `PlacedWhereLeast`. Re-joins make overlapping and gapped covers |
| `pipeline_walk` | 2 nodes, 2 layers, 2 threads with the same base request, budgets 1..2 | `ConvergedIsClosed`, `ConvergesOnce`, `Terminates` (liveness), within one relay TTL: the clock stands still |
| `pipeline_span` | as above, a pick that prefers one node | *violation*, see section 6 |
| `mesh_node` | 2 nodes, 1 key, 3 writes, skew 0, clock 0..1, Lamport ≤ 4 | `TypeOK`, `AuthorizedIsBacked`, `PromotionIsJustified`, and `ImplementsConvergentMap` (refinement): concurrent writes, deletions, writes that raise before or after their op is logged, repeats, stripped envelopes, revocation, late enrolment |
| `mesh_node_downgrade` | as above | *violation*, see section 6 |
| `mesh_harness` | 3 nodes, 2 values, 2 writes, 2 rounds | `RoundConverges` (liveness), `RoundAuthorizes`: any delivery order, a node that joins between rounds, an op first delivered outside its window, an op that a raising write left with its author alone, before or after others of its key |
| `mesh_agent` | 1 agent, 0 to 2 calling threads, token TTL 0, timeout 0, clock 0..1, 3 receipts, 2 heartbeat loops | `TypeOK`, `ChainIntact`, `CreditNeverInflated`, `SerialCreditIsExact`, `RevokedNodeIsQuiet`, and `HeartbeatsEnd` (liveness): lost credits, failing assertions, re-joins amid a call, revocation between the token's check and the receipt, loops left over by a stop and a start |
| `quorum_certificate` | 3 organs, all trusted, 2 actions, a policy of 2 of 3 and a laxer one, lists of 3 organs, 2 verdicts signed elsewhere, 2 changes on the way; symmetry in organs and actions | `TypeOK`, `CanonicalIsEarned`, `GenuineQuorumSurvives`, `ProposerAndVerifierAgree`: an organ listed twice, records replayed from another action, relabelled, misquoted, spoiled, lost, or with an organ that is no name; action and policy rewritten |
| `arrival_order` | 2 collectors, 3 reporters (1 Byzantine), 1 change, a class with k = 1 and one without a policy, so k = 2, 2 windows; symmetry in collectors, honest reporters and windows; scenarios of 3 rows over 3 ops of one key and one Lamport time, 2 or 4 replicas; requests of up to 3 sites, 4 registers, 5 clocks | `TypeOK`, `SoftSafety`, `CollectorsAgree`, `ScenariosConverge`, `FoldsAreMaxima`, `PartitionsReconcile`, `ArrivalIndependent`, `RelationsAgreeWithClock` |

**Bounds.** `MaxTime`, `MaxLamport`, `MaxSkips`, `MaxWrites`, `MaxRounds`, `MaxSteps` stand
in guards and are named *bound* there, as are: one verified heartbeat, one
revocation of a node and one eviction under way at a time; in `MeshAgent`, `MaxReceipts`
and `MaxLoops`; in `QuorumCertificate`, `MaxOrgans`, `MaxElsewhere` and `MaxFaults`; in
`SnapshotMerge`, `MaxSnapshots`; in `PipelineWalk`,
one call per thread, a clock that stands still, and joins of nodes that are not
UP. So what is said of pipelines is said within one TTL of the relay: after it the same base
id may be run, and converge, again. Two nodes are enough for the coordinator because its invariants speak of one
node or of one id in two threads; a third node adds no new interleaving of the
lock regions. Limits of 0 with two instants make every age either inside or
beyond. Three nodes are needed in the harness (a pair that has exchanged and a
late one), and three shares are the least that make an unlucky greedy choice
possible. The theorems of section 5 do away with the bounds on nodes, ids, threads
and limits for the properties they cover.

`coordinator_timing` has one node because time is its subject, and
`coordinator_load` two instants because interleaving is. In the node runs a skew
of 0 makes a receipt acceptable in the instant of its write and not after it. `MaxSkips` bounds
the writes that raise before their op exists, which only move a clock: in `mesh_harness` it is 0,
as gossip brings ops and not clocks, and `mesh_node` has such writes in any order with the rest.

In `mesh_agent` two threads suffice for every race of the unlocked count, three receipts
for one thread to work beside another's two, and two loops for one that a restart left over. In
`quorum_certificate` two changes are as many as a 3-of-3 certificate has to spare of a
2-of-3 policy and one more, so both sides of `GenuineQuorumSurvives` occur; the verifier there has every organ's key, and an
organ without one is met by the theorems, which are for any `Trusted`. In
`arrival_order` the ops of a scenario tie in Lamport time, so every winner is decided
by the tie-break; four replicas take all four of the lab's orders; the registers
differ in their time, their writer, or only in being a tombstone; the clocks
name a site, name it with zero, or leave it out. `MaxRows` is the code's `MAX_OPERATIONS`, made small.

## 4. Fairness

- `MeshCoordinator`, `MeshNode`, `LayerAssignment`, `QuorumCertificate`, `ArrivalOrder`:
  none. Clients, clocks and networks owe nothing; only safety is claimed.
- `MeshAgent`: weak fairness of `HeartbeatWake` and of `HeartbeatSend`. The loops are
  threads of their own that wait for their sleep and for the registry's lock, and
  what a heartbeat raises is caught. Nothing is assumed of the callers of
  `accept_work`, nor of the managing thread.
- `PipelineWalk`: weak fairness of each thread's `PipelineStep`. `run_pipeline`
  is a loop that waits for nothing but a lock, and every lock region is one
  action. Nothing is assumed of `Environment`.
- `MeshHarness`: weak fairness of `GossipStep`. `gossip()` is a loop over a
  list, and `apply_remote` raises on no record a write returned (a write that raised returned none). Calls outside a
  round, and the clock, are not fair.

## 5. What is proved

TLAPS proves these for all constants that meet the named assumptions: limits
are naturals; `F1Pick` picks from a non-empty set; null values are not ids;
runtime node ids are naturals; nodes of the coordinator, threads, organs and reporters are
finitely many; a quorum policy asks for at least one and at most all of its organs; sites
are naturals and clocks count them in naturals; and, of the lab's ops, two never share an
op id (`OrderAssumption`: it is a SHA-256 digest of the op's fields, and a collision is the one
case in which the program itself would take two ops for one). `WritesAreRead` alone also asks
that op ids are naturals, since it needs their order to be irreflexive.

What a recursive function or a fold computes is proved by induction too. The induction
theorems of the library take an operator as a parameter, which the provers cannot instantiate, so
`Recursion` states them of sets: a property is the set of the values that have it, a step is
a function (`UpTo`, `SubsetByElement`). On these rest the existence of recursive
functions and folds, the rules of sums, and that a finite ordered set has one
sequence in its order. A `CHOOSE`n function (`LET f[n] == ...`) is matched by naming its
equation (`IsWalk`, `IsSlide`, `IsMergeFold`, ...), as it is never looked into otherwise.

| theorem | argument |
|---|---|
| `MeshCoordinator_proofs!TypeCorrect` | `TypeOK` alone is not inductive: `DispatchCount` needs `sel[t]` to be a node. `ThreadInv` adds that a thread past `select` has one, and one in dispatch has a request |
| `SelectedTileIsThere` | no step makes a tile ABSENT (`TilesStay`), and a pick is among the UP tiles (`PickIsCandidate`, from the existence of a least connection count) |
| `RequestsAreIdempotent` | `F7Inv`: besides the property, each admission still within the TTL is *remembered* by the relay with a time no earlier than it, and admissions are in the past. Then a lookup that misses an id proves that the last admission is more than the TTL ago |
| `DownOnlyForCause` | `EvictInv`: the clock an eviction read is not ahead of the present, so what was stale then is stale now; a heartbeat in between refreshes `last_seen` and so is seen under the lock |
| `RetiredNodesStayOut` | the part of `revoke_node`'s promise that finding 1 of section 6 leaves, and the same of expiry. A retired tile is DOWN, has no acceptable token, no heartbeat past its check and no dispatch about to count on it. Membership steps keep it so, or are the fresh join or the token that the property names (`RetiredMembership`); a dispatch picks an UP tile and the others touch no status (`RetiredDispatch`) |
| `LoadIsNeverOverstated` | inductive with the types: a count goes up when its thread comes on the way (one member more, `ThreadsAreCounted`), a job when that thread leaves it; a completion takes one off both sides, and a join sets the count to zero |
| `LedgerAccountsForJobs` | `CoverInv`, with the types: the property, its sum over the tiles written with `Recursion`'s `Sum`, whose rules say what one summand's change does. A count adds one to the jobs and brings a thread to "receipt", a receipt moves that thread to "credit" and adds one to the ledger, a credit takes it off; joins and completions only lower the counters (`CountersCompare`) |
| `LayerAssignment_proofs!PlansAreExact` | the walk keeps `Greedy` at each turn (stages abut, each on an UP tile that holds its layers) and is `Stuck` after as many turns as there are tiles and one more; below the last layer it is stuck only where no UP tile holds the next one |
| `PlansAreMinimal` | each stage reaches as far as any tile that holds its first layer; so another set of tiles that covers the layers has a tile of its own for each stage, and is no smaller |
| `JoinsArePlacedWhereLeast` | `SharesInv`; the running total of the slide is the sum of its window (`WindowMoves`), so the window kept is the first of the least |
| `MeshHarness_proofs!TypeCorrect` | types, and that the gate knows two tracks |
| `AuthorizedHasEvidence` | `NodeInv` = types, `LogInv`, `SentInv` (a record's envelope names its op and an enrolled author, who holds the op), and the property. `LogInv` says of logs, failed writes included: a node's clock is at least that of each op it holds (`ClockInv`), an op's author holds it (`HoldInv`), and gives no two ops one time (`StampInv`) |
| `PromotionForCause` | from `NodeInv`: only the delivery at hand promotes |
| `NodesImplementConvergentMap` | an op counts as written once a log has it. So each `Write`, and each `WriteRaises` that got as far as the log, maps to an abstract `Write` (its Lamport time is above all its author holds, by `ClockInv`, and nobody holds it yet, by `HoldInv`), each `Deliver` to `Learn`, and the rest, the writes that raise before the log included, to stuttering |
| `MeshHarness_proofs!RoundLeavesAuthorized` | `HarnessInv`: `NodeInv`, an op has one record, stamped in the past (`RecordInv`), the author of a timely record shows it (`OwnInv`), and what the round has delivered is shown (`Settled`). Records age and revocations stay, so what is timely later was timely at its delivery (`TimelyBefore`) |
| `RoundsEndConverged` | the safety half of `RoundConverges`: the delivery that ends a round leaves all nodes with the same OBSERVED value of every key but those that raising writes keep apart, and with one OBSERVED view if the nodes hold no op of such a write. `HeldInv`: what a node holds was sent, unless it is such an op of its own (`UnsentInv`); and within a round it holds all but what that round still has to deliver to it. Of a key outside `Apart` the last op is a sent one (`LastIsLastSent`), and of these there is one (`OneLastSent`, by `StampInv`) |
| `RoundsEndAuthorized` | from `HarnessInv` and `HeldInv`: a round that ends while every record is in its window, and no author is revoked, leaves all nodes with one AUTHORIZED view, for the op of a raising write is OBSERVED where it is; and outside `Apart` that view is the one of the OBSERVED track. This is what `tests/test_runtime.py:212` asks of both tracks, with the conditions it depends on |
| `WritesAreRead` | a write is what its node reads next, on the OBSERVED track, and on the AUTHORIZED one unless the node is revoked: its Lamport time is above all the node holds (`WritesAreLast`), and the op that is last of its key is read (`LastOpIsRead`) |
| `HarnessIsConvergent` | `PendingInv`, a part of `HeldInv`, says that a round delivers sent records to enrolled nodes; so the steps of the harness are deliveries and writes of `MeshNode`, raising ones included, or touch no document, and refinement and evidence carry over |
| `PipelineWalk_proofs!PipelineIsAClient` | every step of a run is a step of the coordinator or leaves it alone: `PipelineSpec => Spec` |
| `StagesAreSafe` | hence what holds of the coordinator holds under pipelines: its four safety invariants, within one TTL. (Its action properties are not restated: beside pipelines only joins, revocations and completions happen here, and no heartbeat or eviction) |
| `OneRunConverges` | `WalkInv`: of the runs of one base request that are still worth something, at most one has set out past its first stage, since the relay takes a stage's id once (`F7Inv`) |
| `ConvergedRunsAreClosed` | a plan's stages are a sequence, and a run completes them in order, each with a receipt; just one receipt by `AtMostOncePerTTL`, as the clock stands still: this and `OneRunConverges` speak of one TTL |
| `WalksDescend` | the safety half of `Terminates`: each step of a walking thread ends its walk or lowers `Ahead(t)`, five times the stages left and the rank of its `pc`, and no step of anyone else changes it |
| `MeshAgent_proofs!TypeCorrect`, `ChainIsIntact` | inductive as they stand: each append moves number, hash and head under one lock |
| `CreditIsNeverInflated` | `CountInv` adds `StoresStayBelow`: what a thread is about to store is at most the receipts less the calls that have not counted yet. A lost update only lowers the count, and a join between receipt and credit resets it |
| `SerialCredit` | `SerialInv`: while there is one caller, all other threads are idle, and its `prev` and `mem` are the present count until it stores (`OnlyCaller`) |
| `RevokedNodeStaysQuiet` | by cases on the actions: `TokenAccepted` is false once the store has the node |
| `StoppedLoopsDescend` | the safety half of `HeartbeatsEnd`: once the agent is stopped no step raises `LoopSteps`, the sleeping loops and twice the beating ones, and each step of a loop lowers it |
| `QuorumCertificate_proofs!TypeCorrect` | record by record |
| `QuorumIsEarned` | `Backed`: the statement inside every record has been signed. Counting organs are then among the trusted signers of the action, and a subset is no larger (`FS_Subset`) |
| `QuorumSurvives` | `Spared`: while the action is that of the issue, the genuine organs that no longer count are at most `damage`. A change that loses, spoils or relabels a record takes at most one organ from those that count; additions and misquotes take none. That the verifier comes to a verdict (`~ Raises`) is a premise: see section 6 |
| `ProposerIsBelieved` | `FlagsAsTallied`: a certificate's flags are those of its own tally. Organs named once each make records and organs a bijection (`TallyCountsOrgans`) |
| `ArrivalOrder_proofs!LedgerTypeCorrect`, `TypeCorrect` | types, of the ledger alone and of the three parts together |
| `CorroborationIsSoftSafe` | `SafetyInv`: the nodes of an entry could report it (Byzantine, or having sighted it), and a CORROBORATED one reached the threshold of a class that some report named. More nodes than Byzantine reporters means an honest one |
| `CollectorsAlwaysAgree` | `AgreeInv`: an entry's list names the nodes of the reports heard, each once, in whatever order they came (`EnteredIs`); its class and threshold are those of the reports; and while the reports are of one class and nothing is marked failed its status is a function of the set of nodes |
| `LedgerIsAPart` | a step of another part leaves the ledger alone: `Spec => LedgerSpec`, so the three results above hold of the composition |
| `MergeIsAJoin` | `crdt.py:187` says of `merge` that it is "commutative, associative, idempotent": of logs that `Hold` their sets of ops on the same tracks it is (`LogsMerge`), as what a log shows is a function of its set |
| `AcceptedScenariosConverge`, `LogsShowTheirOpSets`, `PartitionsMergeToTheReport` | `LabInv`: the unique ops are those of the rows, each on the one track its rows name, and the report is the replicas' snapshots. A log in any order `Holds` its set of ops, each once; a fold over it ends with the latest op of each key, which is unique because `Before` orders the ops (`OrderAssumption`). So what a replica shows is a function of its set, and merging two logs shows the union |
| `MergesForgetArrival` | `MergeInv`: a request that is answered names no site twice. So sorting by site gives one sequence however the sites are listed (`BySiteForgetsTheOrder`), and all that follows is computed from it |
| `MergedRelationsAgree` | the fold of the clocks is their pointwise maximum (`JoinedIs`), and the relation given for a site says how its clock stands to that one (`RelationIs`) |

Every invariant that a passing run checks, every action property and the refinement has its
theorem here. Only model-checked are the liveness properties `Terminates`, `RoundConverges` and
`HeartbeatsEnd`: fairness and ENABLED are out of the prover's reach. `WalksDescend`,
`RoundsEndConverged` and `StoppedLoopsDescend` prove what liveness rests on, that the steps
which are fair come to an end and where they leave the system. What they do not prove is that
these steps are taken; that, and that none is blocked, TLC checks.
`RoundsEndAuthorized`, `WritesAreRead` and `MergeIsAJoin` state what no
run's cfg names: they go beyond the instances' properties and rest on the same invariants.

## 6. Disagreements between code and documents

1. **A revoked tile can come back UP** (`coordinator_revoked`). A heartbeat
   verified before the revocation and applied after it sets the tile UP, and
   dispatch picks it again until it goes stale. `docs/MESH_RUNBOOK.md:239` says it
   "will not receive new dispatch". `RetirementHolds`, checked and proved, says that
   once the tile is DOWN and neither such a heartbeat nor a dispatch about to count on it is left, it
   receives none until the node joins afresh.
2. **An op leaves AUTHORIZED without a revocation** (`mesh_node_downgrade`).
   `apply_remote` classifies on every delivery, so delivering a record again after
   the skew, or without its envelope, sets OBSERVED. `spec/02-two-track-state.md:147`
   says "immutable once set — downgrade only via revocation".
3. **"converged" does not say that the layers were served** (`pipeline_span`). The
   plan covers the layers, but each stage is dispatched to the least-connections
   choice among all UP nodes, not to the planned tile. The nodes that got the
   stages may leave layers out.

Met while modelling, where no run is kept because the properties above are stated as far as
the code goes:

- **A write that raises leaves its op behind.** `write` (`node.py:107-118`) has moved the clock and
  logged its op when `build_state_transition_statement` refuses the `transition_class`
  (`receipts.py:113`). The op stays OBSERVED in its writer's document, without a
  receipt, and the harness logs no record of it (`harness.py:53-54`), so no round brings it to
  anyone. `harness.py:7` says that "all nodes converge to byte-identical state regardless of delivery order";
  `RoundConverges` excepts the keys (`Apart`) whose last op is such a one. The writer's next
  write of the key that succeeds brings the nodes together again.
- **A witness whose organ is a list or an object** makes `pubkeys.get` raise
  (`khipu_consensus/__init__.py:152`), out of `verify_quorum`, whatever the other records are. `quorum.py:311-315` says
  of malformed input "never an exception", and `tests/test_quorum.py:275` "never raise". So the exception `Raises` in
  `GenuineQuorumSurvives`; no quorum is made up by it (`CanonicalIsEarned`).
- **Two fields of an annotation do not converge**: `corroborating_nodes` is a list in order of arrival
  (`quorum.py:473`) and `window_expires_at` the first caller's (`quorum.py:467`), where `quorum.py:429-431` speaks of
  convergence by set union. `CollectorsAgree` asks for the same nodes, each once, and says nothing
  of the order and the window.

- **The threshold of a corroboration is that of the last report's class**
  (`quorum.py:474`), not the `policy_k` that the entry records. So one report that names a lax
  class corroborates an entry opened under a stricter one, and with mixed
  classes the status depends on the order of the reports: hence the premises of
  `SoftSafety` and `CollectorsAgree` about classes. A `mark_failed` that comes before the
  first report is lost, which is why failed annotations are excepted.
- **An organ listed twice** in a proposal counts twice in the proposer's `canonical` flag, which
  comes of the raw tally, and once for the verifier: hence the premise of
  `ProposerAndVerifierAgree`.
- **Documents that hold an op on different tracks** do not merge independently of the order (`merge`
  keeps the track it has). The lab refuses such scenarios, and says so;
  `crdt.py:187` promises more. `MergeIsAJoin` proves the promise of documents that agree on
  tracks.
- **The two counts of a contribution** diverge: a re-join resets the registry's credit and not
  the agent's own, and concurrent calls of `accept_work` may lose a credit, or
  raise after the receipt is written. Both err to the low side, which is what
  `CreditNeverInflated` states.

## 7. Not modelled, and the plan

Modelled so far: everything that keeps state under concurrency or disorder. In order, what
is left to do:

1. Proofs: that a fair step is possible while a walk, a round or a loop is not over, stated
   without ENABLED (a successor given outright), beside the three descents of section 5;
   types and `CreditNeverInflated` for the composition of point 3.
2. The enrolment gateway's full ladder of refusals; `MeshNode` has the honest request and its two
   stateful refusals. The other rungs check fields of the request and return before anything is stored.
3. Composition of `MeshAgent` with `MeshCoordinator`: the two share the revocation store
   and the token. Both sides are modelled and each treats the other's calls as free
   choices (`RevokeToken`, `AcceptExternalToken`; heartbeats of any node).

Not modelled: the HTTP layers (`api.py`, the FastAPI routes of `mesh_command` and of the lab:
routes without state of their own; field limits of requests are left to the type of
`SiteSnapshot`); `spine.py` (a pure conversion into an external library's shape);
`KhipuBFT` (a constant answer, no protocol); GPU probing and the inference call of the agent; the
web pages, `demo.py`, examples, protobuf files and CI scripts. Cryptography and
JSON canonicalisation are taken as honest throughout.
