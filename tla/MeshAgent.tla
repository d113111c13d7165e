----------------------------- MODULE MeshAgent -----------------------------
(***************************************************************************)
(* One node's agent (src/sovereign/szl_mesh_agent.py): its join token, its *)
(* receipt chain, its two contribution counts (its own and the one in the  *)
(* node registry) and its heartbeat loops.  The chain and the registry     *)
(* have locks; the token, the agent's own count and the running flag have  *)
(* none, so accept_work is a sequence of steps that calls of other threads *)
(* come between.  One thread at a time manages the agent (joins, leaves,   *)
(* starts and stops its heartbeat).                                        *)
(***************************************************************************)
EXTENDS Integers, Sequences, FiniteSets

CONSTANTS
  Thread,            \* the threads there are to call accept_work
  Job,               \* request ids
  TokenTTL,          \* JOIN_TOKEN_TTL_S, in clock ticks
  OfflineTimeout,    \* NODE_OFFLINE_TIMEOUT_S
  MaxTime,           \* bound of the model: the clock stops here
  MaxReceipts,       \* bound of the model: calls that may write a receipt
  MaxLoops,          \* bound of the model: heartbeat loops alive at a time
  Genesis,           \* JobReceiptLedger.GENESIS_HASH
  KhipuHash(_, _)    \* khipu_hash: SHA-256 of the previous hash and the body

ASSUME ThreadAssumption == IsFiniteSet(Thread)
ASSUME TimeAssumption == TokenTTL \in Nat /\ OfflineTimeout \in Nat /\ MaxTime \in Nat

VARIABLES
  now,           \* time.time()
  callers,       \* the threads that call accept_work in this run, fixed
  revoked,       \* the node is in the revocation store, which the mesh shares
  token,         \* _token: when it expires, or NoToken
  entry,         \* the node's record in the NodeRegistry
  chain,         \* JobReceiptLedger._chain
  head,          \* JobReceiptLedger._head_hash
  contribution,  \* _contribution, the agent's own count
  pc,            \* where each thread stands in accept_work
  prev,          \* prev_contribution of each thread
  mem,           \* the value of _contribution each thread's += works on
  managing,      \* where the managing thread stands
  running,       \* _running
  sleeping,      \* heartbeat loops in their sleep
  beating        \* heartbeat loops between their check and their heartbeat

workVars == <<callers, pc, prev, mem>>
loopVars == <<running, sleeping, beating>>
vars == <<now, callers, revoked, token, entry, chain, head, contribution, pc, prev, mem,
          managing, running, sleeping, beating>>

NoToken == -1

Entry == [status : {"ABSENT", "ONLINE", "OFFLINE"}, last_seen : Nat, credit : Nat]
NoEntry == [status |-> "ABSENT", last_seen |-> 0, credit |-> 0]

\* The steps of accept_work after which its receipt is in the chain, and those among
\* them that have yet to store the agent's own count.
Uncounted == {"remember", "load", "store"}
Receipted == Uncounted \cup {"assert", "credit"}

Step == {"idle", "verify", "append"} \cup Receipted

IsSequence(s) == s \in Seq({s[i] : i \in DOMAIN s})

TypeOK ==
  /\ now \in Nat
  /\ callers \subseteq Thread
  /\ revoked \in BOOLEAN
  /\ token \in Nat \cup {NoToken}
  /\ entry \in Entry
  /\ IsSequence(chain)
  /\ contribution \in Nat
  /\ pc \in [Thread -> Step]
  /\ prev \in [Thread -> Nat]
  /\ mem \in [Thread -> Nat]
  /\ managing \in {"idle", "register", "clear", "stop"}
  /\ running \in BOOLEAN
  /\ sleeping \in Nat
  /\ beating \in Nat

Init ==
  /\ now = 0
  /\ callers \in SUBSET Thread
  /\ revoked = FALSE
  /\ token = NoToken
  /\ entry = NoEntry
  /\ chain = <<>>
  /\ head = Genesis
  /\ contribution = 0
  /\ pc = [t \in Thread |-> "idle"]
  /\ prev = [t \in Thread |-> 0]
  /\ mem = [t \in Thread |-> 0]
  /\ managing = "idle"
  /\ running = FALSE
  /\ sleeping = 0
  /\ beating = 0

Tick ==
  /\ now < MaxTime
  /\ now' = now + 1
  /\ UNCHANGED <<revoked, token, entry, chain, head, contribution, workVars, managing,
                 loopVars>>

----------------------------------------------------------------------------
(* Joining and leaving.                                                    *)

\* Faulty variant: a token is good until it expires, revoked or not.
TokenUnexpired == token # NoToken /\ token >= now

\* verify_join_token of the agent's own token; None fails inside its try block.
TokenAccepted == token # NoToken /\ token >= now /\ ~ revoked

\* issue_self_token, before it registers.  What the fresh token's verification returns
\* is only stored for display, and the registration follows whatever it is.
IssueSelfToken ==
  /\ managing = "idle"
  /\ token' = now + TokenTTL
  /\ managing' = "register"
  /\ UNCHANGED <<now, revoked, entry, chain, head, contribution, workVars, loopVars>>

\* accept_external_token, with a token the coordinator issued for this node at some
\* time up to now: a rejected one changes nothing.
AcceptExternalToken(issued) ==
  /\ managing = "idle"
  /\ ~ revoked /\ issued + TokenTTL >= now
  /\ token' = issued + TokenTTL
  /\ managing' = "register"
  /\ UNCHANGED <<now, revoked, entry, chain, head, contribution, workVars, loopVars>>

\* Faulty variant: a registration starts both counts anew.
RegisterResetting ==
  /\ managing = "register"
  /\ entry' = [status |-> "ONLINE", last_seen |-> now, credit |-> 0]
  /\ contribution' = 0
  /\ managing' = "idle"
  /\ UNCHANGED <<now, revoked, token, chain, head, workVars, loopVars>>

\* NodeRegistry.register, under its lock: a fresh record replaces the node's, and its
\* credit with it.
Register ==
  /\ managing = "register"
  /\ entry' = [status |-> "ONLINE", last_seen |-> now, credit |-> 0]
  /\ managing' = "idle"
  /\ UNCHANGED <<now, revoked, token, chain, head, contribution, workVars, loopVars>>

\* revoke_self, statement by statement: the store, the token, the heartbeat flag.
RevokeSelf ==
  /\ managing = "idle"
  /\ revoked' = TRUE
  /\ managing' = "clear"
  /\ UNCHANGED <<now, token, entry, chain, head, contribution, workVars, loopVars>>

ClearToken ==
  /\ managing = "clear"
  /\ token' = NoToken
  /\ managing' = "stop"
  /\ UNCHANGED <<now, revoked, entry, chain, head, contribution, workVars, loopVars>>

\* revoke_token by another holder of the store, such as the coordinator.
RevokeToken ==
  /\ ~ revoked
  /\ revoked' = TRUE
  /\ UNCHANGED <<now, token, entry, chain, head, contribution, workVars, managing,
                 loopVars>>

----------------------------------------------------------------------------
(* Heartbeats.                                                             *)

\* start_heartbeat: one more loop, whatever loops there are.
StartHeartbeat ==
  /\ managing = "idle"
  /\ sleeping + beating < MaxLoops           \* bound
  /\ running' = TRUE
  /\ sleeping' = sleeping + 1
  /\ UNCHANGED <<now, revoked, token, entry, chain, head, contribution, workVars,
                 managing, beating>>

\* Faulty variant: the stop counts a loop out that will also end by itself.
StopHeartbeatCounting ==
  /\ managing = "stop" \/ (managing = "idle" /\ running)
  /\ running' = FALSE
  /\ sleeping' = sleeping - 1
  /\ managing' = "idle"
  /\ UNCHANGED <<now, revoked, token, entry, chain, head, contribution, workVars, beating>>

\* stop_heartbeat, on its own or as the end of revoke_self: only the flag.
StopHeartbeat ==
  /\ managing = "stop" \/ (managing = "idle" /\ running)
  /\ running' = FALSE
  /\ managing' = "idle"
  /\ UNCHANGED <<now, revoked, token, entry, chain, head, contribution, workVars, sleeping,
                 beating>>

\* Faulty variant: the loop does not look at the flag again.
HeartbeatWakeUnchecked ==
  /\ sleeping > 0
  /\ sleeping' = sleeping - 1
  /\ beating' = beating + 1
  /\ UNCHANGED <<now, revoked, token, entry, chain, head, contribution, workVars, managing,
                 running>>

\* _heartbeat_loop, after the sleep: it ends if the flag is down.  (The check at the
\* loop's head, before the sleep, is made again here.)
HeartbeatWake ==
  /\ sleeping > 0
  /\ sleeping' = sleeping - 1
  /\ beating' = IF running THEN beating + 1 ELSE beating
  /\ UNCHANGED <<now, revoked, token, entry, chain, head, contribution, workVars, managing,
                 running>>

\* _send_heartbeat: NodeRegistry.heartbeat under its lock, of a node it holds, with a
\* valid token or without; then back to sleep.
HeartbeatSend ==
  /\ beating > 0
  /\ entry' = IF entry.status = "ABSENT" THEN entry
              ELSE [entry EXCEPT !.last_seen = now, !.status = "ONLINE"]
  /\ beating' = beating - 1
  /\ sleeping' = sleeping + 1
  /\ UNCHANGED <<now, revoked, token, chain, head, contribution, workVars, managing, running>>

\* NodeRegistry.evict_stale, its clock read under the lock.
EvictStale ==
  /\ entry.status = "ONLINE"
  /\ now - entry.last_seen > OfflineTimeout
  /\ entry' = [entry EXCEPT !.status = "OFFLINE"]
  /\ UNCHANGED <<now, revoked, token, chain, head, contribution, workVars, managing, loopVars>>

----------------------------------------------------------------------------
(* accept_work.                                                            *)

At(labels) == {t \in Thread : pc[t] \in labels}

\* A thread that finds no token returns at once and is not a step.
AcceptWork(t) ==
  /\ t \in callers
  /\ pc[t] = "idle"
  /\ token # NoToken
  /\ Len(chain) + Cardinality(At({"verify", "append"})) < MaxReceipts   \* bound
  /\ pc' = [pc EXCEPT ![t] = "verify"]
  /\ UNCHANGED <<now, callers, revoked, token, entry, chain, head, contribution, prev, mem,
                 managing, loopVars>>

\* The token is read again and verified; then the gate, whose verdict depends on the
\* request alone.
Admit(t) ==
  /\ pc[t] = "verify"
  /\ TokenAccepted
  /\ pc' = [pc EXCEPT ![t] = "append"]
  /\ UNCHANGED <<now, callers, revoked, token, entry, chain, head, contribution, prev, mem,
                 managing, loopVars>>

\* Faulty variant: work the gate rejects is not receipted, but it is counted.
RejectCounting(t) ==
  /\ pc[t] = "verify"
  /\ pc' = [pc EXCEPT ![t] = IF TokenAccepted THEN "remember" ELSE "idle"]
  /\ UNCHANGED <<now, callers, revoked, token, entry, chain, head, contribution, prev, mem,
                 managing, loopVars>>

\* A rejection: the token is not accepted, or the gate does not let the request pass.
Reject(t) ==
  /\ pc[t] = "verify"
  /\ pc' = [pc EXCEPT ![t] = "idle"]
  /\ UNCHANGED <<now, callers, revoked, token, entry, chain, head, contribution, prev, mem,
                 managing, loopVars>>

\* The part of a receipt that is hashed: all of it but the two hashes.
Body(receipt) == [job |-> receipt.job, seq |-> receipt.seq]

ReceiptAfter(job) ==
  LET body == [job |-> job, seq |-> Len(chain)]
  IN  [job |-> job, seq |-> Len(chain), prev_chain_hash |-> head,
       chain_hash |-> KhipuHash(head, body)]

\* Faulty variant: the head stays where it was.
AppendKeepingHead(t, job) ==
  /\ pc[t] = "append"
  /\ chain' = Append(chain, ReceiptAfter(job))
  /\ pc' = [pc EXCEPT ![t] = "remember"]
  /\ UNCHANGED <<now, callers, revoked, token, entry, head, contribution, prev, mem,
                 managing, loopVars>>

\* JobReceiptLedger.append, under its lock.
AppendReceipt(t, job) ==
  /\ pc[t] = "append"
  /\ chain' = Append(chain, ReceiptAfter(job))
  /\ head' = ReceiptAfter(job).chain_hash
  /\ pc' = [pc EXCEPT ![t] = "remember"]
  /\ UNCHANGED <<now, callers, revoked, token, entry, contribution, prev, mem, managing,
                 loopVars>>

\* prev_contribution = self._contribution
RememberContribution(t) ==
  /\ pc[t] = "remember"
  /\ prev' = [prev EXCEPT ![t] = contribution]
  /\ pc' = [pc EXCEPT ![t] = "load"]
  /\ UNCHANGED <<now, callers, revoked, token, entry, chain, head, contribution, mem,
                 managing, loopVars>>

\* self._contribution += AYNI_CREDIT_PER_JOB: the read,
LoadContribution(t) ==
  /\ pc[t] = "load"
  /\ mem' = [mem EXCEPT ![t] = contribution]
  /\ pc' = [pc EXCEPT ![t] = "store"]
  /\ UNCHANGED <<now, callers, revoked, token, entry, chain, head, contribution, prev,
                 managing, loopVars>>

\* and the write.
StoreContribution(t) ==
  /\ pc[t] = "store"
  /\ contribution' = mem[t] + 1
  /\ pc' = [pc EXCEPT ![t] = "assert"]
  /\ UNCHANGED <<now, callers, revoked, token, entry, chain, head, prev, mem, managing,
                 loopVars>>

\* The count is read once more and compared with the remembered one.
Conserved(t) == contribution - 1 = prev[t]

AssertConserved(t) ==
  /\ pc[t] = "assert"
  /\ Conserved(t)
  /\ pc' = [pc EXCEPT ![t] = "credit"]
  /\ UNCHANGED <<now, callers, revoked, token, entry, chain, head, contribution, prev, mem,
                 managing, loopVars>>

\* The assertion raises: the receipt stays, the registry's credit is not given.
AssertFails(t) ==
  /\ pc[t] = "assert"
  /\ ~ Conserved(t)
  /\ pc' = [pc EXCEPT ![t] = "idle"]
  /\ UNCHANGED <<now, callers, revoked, token, entry, chain, head, contribution, prev, mem,
                 managing, loopVars>>

\* NodeRegistry.add_contribution, under its lock: of a node it holds.
AddContribution(t) ==
  /\ pc[t] = "credit"
  /\ entry' = IF entry.status = "ABSENT" THEN entry ELSE [entry EXCEPT !.credit = @ + 1]
  /\ pc' = [pc EXCEPT ![t] = "idle"]
  /\ UNCHANGED <<now, callers, revoked, token, chain, head, contribution, prev, mem,
                 managing, loopVars>>

----------------------------------------------------------------------------
Management ==
  \/ IssueSelfToken \/ Register
  \/ \E issued \in 0 .. now : AcceptExternalToken(issued)
  \/ RevokeSelf \/ ClearToken
  \/ StartHeartbeat \/ StopHeartbeat

HeartbeatLoop == HeartbeatWake \/ HeartbeatSend

WorkStep(t) ==
  \/ AcceptWork(t) \/ Admit(t) \/ Reject(t)
  \/ \E job \in Job : AppendReceipt(t, job)
  \/ RememberContribution(t) \/ LoadContribution(t) \/ StoreContribution(t)
  \/ AssertConserved(t) \/ AssertFails(t) \/ AddContribution(t)

Next ==
  \/ Tick
  \/ RevokeToken \/ EvictStale
  \/ Management
  \/ HeartbeatLoop
  \/ \E t \in Thread : WorkStep(t)

\* The loops are threads of their own, which wait for nothing but their sleep and the
\* registry's lock; what heartbeats raise is caught.
Spec == Init /\ [][Next]_vars /\ WF_vars(HeartbeatWake) /\ WF_vars(HeartbeatSend)

----------------------------------------------------------------------------
(* Properties.                                                             *)

PrevHash(i) == IF i = 1 THEN Genesis ELSE chain[i - 1].chain_hash

\* F4/F22, what verify_chain recomputes: whichever threads appended, each receipt is
\* numbered by its place and hashed over its predecessor's hash and its own body, and
\* the head is the last of these hashes.
ChainIntact ==
  /\ \A i \in DOMAIN chain :
       /\ chain[i].seq = i - 1
       /\ chain[i].chain_hash = KhipuHash(PrevHash(i), Body(chain[i]))
       /\ chain[i].prev_chain_hash = PrevHash(i)
  /\ head = PrevHash(Len(chain) + 1)

\* F11, "never inflated": neither the agent's count nor the registry's credit exceeds
\* the receipts whose calls have come to it, however the threads' reads and writes of
\* the unlocked count interleave, and whatever re-joins and failed assertions leave.
CreditNeverInflated ==
  /\ contribution + Cardinality(At(Uncounted)) <= Len(chain)
  /\ entry.credit + Cardinality(At(Receipted)) <= Len(chain)

\* F11, "(b + c) - c = b": as long as one thread calls accept_work, the agent's count is
\* exactly that of its receipts between calls, and the assertion never fails.
SerialCreditIsExact ==
  Cardinality(callers) = 1 =>
    /\ contribution + Cardinality(At(Uncounted)) = Len(chain)
    /\ \A t \in callers : pc[t] = "assert" => Conserved(t)

StaysQuiet ==
  revoked /\ At({"append"}) = {} => chain' = chain /\ At({"append"})' = {}

\* "node rejects further work": once the node is revoked and the calls admitted before
\* that are past their receipts, its chain grows no more, whatever tokens it is issued,
\* and whoever revoked it.
RevokedNodeIsQuiet == [][StaysQuiet]_vars

\* stop_heartbeat stops all loops there are, also those that an earlier start left
\* running, unless the heartbeat is started again.
HeartbeatsEnd == <>[](~ running) => <>[](sleeping = 0 /\ beating = 0)
=============================================================================
