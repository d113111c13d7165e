-------------------------- MODULE MeshAgent_proofs --------------------------
(***************************************************************************)
(* TLAPS proofs about MeshAgent, for any finite set of threads, any        *)
(* limits and any hash.                                                    *)
(***************************************************************************)
EXTENDS MeshAgent, TLAPS, FiniteSetTheorems, SequenceTheorems

----------------------------------------------------------------------------
(* Sequences and counts of threads.                                        *)

\* A sequence over any set is one over the set of its elements.
LEMMA SequenceOfItsElements ==
  ASSUME NEW S, NEW s \in Seq(S)
  PROVE  IsSequence(s)
<1> DEFINE T == {s[i] : i \in DOMAIN s}
<1>1. Len(s) \in Nat /\ DOMAIN s = 1 .. Len(s) /\ s \in [1 .. Len(s) -> S]
  BY LenProperties
<1>2. s \in [1 .. Len(s) -> T]
  BY <1>1
<1>3. s \in Seq(T)
  <2> HIDE DEF T
  <2> QED BY <1>1, <1>2, SeqDef
<1> QED
  BY <1>3 DEF IsSequence

\* Appending makes a sequence that is one longer and the same before its end.
LEMMA AppendToSequence ==
  ASSUME NEW s, IsSequence(s), NEW e
  PROVE  /\ IsSequence(Append(s, e))
         /\ Len(s) \in Nat
         /\ Len(Append(s, e)) = Len(s) + 1
         /\ DOMAIN Append(s, e) = 1 .. Len(s) + 1
         /\ \A i \in 1 .. Len(s) : Append(s, e)[i] = s[i]
         /\ Append(s, e)[Len(s) + 1] = e
<1> DEFINE S == {s[i] : i \in DOMAIN s}
           T == S \cup {e}
<1>1. s \in Seq(T)
  <2>1. s \in Seq(S) /\ S \subseteq T
    BY DEF IsSequence
  <2> HIDE DEF S, T
  <2> QED BY <2>1, SeqMonotonic
<1>2. e \in T
  OBVIOUS
<1> HIDE DEF S, T
<1>3. Append(s, e) \in Seq(T)
  BY <1>1, <1>2
<1>4. IsSequence(Append(s, e))
  BY <1>3, SequenceOfItsElements
<1> QED
  BY <1>1, <1>2, <1>3, <1>4

----------------------------------------------------------------------------
(* Type correctness.                                                       *)

\* The initial state is well typed.
LEMMA InitTypeOK == Init => TypeOK
<1> SUFFICES ASSUME Init PROVE TypeOK
  OBVIOUS
<1>1. IsSequence(<<>>)
  <2>1. <<>> \in Seq({})
    BY EmptySeq
  <2> QED BY <2>1, SequenceOfItsElements
<1> QED
  BY <1>1, TimeAssumption DEF Init, TypeOK, Entry, NoEntry, Step, Receipted, Uncounted, NoToken

\* Every step keeps the types; only an append changes the chain.
LEMMA NextTypeOK == TypeOK /\ [Next]_vars => TypeOK'
<1> SUFFICES ASSUME TypeOK, [Next]_vars PROVE TypeOK'
  OBVIOUS
<1> USE TimeAssumption DEF TypeOK, workVars, loopVars, Entry, Step, Receipted, Uncounted, NoToken
<1>1. CASE Tick
  BY <1>1 DEF Tick
<1>2. CASE RevokeToken \/ EvictStale
  BY <1>2 DEF RevokeToken, EvictStale
<1>3. CASE Management
  <2>1. CASE IssueSelfToken \/ Register
    BY <2>1 DEF IssueSelfToken, Register
  <2>2. ASSUME NEW issued \in 0 .. now, AcceptExternalToken(issued)
        PROVE  TypeOK'
    BY <2>2 DEF AcceptExternalToken
  <2>3. CASE RevokeSelf \/ ClearToken
    BY <2>3 DEF RevokeSelf, ClearToken
  <2>4. CASE StartHeartbeat \/ StopHeartbeat
    <3>1. running' \in BOOLEAN
      BY ONLY <2>4, Zenon DEF StartHeartbeat, StopHeartbeat
    <3>2. sleeping' \in Nat /\ managing' \in {"idle", "register", "clear", "stop"}
      BY <2>4 DEF StartHeartbeat, StopHeartbeat
    <3>3. UNCHANGED <<now, revoked, token, entry, chain, contribution, workVars, beating>>
      BY <2>4 DEF StartHeartbeat, StopHeartbeat
    <3> QED BY <3>1, <3>2, <3>3
  <2> QED BY <1>3, <2>1, <2>2, <2>3, <2>4 DEF Management
<1>4. CASE HeartbeatLoop
  <2>1. sleeping' \in Nat /\ beating' \in Nat
    BY <1>4 DEF HeartbeatLoop, HeartbeatWake, HeartbeatSend
  <2>2. entry' \in Entry
    BY <1>4 DEF HeartbeatLoop, HeartbeatWake, HeartbeatSend
  <2>3. UNCHANGED <<now, revoked, token, chain, contribution, workVars, managing, running>>
    BY <1>4 DEF HeartbeatLoop, HeartbeatWake, HeartbeatSend
  <2> QED BY <2>1, <2>2, <2>3
<1>5. ASSUME NEW t \in Thread, WorkStep(t)
      PROVE  TypeOK'
  <2>1. CASE AcceptWork(t) \/ Admit(t) \/ Reject(t)
    BY <2>1 DEF AcceptWork, Admit, Reject
  <2>2. ASSUME NEW job \in Job, AppendReceipt(t, job)
        PROVE  TypeOK'
    <3>1. IsSequence(chain')
      BY <2>2, AppendToSequence DEF AppendReceipt
    <3> QED BY <2>2, <3>1 DEF AppendReceipt
  <2>3. CASE RememberContribution(t) \/ LoadContribution(t) \/ StoreContribution(t)
    BY <2>3 DEF RememberContribution, LoadContribution, StoreContribution
  <2>4. CASE AssertConserved(t) \/ AssertFails(t) \/ AddContribution(t)
    BY <2>4 DEF AssertConserved, AssertFails, AddContribution
  <2> QED BY <1>5, <2>1, <2>2, <2>3, <2>4 DEF WorkStep
<1>6. CASE UNCHANGED vars
  BY <1>6 DEF vars
<1> QED
  BY <1>1, <1>2, <1>3, <1>4, <1>5, <1>6 DEF Next

\* The agent's state is well typed in every reachable state: in particular, no heartbeat
\* loop ends that was not there.
THEOREM TypeCorrect == Spec => []TypeOK
<1> QED
  BY InitTypeOK, NextTypeOK, PTL DEF Spec

----------------------------------------------------------------------------
(* The chain.                                                              *)

\* An append extends an intact chain to an intact chain.
LEMMA AppendKeepsChain ==
  ASSUME TypeOK, ChainIntact, NEW t \in Thread, NEW job, AppendReceipt(t, job)
  PROVE  ChainIntact'
<1> DEFINE n == Len(chain)
           r == ReceiptAfter(job)
<1>1. /\ n \in Nat
      /\ DOMAIN chain = 1 .. n
      /\ Len(chain') = n + 1
      /\ DOMAIN chain' = 1 .. n + 1
      /\ \A i \in 1 .. n : chain'[i] = chain[i]
      /\ chain'[n + 1] = r
  <2>1. chain' = Append(chain, r) /\ IsSequence(chain)
    BY DEF AppendReceipt, TypeOK
  <2>2. DOMAIN chain = 1 .. n
    BY <2>1, LenProperties DEF IsSequence
  <2> QED BY <2>1, <2>2, AppendToSequence
<1>2. head' = r.chain_hash /\ head = PrevHash(n + 1)
  BY DEF AppendReceipt, ChainIntact
<1>3. \A i \in 1 .. n + 1 : PrevHash(i)' = PrevHash(i)
  BY <1>1 DEF PrevHash
<1>4. ASSUME NEW i \in 1 .. n + 1
      PROVE  /\ chain'[i].seq = i - 1
             /\ chain'[i].chain_hash = KhipuHash(PrevHash(i)', Body(chain[i])')
             /\ chain'[i].prev_chain_hash = PrevHash(i)'
  <2>1. CASE i \in 1 .. n
    BY <1>1, <1>3, <2>1 DEF ChainIntact
  <2>2. CASE i = n + 1
    BY <1>1, <1>2, <1>3, <2>2 DEF ReceiptAfter, Body
  <2> QED BY <1>1, <2>1, <2>2
<1>5. (head = PrevHash(Len(chain) + 1))'
  BY <1>1, <1>2 DEF PrevHash
<1> QED
  BY <1>1, <1>4, <1>5 DEF ChainIntact

\* Only an append touches the chain and its head.
LEMMA NextChainIntact == TypeOK /\ ChainIntact /\ [Next]_vars => ChainIntact'
<1> SUFFICES ASSUME TypeOK, ChainIntact, [Next]_vars PROVE ChainIntact'
  OBVIOUS
<1>1. CASE \E t \in Thread, job \in Job : AppendReceipt(t, job)
  BY <1>1, AppendKeepsChain
<1>2. CASE ~ \E t \in Thread, job \in Job : AppendReceipt(t, job)
  <2>1. UNCHANGED <<chain, head>>
    BY <1>2 DEF Next, vars, Tick, RevokeToken, EvictStale, Management, IssueSelfToken,
                Register, AcceptExternalToken, RevokeSelf, ClearToken, StartHeartbeat,
                StopHeartbeat, HeartbeatLoop, HeartbeatWake, HeartbeatSend, WorkStep,
                AcceptWork, Admit, Reject, RememberContribution, LoadContribution,
                StoreContribution, AssertConserved, AssertFails, AddContribution
  <2> QED BY <2>1 DEF ChainIntact, PrevHash, Body
<1> QED
  BY <1>1, <1>2

\* F4/F22: the chain verifies in every reachable state, however the appends of several
\* threads interleave.
THEOREM ChainIsIntact == Spec => []ChainIntact
<1>1. Init => ChainIntact
  BY DEF Init, ChainIntact, PrevHash
<1> QED
  BY <1>1, TypeCorrect, NextChainIntact, PTL DEF Spec

----------------------------------------------------------------------------
(* The counts.                                                             *)

\* What a thread is about to store leaves room for every call yet to be counted: its own
\* store can then not raise the count above the receipts, though others stored between.
StoresStayBelow ==
  \A t \in Thread : pc[t] = "store" => mem[t] + Cardinality(At(Uncounted)) <= Len(chain)

CountInv == TypeOK /\ CreditNeverInflated /\ StoresStayBelow

\* A thread that enters a set of steps makes the count of threads there one more; one
\* that leaves it makes it one less; one that moves within or outside it does neither.
LEMMA CallsMove ==
  ASSUME TypeOK, NEW t \in Thread, NEW x, pc' = [pc EXCEPT ![t] = x], NEW labels
  PROVE  /\ Cardinality(At(labels)) \in Nat /\ Cardinality(At(labels))' \in Nat
         /\ pc[t] \notin labels /\ x \in labels =>
              Cardinality(At(labels))' = Cardinality(At(labels)) + 1
         /\ pc[t] \in labels /\ x \notin labels =>
              Cardinality(At(labels))' = Cardinality(At(labels)) - 1
         /\ (pc[t] \in labels <=> x \in labels) =>
              Cardinality(At(labels))' = Cardinality(At(labels))
<1> DEFINE F == At(labels)
           G == At(labels)'
<1>1. pc'[t] = x /\ \A w \in Thread : w # t => pc'[w] = pc[w]
  BY DEF TypeOK
<1>2. F \in SUBSET Thread /\ G \in SUBSET Thread
  BY DEF At
<1>3. IsFiniteSet(F) /\ IsFiniteSet(G)
  BY <1>2, ThreadAssumption, FS_Subset
<1>4. Cardinality(F) \in Nat /\ Cardinality(G) \in Nat
  BY <1>3, FS_CardinalityType
<1>5. ASSUME pc[t] \notin labels, x \in labels
      PROVE  Cardinality(G) = Cardinality(F) + 1
  <2>1. G = F \cup {t} /\ t \notin F
    BY <1>1, <1>5 DEF At
  <2> HIDE DEF F, G
  <2> QED BY <2>1, <1>3, FS_AddElement
<1>6. ASSUME pc[t] \in labels, x \notin labels
      PROVE  Cardinality(G) = Cardinality(F) - 1
  <2>1. G = F \ {t} /\ t \in F
    BY <1>1, <1>6 DEF At
  <2> HIDE DEF F, G
  <2> QED BY <2>1, <1>3, FS_RemoveElement
<1>7. ASSUME pc[t] \in labels <=> x \in labels
      PROVE  G = F
  BY <1>1, <1>7 DEF At
<1> QED
  BY <1>4, <1>5, <1>6, <1>7

\* A step that leaves the threads alone, and the chain and the agent's count, and gives no
\* credit keeps the counts.
LEMMA OthersKeepCounts ==
  ASSUME CountInv, UNCHANGED <<pc, mem, chain, contribution>>,
         entry'.credit <= entry.credit, entry'.credit \in Nat
  PROVE  CreditNeverInflated' /\ StoresStayBelow'
<1>1. /\ Cardinality(At(Uncounted))' = Cardinality(At(Uncounted))
      /\ Cardinality(At(Receipted))' = Cardinality(At(Receipted))
  BY DEF At
<1>2. entry.credit \in Nat /\ Len(chain) \in Nat /\ Cardinality(At(Receipted)) \in Nat
  <2>1. Cardinality(At(Receipted)) \in Nat
    BY ThreadAssumption, FS_Subset, FS_CardinalityType DEF At
  <2> QED BY <2>1, AppendToSequence DEF CountInv, TypeOK, Entry
<1> QED
  BY <1>1, <1>2 DEF CountInv, CreditNeverInflated, StoresStayBelow

\* A step of accept_work keeps them: an append makes room for the count it precedes, and
\* a count uses up the room of its own receipt.
LEMMA WorkKeepsCounts ==
  ASSUME CountInv, NEW t \in Thread, WorkStep(t)
  PROVE  CreditNeverInflated' /\ StoresStayBelow'
<1> DEFINE u == Cardinality(At(Uncounted))
           r == Cardinality(At(Receipted))
<1>1. /\ TypeOK
      /\ contribution \in Nat /\ entry.credit \in Nat /\ Len(chain) \in Nat
      /\ mem \in [Thread -> Nat]
  BY AppendToSequence DEF CountInv, TypeOK, Entry
<1>2. contribution + u <= Len(chain) /\ entry.credit + r <= Len(chain)
  BY DEF CountInv, CreditNeverInflated
<1>3. \A w \in Thread : pc[w] = "store" => mem[w] + u <= Len(chain)
  BY DEF CountInv, StoresStayBelow
<1>4. SUFFICES /\ contribution' + u' <= Len(chain')
               /\ entry'.credit + r' <= Len(chain')
               /\ \A w \in Thread : pc'[w] = "store" => mem'[w] + u' <= Len(chain')
  BY DEF CreditNeverInflated, StoresStayBelow
<1> HIDE DEF u, r
<1>5. ASSUME NEW x, pc' = [pc EXCEPT ![t] = x]
      PROVE  /\ u \in Nat /\ r \in Nat /\ u' \in Nat /\ r' \in Nat
             /\ pc[t] \notin Uncounted /\ x \in Uncounted => u' = u + 1
             /\ pc[t] \in Uncounted /\ x \notin Uncounted => u' = u - 1
             /\ (pc[t] \in Uncounted <=> x \in Uncounted) => u' = u
             /\ pc[t] \notin Receipted /\ x \in Receipted => r' = r + 1
             /\ pc[t] \in Receipted /\ x \notin Receipted => r' = r - 1
             /\ (pc[t] \in Receipted <=> x \in Receipted) => r' = r
             /\ pc'[t] = x
             /\ \A w \in Thread : w # t => pc'[w] = pc[w]
  <2>1. pc'[t] = x /\ \A w \in Thread : w # t => pc'[w] = pc[w]
    BY <1>1, <1>5 DEF TypeOK
  <2> QED BY <1>1, <1>5, <2>1, CallsMove DEF u, r
<1> USE DEF Uncounted, Receipted
<1>6. CASE AcceptWork(t) \/ Admit(t) \/ Reject(t)
  <2>1. PICK x \in {"idle", "verify", "append"} : pc' = [pc EXCEPT ![t] = x]
    BY <1>6 DEF AcceptWork, Admit, Reject
  <2>2. pc[t] \in {"idle", "verify"} /\ UNCHANGED <<contribution, entry, chain, mem>>
    BY <1>6 DEF AcceptWork, Admit, Reject
  <2>3. u' = u /\ r' = r
    BY <2>1, <2>2, <1>5
  <2>4. \A w \in Thread : pc'[w] = "store" => pc[w] = "store"
    BY <2>1, <1>5
  <2> QED BY <2>2, <2>3, <2>4, <1>2, <1>3
<1>7. ASSUME NEW job \in Job, AppendReceipt(t, job)
      PROVE  /\ contribution' + u' <= Len(chain')
             /\ entry'.credit + r' <= Len(chain')
             /\ \A w \in Thread : pc'[w] = "store" => mem'[w] + u' <= Len(chain')
  <2>1. /\ pc[t] = "append" /\ pc' = [pc EXCEPT ![t] = "remember"]
        /\ UNCHANGED <<contribution, entry, mem>>
    BY <1>7 DEF AppendReceipt
  <2>2. Len(chain') = Len(chain) + 1
    BY <1>7, AppendToSequence DEF AppendReceipt, CountInv, TypeOK
  <2>3. u' = u + 1 /\ r' = r + 1 /\ u \in Nat /\ r \in Nat
    BY <2>1, <1>5
  <2>4. \A w \in Thread : pc'[w] = "store" => pc[w] = "store"
    BY <2>1, <1>5
  <2> QED BY <2>1, <2>2, <2>3, <2>4, <1>1, <1>2, <1>3
<1>8. CASE RememberContribution(t)
  <2>1. /\ pc[t] = "remember" /\ pc' = [pc EXCEPT ![t] = "load"]
        /\ UNCHANGED <<contribution, entry, mem, chain>>
    BY <1>8 DEF RememberContribution
  <2>2. u' = u /\ r' = r /\ \A w \in Thread : pc'[w] = "store" => pc[w] = "store"
    BY <2>1, <1>5
  <2> QED BY <2>1, <2>2, <1>2, <1>3
<1>9. CASE LoadContribution(t)
  <2>1. /\ pc[t] = "load" /\ pc' = [pc EXCEPT ![t] = "store"]
        /\ UNCHANGED <<contribution, entry, chain>>
        /\ mem' = [mem EXCEPT ![t] = contribution]
    BY <1>9 DEF LoadContribution
  <2>2. u' = u /\ r' = r
        /\ \A w \in Thread : w # t /\ pc'[w] = "store" => pc[w] = "store"
    BY <2>1, <1>5
  <2>3. mem'[t] = contribution /\ \A w \in Thread : w # t => mem'[w] = mem[w]
    BY <2>1, <1>1
  <2> QED BY <2>1, <2>2, <2>3, <1>2, <1>3
<1>10. CASE StoreContribution(t)
  <2>1. /\ pc[t] = "store" /\ pc' = [pc EXCEPT ![t] = "assert"]
        /\ UNCHANGED <<entry, chain, mem>>
        /\ contribution' = mem[t] + 1
    BY <1>10 DEF StoreContribution
  <2>2. u' = u - 1 /\ r' = r /\ u \in Nat
        /\ \A w \in Thread : pc'[w] = "store" => pc[w] = "store"
    <3>1. /\ pc[t] \in Uncounted /\ "assert" \notin Uncounted
          /\ pc[t] \in Receipted /\ "assert" \in Receipted
      BY <2>1
    <3>2. pc'[t] = "assert" /\ \A w \in Thread : w # t => pc'[w] = pc[w]
      BY <2>1, <1>5
    <3>3. u' = u - 1 /\ r' = r /\ u \in Nat
      BY ONLY <3>1, <2>1, <1>5
    <3> QED BY <3>2, <3>3
  <2> QED BY <2>1, <2>2, <1>1, <1>2, <1>3
<1>11. CASE AssertConserved(t) \/ AssertFails(t)
  <2>1. PICK x \in {"credit", "idle"} : pc' = [pc EXCEPT ![t] = x]
    BY <1>11 DEF AssertConserved, AssertFails
  <2>2. pc[t] = "assert" /\ UNCHANGED <<contribution, entry, chain, mem>>
    BY <1>11 DEF AssertConserved, AssertFails
  <2>3. u' = u /\ r' \in {r, r - 1} /\ r \in Nat
        /\ \A w \in Thread : pc'[w] = "store" => pc[w] = "store"
    BY <2>1, <2>2, <1>5
  <2> QED BY <2>2, <2>3, <1>1, <1>2, <1>3
<1>12. CASE AddContribution(t)
  <2>1. /\ pc[t] = "credit" /\ pc' = [pc EXCEPT ![t] = "idle"]
        /\ UNCHANGED <<contribution, chain, mem>>
    BY <1>12 DEF AddContribution
  <2>2. entry'.credit \in {entry.credit, entry.credit + 1}
    BY <1>12, <1>1 DEF AddContribution, TypeOK, Entry
  <2>3. u' = u /\ r' = r - 1 /\ r \in Nat
        /\ \A w \in Thread : pc'[w] = "store" => pc[w] = "store"
    <3>1. /\ pc[t] \notin Uncounted /\ "idle" \notin Uncounted
          /\ pc[t] \in Receipted /\ "idle" \notin Receipted
      BY <2>1
    <3>2. pc'[t] = "idle" /\ \A w \in Thread : w # t => pc'[w] = pc[w]
      BY <2>1, <1>5
    <3>3. u' = u /\ r' = r - 1 /\ r \in Nat
      BY ONLY <3>1, <2>1, <1>5
    <3> QED BY <3>2, <3>3
  <2> QED BY <2>1, <2>2, <2>3, <1>1, <1>2, <1>3
<1> QED
  BY <1>6, <1>7, <1>8, <1>9, <1>10, <1>11, <1>12 DEF WorkStep

\* Every step keeps the counts below the receipts.
LEMMA NextCounts == CountInv /\ [Next]_vars => CountInv'
<1> SUFFICES ASSUME CountInv, [Next]_vars PROVE CountInv'
  OBVIOUS
<1>1. TypeOK'
  BY NextTypeOK DEF CountInv
<1>2. CASE \E t \in Thread : WorkStep(t)
  BY <1>1, <1>2, WorkKeepsCounts DEF CountInv
<1>3. CASE ~ \E t \in Thread : WorkStep(t)
  <2>1. UNCHANGED <<pc, mem, chain, contribution>>
    BY <1>3 DEF Next, vars, workVars, Tick, RevokeToken, EvictStale, Management,
                IssueSelfToken, Register, AcceptExternalToken, RevokeSelf, ClearToken,
                StartHeartbeat, StopHeartbeat, HeartbeatLoop, HeartbeatWake, HeartbeatSend
  <2>2. entry'.credit <= entry.credit
    <3>1. entry' = entry \/ EvictStale \/ Register \/ HeartbeatSend
      BY <1>3 DEF Next, vars, Tick, RevokeToken, Management, IssueSelfToken,
                  AcceptExternalToken, RevokeSelf, ClearToken, StartHeartbeat,
                  StopHeartbeat, HeartbeatLoop, HeartbeatWake
    <3>2. entry \in Entry
      BY DEF CountInv, TypeOK
    <3>3. CASE entry' = entry
      BY <3>2, <3>3 DEF Entry
    <3>4. CASE EvictStale
      BY <3>2, <3>4 DEF Entry, EvictStale
    <3>5. CASE Register
      BY <3>2, <3>5 DEF Entry, Register
    <3>6. CASE HeartbeatSend
      <4>1. entry'.credit = entry.credit
        BY <3>2, <3>6 DEF Entry, HeartbeatSend
      <4> QED BY <3>2, <4>1 DEF Entry
    <3> QED BY <3>1, <3>3, <3>4, <3>5, <3>6
  <2>3. entry'.credit \in Nat
    BY <1>1 DEF TypeOK, Entry
  <2> QED BY <1>1, <2>1, <2>2, <2>3, OthersKeepCounts DEF CountInv
<1> QED
  BY <1>2, <1>3

\* F11, "never inflated": neither count of the node's contribution exceeds its receipts,
\* however many threads call accept_work and however they interleave.
THEOREM CreditIsNeverInflated == Spec => []CreditNeverInflated
<1>1. Init => CountInv
  <2>1. ASSUME Init PROVE At(Uncounted) = {} /\ At(Receipted) = {} /\ StoresStayBelow
    BY <2>1 DEF Init, At, Uncounted, Receipted, StoresStayBelow
  <2>2. ASSUME Init PROVE CreditNeverInflated
    <3>1. Cardinality(At(Uncounted)) = 0 /\ Cardinality(At(Receipted)) = 0
      BY <2>1, <2>2, FS_EmptySet, Zenon
    <3>2. Len(chain) = 0 /\ contribution = 0 /\ entry.credit = 0
      BY <2>2 DEF Init, NoEntry
    <3> QED BY <3>1, <3>2 DEF CreditNeverInflated
  <2> QED BY <2>1, <2>2, InitTypeOK DEF CountInv
<1>2. CountInv => CreditNeverInflated
  BY DEF CountInv
<1> QED
  BY <1>1, <1>2, NextCounts, PTL DEF Spec

----------------------------------------------------------------------------
(* One caller.                                                             *)

Owed(t) == IF pc[t] \in Uncounted THEN 1 ELSE 0

\* Without another caller, what a call remembers and loads is still the count when the
\* call comes to use it.
OnlyCaller(t) ==
  /\ \A w \in Thread : w # t => pc[w] = "idle"
  /\ contribution + Owed(t) = Len(chain)
  /\ pc[t] \in {"load", "store"} => prev[t] = contribution
  /\ pc[t] = "store" => mem[t] = contribution
  /\ pc[t] = "assert" => contribution = prev[t] + 1

SerialInv == \A t \in Thread : callers = {t} => OnlyCaller(t)

\* No step of the only caller, nor any other step, breaks that.
LEMMA NextSerial == TypeOK /\ SerialInv /\ [Next]_vars => SerialInv'
<1> SUFFICES ASSUME TypeOK, SerialInv, [Next]_vars, NEW t \in Thread, (callers = {t})'
             PROVE  OnlyCaller(t)'
  BY DEF SerialInv
<1>1. callers' = callers
  BY DEF Next, vars, workVars, Tick, RevokeToken, EvictStale, Management, IssueSelfToken,
         Register, AcceptExternalToken, RevokeSelf, ClearToken, StartHeartbeat,
         StopHeartbeat, HeartbeatLoop, HeartbeatWake, HeartbeatSend, WorkStep, AcceptWork,
         Admit, Reject, AppendReceipt, RememberContribution, LoadContribution,
         StoreContribution, AssertConserved, AssertFails, AddContribution
<1>2. OnlyCaller(t) /\ callers = {t}
  BY <1>1 DEF SerialInv
<1>3. /\ contribution \in Nat /\ Len(chain) \in Nat
      /\ pc \in [Thread -> Step] /\ prev \in [Thread -> Nat] /\ mem \in [Thread -> Nat]
  BY AppendToSequence DEF TypeOK
<1>4. CASE WorkStep(t)
  <2> USE DEF Owed, Uncounted
  <2>1. CASE AcceptWork(t) \/ Admit(t) \/ Reject(t)
    BY <1>2, <1>3, <2>1 DEF AcceptWork, Admit, Reject, OnlyCaller
  <2>2. ASSUME NEW job \in Job, AppendReceipt(t, job)
        PROVE  OnlyCaller(t)'
    <3>1. Len(chain') = Len(chain) + 1
      BY <2>2, AppendToSequence DEF AppendReceipt, TypeOK
    <3> QED BY <1>2, <1>3, <2>2, <3>1 DEF AppendReceipt, OnlyCaller
  <2>3. CASE RememberContribution(t)
    BY <1>2, <1>3, <2>3 DEF RememberContribution, OnlyCaller
  <2>4. CASE LoadContribution(t)
    BY <1>2, <1>3, <2>4 DEF LoadContribution, OnlyCaller
  <2>5. CASE StoreContribution(t)
    BY <1>2, <1>3, <2>5 DEF StoreContribution, OnlyCaller
  <2>6. CASE AssertConserved(t) \/ AssertFails(t) \/ AddContribution(t)
    BY <1>2, <1>3, <2>6 DEF AssertConserved, AssertFails, AddContribution, OnlyCaller
  <2> QED BY <1>4, <2>1, <2>2, <2>3, <2>4, <2>5, <2>6 DEF WorkStep
<1>5. CASE \E w \in Thread : w # t /\ WorkStep(w)
  <2>1. PICK w \in Thread : w # t /\ WorkStep(w)
    BY <1>5
  <2>2. pc[w] = "idle" /\ w \notin callers
    BY <1>2, <2>1 DEF OnlyCaller
  <2> QED BY <2>1, <2>2 DEF WorkStep, AcceptWork, Admit, Reject, AppendReceipt,
            RememberContribution, LoadContribution, StoreContribution, AssertConserved,
            AssertFails, AddContribution
<1>6. CASE ~ \E w \in Thread : WorkStep(w)
  <2>1. UNCHANGED <<pc, prev, mem, chain, contribution>>
    BY <1>6 DEF Next, vars, workVars, Tick, RevokeToken, EvictStale, Management,
                IssueSelfToken, Register, AcceptExternalToken, RevokeSelf, ClearToken,
                StartHeartbeat, StopHeartbeat, HeartbeatLoop, HeartbeatWake, HeartbeatSend
  <2> QED BY <1>2, <2>1 DEF OnlyCaller, Owed
<1> QED
  BY <1>4, <1>5, <1>6

\* What holds of the only caller is what the property says of it.
LEMMA SerialIsExact == TypeOK /\ SerialInv => SerialCreditIsExact
<1> SUFFICES ASSUME TypeOK, SerialInv, Cardinality(callers) = 1
             PROVE  /\ contribution + Cardinality(At(Uncounted)) = Len(chain)
                    /\ \A t \in callers : pc[t] = "assert" => Conserved(t)
  BY DEF SerialCreditIsExact
<1>1. callers \in SUBSET Thread /\ IsFiniteSet(callers)
  BY ThreadAssumption, FS_Subset DEF TypeOK
<1>2. PICK t : callers = {t}
  BY <1>1, FS_Singleton
<1>3. t \in Thread /\ OnlyCaller(t)
  BY <1>1, <1>2 DEF SerialInv
<1>4. Cardinality(At(Uncounted)) = Owed(t)
  <2>1. \A w \in Thread : w # t => pc[w] \notin Uncounted
    BY <1>3 DEF OnlyCaller, Uncounted
  <2>2. At(Uncounted) = IF pc[t] \in Uncounted THEN {t} ELSE {}
    BY <1>3, <2>1 DEF At
  <2>3. Cardinality({t}) = 1 /\ Cardinality({}) = 0
    BY FS_Singleton, FS_EmptySet
  <2> QED BY <2>2, <2>3 DEF Owed
<1> QED
  BY <1>2, <1>3, <1>4 DEF OnlyCaller, Conserved, TypeOK

\* F11, "(b + c) - c = b": a single thread's calls are counted exactly, and its assertion
\* holds every time.
THEOREM SerialCredit == Spec => []SerialCreditIsExact
<1>1. Init => SerialInv
  BY DEF Init, SerialInv, OnlyCaller, Owed, Uncounted
<1> QED
  BY <1>1, TypeCorrect, NextSerial, SerialIsExact, PTL DEF Spec

----------------------------------------------------------------------------
(* Revocation.                                                             *)

\* Only a verification admits a call, and none succeeds once the node is revoked.
LEMMA RevokedStaysQuiet == TypeOK /\ [Next]_vars => [StaysQuiet]_vars
<1> SUFFICES ASSUME TypeOK, Next, revoked, At({"append"}) = {}
             PROVE  chain' = chain /\ At({"append"})' = {}
  BY DEF StaysQuiet
<1>1. \A t \in Thread : pc[t] # "append"
  BY DEF At
<1>2. chain' = chain
  BY <1>1 DEF Next, Tick, RevokeToken, EvictStale, Management, IssueSelfToken, Register,
         AcceptExternalToken, RevokeSelf, ClearToken, StartHeartbeat, StopHeartbeat,
         HeartbeatLoop, HeartbeatWake, HeartbeatSend, WorkStep, AcceptWork, Admit, Reject,
         AppendReceipt, RememberContribution, LoadContribution, StoreContribution,
         AssertConserved, AssertFails, AddContribution
<1>3. CASE \E t \in Thread : WorkStep(t)
  <2>1. PICK t \in Thread : WorkStep(t)
    BY <1>3
  <2>2. PICK x \in Step \ {"append"} : pc' = [pc EXCEPT ![t] = x]
    BY <1>1, <2>1 DEF WorkStep, AcceptWork, Admit, Reject, AppendReceipt, TokenAccepted,
         RememberContribution, LoadContribution, StoreContribution, AssertConserved,
         AssertFails, AddContribution, Step, Receipted, Uncounted
  <2> QED BY <1>1, <1>2, <2>2 DEF At, TypeOK
<1>4. CASE ~ \E t \in Thread : WorkStep(t)
  <2>1. pc' = pc
    BY <1>4 DEF Next, workVars, Tick, RevokeToken, EvictStale, Management, IssueSelfToken,
         Register, AcceptExternalToken, RevokeSelf, ClearToken, StartHeartbeat,
         StopHeartbeat, HeartbeatLoop, HeartbeatWake, HeartbeatSend
  <2> QED BY <1>1, <1>2, <2>1 DEF At
<1> QED
  BY <1>3, <1>4

\* A revoked node's chain grows no more than by the calls it had already admitted, in any
\* order of revocations, re-joins, clock and calls.
THEOREM RevokedNodeStaysQuiet == Spec => RevokedNodeIsQuiet
<1> QED
  BY TypeCorrect, RevokedStaysQuiet, PTL DEF Spec, RevokedNodeIsQuiet

----------------------------------------------------------------------------
(* The heartbeat loops.                                                    *)

\* The steps that the loops there are can take while the heartbeat stays stopped: a loop that
\* sleeps wakes and ends, and one that beats sleeps once more.
LoopSteps == sleeping + 2 * beating

LEMMA LoopsDescend ==
  TypeOK /\ [Next]_vars /\ ~ running /\ ~ running'
    => /\ LoopSteps \in Nat
       /\ LoopSteps' <= LoopSteps
       /\ HeartbeatLoop => LoopSteps' < LoopSteps
<1> SUFFICES ASSUME TypeOK, [Next]_vars, ~ running, ~ running'
             PROVE  /\ LoopSteps \in Nat /\ LoopSteps' <= LoopSteps
                    /\ HeartbeatLoop => LoopSteps' < LoopSteps
  OBVIOUS
<1>1. sleeping \in Nat /\ beating \in Nat
  BY DEF TypeOK
<1>2. CASE HeartbeatLoop
  BY <1>1, <1>2 DEF HeartbeatLoop, HeartbeatWake, HeartbeatSend, LoopSteps
<1>3. CASE ~ HeartbeatLoop
  <2>1. sleeping' = sleeping /\ beating' = beating
    BY <1>3 DEF Next, vars, workVars, loopVars, Tick, RevokeToken, EvictStale, Management,
       IssueSelfToken, Register, AcceptExternalToken, RevokeSelf, ClearToken, StartHeartbeat,
       StopHeartbeat, WorkStep, AcceptWork, Admit, Reject, AppendReceipt,
       RememberContribution, LoadContribution, StoreContribution, AssertConserved,
       AssertFails, AddContribution
  <2> QED BY <1>1, <1>3, <2>1 DEF LoopSteps
<1> QED
  BY <1>2, <1>3

\* The safety half of HeartbeatsEnd, for any number of loops: while the heartbeat stays
\* stopped no call adds to what its loops have left to do, and each step of a loop takes
\* something off it.
THEOREM StoppedLoopsDescend ==
  Spec => [][~ running /\ ~ running' =>
               /\ LoopSteps \in Nat
               /\ LoopSteps' <= LoopSteps
               /\ HeartbeatLoop => LoopSteps' < LoopSteps]_vars
<1> DEFINE Descends == ~ running /\ ~ running' =>
                         /\ LoopSteps \in Nat
                         /\ LoopSteps' <= LoopSteps
                         /\ HeartbeatLoop => LoopSteps' < LoopSteps
<1>1. TypeOK /\ [Next]_vars => [Descends]_vars
  BY LoopsDescend
<1> QED
  BY <1>1, TypeCorrect, PTL DEF Spec
=============================================================================
