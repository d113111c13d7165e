------------------------- MODULE PipelineWalk_proofs -------------------------
(* Proofs about PipelineWalk: runs of the pipeline are clients of the         *)
(* coordinator like any other, so what is proved of it holds among them.      *)
EXTENDS PipelineWalk, MeshCoordinator_proofs

RunFields == {"exit", "stages", "covered", "budget", "passes", "step", "picked"}

\* The locals of a call on which the requests it makes depend.
RunInv ==
  /\ DOMAIN run = Thread
  /\ \A t \in Thread :
       /\ DOMAIN run[t] = RunFields
       /\ run[t].step \in Nat
       /\ run[t].budget \in 0 .. MaxSteps
       /\ run[t].passes \in BOOLEAN

\* No run is under way.
LEMMA RunInit == PipelineInit => RunInv
<1>1. /\ DOMAIN NoRun = RunFields
      /\ NoRun.step = 0 /\ NoRun.budget = 0 /\ NoRun.passes \in BOOLEAN
  BY DEF NoRun, RunFields
<1>2. 0 \in 0 .. MaxSteps
  BY PipelineAssumption
<1>3. PipelineInit => DOMAIN run = Thread /\ \A t \in Thread : run[t] = NoRun
  BY DEF PipelineInit
<1> QED
  BY <1>1, <1>2, <1>3 DEF RunInv

\* A thread that makes a stage's request is within its budget.
LEMMA StageRequest ==
  ASSUME RunInv, NEW t \in Thread, run[t].step < run[t].budget
  PROVE  run[t].step + 1 \in Request /\ run[t].passes \in BOOLEAN
BY PipelineAssumption DEF RunInv

\* A step of a run is a step of the coordinator, or none of its business.
LEMMA StepRefines ==
  ASSUME RunInv, NEW t \in Thread, PipelineStep(t)
  PROVE  [Next]_vars
<1>1. CASE StageAdmitted(t)
  <2>1. DispatchAdmit(t, run[t].step + 1) /\ run[t].step + 1 \in Request
    BY <1>1, StageRequest DEF StageAdmitted
  <2> QED
    BY <2>1 DEF Next
<1>2. CASE StageRefused(t)
  <2>1. /\ DispatchRefuse(t, run[t].step + 1, run[t].passes)
        /\ run[t].step + 1 \in Request /\ run[t].passes \in BOOLEAN
    BY <1>2, StageRequest DEF StageRefused
  <2> QED
    BY <2>1 DEF Next
<1>3. CASE StageDispatches(t)
  BY <1>3 DEF StageDispatches, DispatchStep, Next
<1>4. CASE StopAtBudget(t) \/ Finish(t)
  BY <1>4 DEF StopAtBudget, Finish
<1> QED
  BY <1>1, <1>2, <1>3, <1>4 DEF PipelineStep

\* The other callers of the coordinator make steps of the coordinator.
LEMMA EnvironmentRefines == Environment => [Next]_vars /\ run' = run
<1> SUFFICES ASSUME Environment PROVE Next /\ run' = run
  OBVIOUS
<1>1. CASE \E n \in Node, vram \in Vram : tile[n].status # "UP" /\ JoinWithShare(n, vram)
  BY <1>1 DEF JoinWithShare, Membership, Next
<1>2. ASSUME NEW n \in Node, RevokeToken(n) \/ RevokeMarkDown(n) \/ JobComplete(n)
      PROVE  Next
  BY <1>2 DEF Membership, Next
<1> QED
  BY <1>1, <1>2 DEF Environment

\* Each step of a run changes at most one field of its own record, or two in turn.
LEMMA StepKeepsRun ==
  ASSUME RunInv, NEW t \in Thread, PipelineStep(t)
  PROVE  RunInv'
<1>1. CASE StopAtBudget(t)
  BY <1>1 DEF StopAtBudget, RunInv, RunFields
<1>2. CASE StageAdmitted(t)
  BY <1>2 DEF StageAdmitted, RunInv, RunFields
<1>3. CASE StageRefused(t)
  BY <1>3 DEF StageRefused, RunInv, RunFields
<1>4. CASE StageDispatches(t)
  BY <1>4 DEF StageDispatches, RunInv, RunFields
<1>5. CASE Finish(t)
  BY <1>5 DEF Finish, RunInv, RunFields
<1> QED
  BY <1>1, <1>2, <1>3, <1>4, <1>5 DEF PipelineStep

\* A call starts with no stage requested and a budget within bounds.
LEMMA StartKeepsRun ==
  ASSUME RunInv, NEW t \in Thread, NEW budget \in 1 .. MaxSteps, NEW passes \in BOOLEAN,
         Start(t, budget, passes)
  PROVE  RunInv' /\ UNCHANGED vars
<1> DEFINE plan == PipelinePlan(shares, UpNodes)
           call == [exit |-> "running", stages |-> plan.stages, covered |-> plan.covered,
                    budget |-> budget, passes |-> passes, step |-> 0, picked |-> <<>>]
<1>1. run' = [run EXCEPT ![t] = call] /\ UNCHANGED vars
  BY DEF Start
<1>2. /\ DOMAIN call = RunFields /\ call.step = 0
      /\ call.budget = budget /\ call.passes = passes
  BY DEF RunFields
<1> HIDE DEF call
<1> QED
  BY <1>1, <1>2 DEF RunInv

\* Every step keeps a run within its budget.
LEMMA PipelineKeepsRun ==
  RunInv /\ [PipelineNext]_pipelineVars => RunInv' /\ [Next]_vars
<1> SUFFICES ASSUME RunInv, [PipelineNext]_pipelineVars PROVE RunInv' /\ [Next]_vars
  OBVIOUS
<1>1. CASE Environment
  BY <1>1, EnvironmentRefines DEF RunInv
<1>2. CASE UNCHANGED pipelineVars
  BY <1>2 DEF pipelineVars, RunInv
<1> QED
  BY <1>1, <1>2, StepRefines, StepKeepsRun, StartKeepsRun DEF PipelineNext

\* run_pipeline is additive: whatever its runs do, the coordinator goes through a behaviour
\* of its own.
THEOREM PipelineIsAClient == PipelineSpec => Spec
<1>1. PipelineInit => Init
  BY DEF PipelineInit
<1> QED
  BY <1>1, RunInit, PipelineKeepsRun, PTL DEF PipelineSpec, Spec

\* Hence what is proved of the coordinator holds of the stages that runs dispatch: no stage
\* is recorded twice within the relay's TTL, the tile it was dispatched to is there (so the
\* walk's "error" exit is never taken for want of it), and the ledger and the loads are
\* right among any number of walks.  The clock stands still under PipelineSpec, so this is
\* said of what happens within one TTL.
THEOREM StagesAreSafe ==
  PipelineSpec =>
    [](AtMostOncePerTTL /\ SelectedTileExists /\ ReceiptsCoverJobs /\ LoadNeverOverstated)
BY PipelineIsAClient, RequestsAreIdempotent, SelectedTileIsThere, LedgerAccountsForJobs,
   LoadIsNeverOverstated, PTL
----------------------------------------------------------------------------
(* The stages of a plan are a sequence.                                    *)

Turns(up) == Cardinality(up) + 1
FirstTurn(up) == [stages |-> <<>>, cursor |-> 0, remaining |-> up]

\* One turn of the walk of _pipeline_plan, over the shares s.
Turn(s, at) ==
  LET reachable == Reachable(s, at.remaining, at.cursor)
      best == Furthest(s, reachable)
  IN  IF at.cursor >= TotalLayers \/ reachable = {} THEN at
      ELSE [stages |-> Append(at.stages, best), cursor |-> s[best].last,
            remaining |-> at.remaining \ {best}]

IsWalk(w, s, up) ==
  w = [k \in 0 .. Turns(up) |-> IF k = 0 THEN FirstTurn(up) ELSE Turn(s, w[k - 1])]

\* What the turns choose, and how far that reaches, whatever the shares are.
Picks(s, up) == {Furthest(s, S) : S \in SUBSET up}
WalkState(s, up) == [stages : Seq(Picks(s, up)),
                     cursor : {0} \cup {s[n].last : n \in Picks(s, up)},
                     remaining : SUBSET up]

\* A turn leads from a state of the walk to another.
LEMMA TurnType ==
  ASSUME NEW s, NEW up, NEW at \in WalkState(s, up)
  PROVE  Turn(s, at) \in WalkState(s, up)
<1> DEFINE reachable == Reachable(s, at.remaining, at.cursor)
           best == Furthest(s, reachable)
<1>1. CASE at.cursor >= TotalLayers \/ reachable = {}
  BY <1>1 DEF Turn
<1>2. CASE ~ (at.cursor >= TotalLayers \/ reachable = {})
  <2>1. reachable \in SUBSET up /\ at.remaining \in SUBSET up
        /\ at.stages \in Seq(Picks(s, up))
    BY DEF Reachable, WalkState
  <2>2. Turn(s, at) = [stages |-> Append(at.stages, best), cursor |-> s[best].last,
                       remaining |-> at.remaining \ {best}]
    BY <1>2 DEF Turn
  <2> HIDE DEF reachable
  <2>3. best \in Picks(s, up)
    BY <2>1 DEF Picks
  <2> HIDE DEF best
  <2>4. Append(at.stages, best) \in Seq(Picks(s, up))
    BY <2>1, <2>3, AppendProperties
  <2> QED
    BY <2>1, <2>2, <2>3, <2>4 DEF WalkState
<1> QED
  BY <1>1, <1>2

\* So the walk ends with a sequence of stages.
LEMMA StagesAreASequence ==
  ASSUME NEW s, NEW up, IsFiniteSet(up)
  PROVE  PipelinePlan(s, up).stages \in Seq(Picks(s, up))
<1> DEFINE N == Turns(up)
           V == WalkState(s, up)
           step == [k \in 1 .. N |-> [at \in V |-> Turn(s, at)]]
           w == CHOOSE w : IsWalk(w, s, up)
<1>1. N \in Nat
  BY FS_CardinalityType DEF Turns
<1>2. FirstTurn(up) \in V
  BY EmptySeq DEF FirstTurn, WalkState
<1>3. StepData(N, V, FirstTurn(up), step)
  BY <1>1, <1>2, TurnType DEF StepData
<1>4. PICK f : IsStepwise(f, N, V, FirstTurn(up), step)
  <2> HIDE DEF N, V, step
  <2> QED BY <1>3, StepwiseExists
<1>5. ASSUME NEW k \in 1 .. N
      PROVE  f[k] = Turn(s, f[k - 1])
  <2>1. k - 1 \in 0 .. N
    BY <1>1
  <2>2. f[k - 1] \in V /\ f[k] = step[k][f[k - 1]]
    BY <1>4, <2>1 DEF IsStepwise
  <2> HIDE DEF V
  <2> QED BY <2>2
<1>6. IsWalk(f, s, up)
  BY <1>1, <1>4, <1>5 DEF IsStepwise, IsWalk
<1>7. Walk(s, up) = w[N]
  BY DEF Walk, IsWalk, Turn, Turns, FirstTurn
<1>8. IsWalk(w, s, up)
  BY <1>6
<1> HIDE DEF w
<1>9. w[0] = FirstTurn(up) /\ \A k \in 1 .. N : w[k] = Turn(s, w[k - 1])
  BY <1>1, <1>8 DEF IsWalk
<1>10. w[N] \in V
  <2> DEFINE C == {k \in 0 .. N : w[k] \in V}
  <2>1. 0 \in C
    BY <1>1, <1>2, <1>9
  <2>2. ASSUME NEW k \in 0 .. N - 1, k \in C
        PROVE  k + 1 \in C
    <3>1. w[k + 1] = Turn(s, w[k])
      BY <1>1, <1>9
    <3> QED BY <1>1, <2>2, <3>1, TurnType
  <2>3. N \in 0 .. N
    BY <1>1
  <2> HIDE DEF C
  <2>4. N \in C
    BY <1>1, <2>1, <2>2, <2>3, UpTo
  <2> QED BY <2>4 DEF C
<1> QED
  BY <1>7, <1>10 DEF PipelinePlan, WalkState
----------------------------------------------------------------------------
(* Receipts close a run.  The strengthening says where a walk stands: how  *)
(* many of its stages are completed, that each of them has its receipt,    *)
(* and that of the walks still worth something one at most has set out.    *)

Exits == {"none", "running", "converged", "degraded", "budget_exhausted"}

\* Neither stopped short nor degraded.
Alive(t) == run[t].exit \in {"running", "converged"}

HasReceipt(k) == \E i \in DOMAIN ledger : ledger[i].job_id = k

\* The stages whose dispatch has returned.
Completed(t) == IF pc[t] = "idle" THEN run[t].step ELSE run[t].step - 1

\* What is used of a sequence of stages, whatever its elements.
Listed(s) == Len(s) \in Nat /\ DOMAIN s = 1 .. Len(s) /\ (Len(s) = 0 => s = <<>>)

AliveAt(t) ==
  /\ Listed(run[t].stages)
  /\ run[t].picked \in Seq(Node)
  /\ run[t].step <= Len(run[t].stages)
  /\ run[t].step <= run[t].budget
  /\ pc[t] # "idle" => run[t].step >= 1 /\ job[t] = run[t].step
  /\ Len(run[t].picked) = Completed(t)
  /\ \A k \in 1 .. Completed(t) : HasReceipt(k)
  /\ pc[t] = "credit" => HasReceipt(run[t].step)

WalkOf(t) ==
  /\ run[t].exit \in Exits
  /\ run[t].exit # "running" => pc[t] = "idle"
  /\ Alive(t) => AliveAt(t)
  /\ run[t].exit = "converged" =>
       /\ run[t].covered /\ run[t].stages # <<>>
       /\ run[t].step = Len(run[t].stages)

SetOut(t) == Alive(t) /\ run[t].step >= 1

WalkInv ==
  /\ now = 0
  /\ \A t \in Thread : WalkOf(t)
  /\ \A t, u \in Thread : SetOut(t) /\ SetOut(u) => t = u

PipelineInv == RunInv /\ TypeInv /\ F7Inv /\ WalkInv

\* No walk has been started.
LEMMA WalkInit == PipelineInit => PipelineInv
<1> SUFFICES ASSUME PipelineInit PROVE PipelineInv
  OBVIOUS
<1>1. Init /\ run = [t \in Thread |-> NoRun]
  BY DEF PipelineInit
<1>2. RunInv /\ TypeInv /\ F7Inv
  BY <1>1, RunInit, TypeInit, F7Init
<1>3. now = 0 /\ pc = [t \in Thread |-> "idle"]
  BY <1>1 DEF Init
<1>4. \A t \in Thread : run[t].exit = "none"
  BY <1>1 DEF NoRun
<1> QED
  BY <1>2, <1>3, <1>4 DEF PipelineInv, WalkInv, WalkOf, Exits, Alive, SetOut

\* While the clock stands still the relay holds whatever it has let through.
LEMMA RecordedIsDuplicate ==
  ASSUME TypeOK, now = 0, NEW r \in Request, NEW a \in Nat, Remembered(r, a)
  PROVE  IsDuplicate(r) /\ a = 0
BY TimeAssumption DEF TypeOK, Remembered, IsDuplicate, Unexpired, Never

\* A walk that has set out has had its first stage let through.
LEMMA FirstStageIsTaken ==
  ASSUME PipelineInv, NEW t \in Thread, SetOut(t)
  PROVE  IsDuplicate(1)
<1>1. TypeOK /\ RunInv /\ RelayInv /\ now = 0 /\ AliveAt(t) /\ run[t].step >= 1
  BY DEF PipelineInv, TypeInv, F7Inv, WalkInv, WalkOf, SetOut
<1>2. run[t].step \in Nat /\ run[t].budget \in 0 .. MaxSteps /\ run[t].step <= run[t].budget
  BY <1>1 DEF RunInv, AliveAt
<1>3. 1 \in Request
  BY <1>1, <1>2, PipelineAssumption
<1>4. CASE HasReceipt(1)
  <2>1. PICK i \in DOMAIN ledger : ledger[i].job_id = 1
    BY <1>4 DEF HasReceipt
  <2>2. Remembered(1, ledger[i].admitted) /\ ledger[i].admitted \in Nat
    BY <1>1, <2>1, ReceiptFields DEF RelayInv
  <2> QED
    BY <1>1, <1>3, <2>2, RecordedIsDuplicate
<1>5. CASE pc[t] # "idle" /\ job[t] = 1
  <2>1. Remembered(1, admitted[t]) /\ admitted[t] \in Nat
    BY <1>1, <1>5 DEF RelayInv, TypeOK
  <2> QED
    BY <1>1, <1>3, <2>1, RecordedIsDuplicate
<1>6. HasReceipt(1) \/ (pc[t] # "idle" /\ job[t] = 1)
  <2>1. CASE pc[t] = "idle" \/ run[t].step > 1
    <3>1. 1 \in 1 .. Completed(t)
      BY <1>1, <1>2, <2>1 DEF Completed
    <3> QED BY <1>1, <3>1 DEF AliveAt
  <2>2. CASE pc[t] # "idle" /\ run[t].step = 1
    BY <1>1, <2>2 DEF AliveAt
  <2> QED
    BY <1>1, <1>2, <2>1, <2>2
<1> QED
  BY <1>4, <1>5, <1>6

\* A step that leaves a thread, its run and the receipts there are leaves its walk.
LEMMA WalkKept ==
  ASSUME NEW u \in Thread, WalkOf(u),
         run'[u] = run[u], pc'[u] = pc[u], job'[u] = job[u],
         \A k : HasReceipt(k) => HasReceipt(k)'
  PROVE  WalkOf(u)' /\ (SetOut(u)' => SetOut(u))
<1>1. Alive(u)' => Alive(u)
  BY DEF Alive
<1>2. Completed(u)' = Completed(u)
  BY DEF Completed
<1>3. AliveAt(u) => AliveAt(u)'
  <2> SUFFICES ASSUME AliveAt(u) PROVE AliveAt(u)'
    OBVIOUS
  <2>1. Listed(run[u].stages)'
    BY DEF AliveAt, Listed
  <2>2. \A k \in 1 .. Completed(u)' : HasReceipt(k)'
    BY <1>2 DEF AliveAt
  <2>3. pc'[u] = "credit" => HasReceipt(run[u].step)'
    BY DEF AliveAt, HasReceipt
  <2> QED
    BY <1>2, <2>1, <2>2, <2>3 DEF AliveAt
<1> QED
  BY <1>1, <1>3 DEF WalkOf, SetOut, Alive

\* A receipt stays in the ledger, and the one a dispatch writes is its request's.
LEMMA ReceiptsStay ==
  ASSUME TypeInv, NEW t \in Thread,
         ledger' = ledger \/ DispatchReceipt(t)
  PROVE  /\ \A k : HasReceipt(k) => HasReceipt(k)'
         /\ DispatchReceipt(t) => HasReceipt(job[t])'
<1>1. CASE DispatchReceipt(t)
  <2> DEFINE new == [job_id |-> job[t], admitted |-> admitted[t]]
  <2>1. new \in Receipt /\ ledger \in Seq(Receipt) /\ ledger' = Append(ledger, new)
    BY <1>1 DEF DispatchReceipt, Receipt, TypeInv, ThreadInv, TypeOK
  <2>2. new.job_id = job[t]
    OBVIOUS
  <2> HIDE DEF new
  <2>3. /\ DOMAIN ledger = 1 .. Len(ledger) /\ Len(ledger) \in Nat
        /\ DOMAIN ledger' = 1 .. Len(ledger) + 1
        /\ \A i \in DOMAIN ledger : ledger'[i] = ledger[i]
        /\ ledger'[Len(ledger) + 1] = new
    BY <2>1, LenProperties, AppendProperties
  <2>4. \A i \in DOMAIN ledger : i \in DOMAIN ledger'
    BY <2>3
  <2>5. Len(ledger) + 1 \in DOMAIN ledger'
    BY <2>3
  <2>6. HasReceipt(job[t])'
    <3>1. job' = job
      BY <1>1 DEF DispatchReceipt
    <3> QED BY <2>2, <2>3, <2>5, <3>1 DEF HasReceipt
  <2> QED
    BY <2>3, <2>4, <2>6 DEF HasReceipt
<1>2. CASE ledger' = ledger /\ ~ DispatchReceipt(t)
  BY <1>2 DEF HasReceipt
<1> QED
  BY <1>1, <1>2

\* What a step of thread t leaves alone: the clock, the other threads and the receipts.
OthersKept(t) ==
  /\ now' = now
  /\ \A u \in Thread \ {t} : run'[u] = run[u] /\ pc'[u] = pc[u] /\ job'[u] = job[u]
  /\ \A k : HasReceipt(k) => HasReceipt(k)'

LEMMA StepKeepsOthers ==
  ASSUME RunInv, TypeInv, NEW t \in Thread, PipelineStep(t)
  PROVE  OthersKept(t)
<1> USE DEF RunInv, TypeInv, TypeOK, threadVars, vars
<1>1. CASE StopAtBudget(t) \/ Finish(t)
  BY <1>1 DEF StopAtBudget, Finish, OthersKept, HasReceipt
<1>2. CASE StageAdmitted(t)
  BY <1>2 DEF StageAdmitted, DispatchAdmit, OthersKept, HasReceipt
<1>3. CASE StageRefused(t)
  BY <1>3 DEF StageRefused, DispatchRefuse, OthersKept, HasReceipt
<1>4. CASE StageDispatches(t)
  <2>1. ledger' = ledger \/ DispatchReceipt(t)
    BY <1>4 DEF StageDispatches, DispatchSelect, DispatchCount, DispatchCredit,
                DispatchDegrade
  <2>2. \A k : HasReceipt(k) => HasReceipt(k)'
    BY <2>1, ReceiptsStay
  <2>3. \A u \in Thread \ {t} : run'[u] = run[u]
    BY <1>4 DEF StageDispatches
  <2>4. now' = now /\ \A u \in Thread \ {t} : pc'[u] = pc[u] /\ job'[u] = job[u]
    BY <1>4 DEF StageDispatches, DispatchSelect, DispatchCount, DispatchReceipt,
                DispatchCredit, DispatchDegrade, Return
  <2> QED
    BY <2>2, <2>3, <2>4 DEF OthersKept
<1> QED
  BY <1>1, <1>2, <1>3, <1>4 DEF PipelineStep

\* A stage let through is the next one, and is being dispatched.
LEMMA WalkAfterAdmission ==
  ASSUME RunInv, TypeInv, NEW t \in Thread, WalkOf(t), StageAdmitted(t),
         \A k : HasReceipt(k) => HasReceipt(k)'
  PROVE  WalkOf(t)'
<1>1. /\ run[t].exit = "running" /\ pc[t] = "idle" /\ AliveAt(t)
      /\ run[t].step < Len(run[t].stages) /\ run[t].step < run[t].budget
      /\ run[t].step \in Nat /\ run[t].budget \in Nat /\ Len(run[t].stages) \in Nat
  BY DEF StageAdmitted, BetweenStages, Walking, MoreStages, WalkOf, Alive, AliveAt, Listed,
         RunInv
<1>2. /\ run'[t].exit = "running" /\ run'[t].stages = run[t].stages
      /\ run'[t].picked = run[t].picked /\ run'[t].budget = run[t].budget
      /\ run'[t].step = run[t].step + 1
  BY <1>1 DEF StageAdmitted, RunInv, RunFields
<1>3. pc'[t] = "select" /\ job'[t] = run[t].step + 1
  BY DEF StageAdmitted, DispatchAdmit, TypeInv, TypeOK
<1>4. Completed(t)' = Completed(t) /\ Completed(t) = run[t].step
  BY <1>1, <1>2, <1>3 DEF Completed
<1>5. \A k \in 1 .. Completed(t) : HasReceipt(k)'
  BY <1>1 DEF AliveAt
<1>6. Listed(run[t].stages)' /\ run'[t].picked \in Seq(Node)
  BY <1>1, <1>2 DEF AliveAt, Listed
<1>7. AliveAt(t)'
  BY <1>1, <1>2, <1>3, <1>4, <1>5, <1>6 DEF AliveAt
<1> QED
  BY <1>2, <1>3, <1>7 DEF WalkOf, Exits

\* A dispatch runs on to its receipt and to the pick of a node.
LEMMA WalkAfterDispatch ==
  ASSUME RunInv, TypeInv, NEW t \in Thread, WalkOf(t), StageDispatches(t),
         \A k : HasReceipt(k) => HasReceipt(k)'
  PROVE  WalkOf(t)'
<1>1. /\ run[t].exit = "running" /\ AliveAt(t) /\ run[t].step \in Nat
      /\ pc \in [Thread -> {"idle"} \cup InDispatch]
      /\ run[t].budget \in Nat /\ Len(run[t].stages) \in Nat
  BY DEF StageDispatches, Walking, WalkOf, Alive, AliveAt, Listed, RunInv, TypeInv, TypeOK
<1>2. CASE DispatchDegrade(t)
  <2>1. ~ DispatchSelect(t) /\ ~ DispatchCount(t) /\ ~ DispatchReceipt(t) /\ ~ DispatchCredit(t)
    BY <1>2 DEF DispatchDegrade, DispatchSelect, DispatchCount, DispatchReceipt, DispatchCredit
  <2>2. run'[t].exit = "degraded" /\ pc'[t] = "idle"
    BY <1>1, <1>2, <2>1 DEF StageDispatches, DispatchDegrade, Return, RunInv, RunFields
  <2> QED
    BY <2>2 DEF WalkOf, Exits, Alive
<1>3. CASE (DispatchSelect(t) \/ DispatchCount(t) \/ DispatchReceipt(t)) /\ run' = run
  <2>1. /\ pc[t] # "idle" /\ pc[t] # "credit" /\ pc'[t] # "idle" /\ job'[t] = job[t]
        /\ pc'[t] = "credit" => DispatchReceipt(t)
    BY <1>1, <1>3 DEF DispatchSelect, DispatchCount, DispatchReceipt
  <2>2. Completed(t)' = Completed(t) /\ Alive(t)' = Alive(t)
    BY <1>3, <2>1 DEF Completed, Alive
  <2>3. job[t] = run[t].step /\ run[t].step >= 1
    BY <1>1, <2>1 DEF AliveAt
  <2>4. pc'[t] = "credit" => HasReceipt(run[t].step)'
    <3>1. DispatchReceipt(t) => HasReceipt(job[t])'
      BY ReceiptsStay
    <3> QED BY <1>3, <2>1, <2>3, <3>1 DEF HasReceipt
  <2>5. \A k \in 1 .. Completed(t)' : HasReceipt(k)'
    BY <1>1, <2>2 DEF AliveAt
  <2>6. AliveAt(t)'
    BY <1>1, <1>3, <2>1, <2>2, <2>3, <2>4, <2>5 DEF AliveAt, Listed
  <2>7. run'[t].exit = "running"
    BY <1>1, <1>3
  <2> QED
    BY <2>6, <2>7 DEF WalkOf, Exits
<1>4. CASE DispatchCredit(t)
  <2>1. /\ pc[t] = "credit" /\ pc'[t] = "idle" /\ sel[t] \in Node
    BY <1>1, <1>4 DEF DispatchCredit, Return, TypeInv, ThreadInv
  <2>2. ~ DispatchSelect(t) /\ ~ DispatchCount(t) /\ ~ DispatchReceipt(t) /\ ~ DispatchDegrade(t)
    BY <2>1 DEF DispatchDegrade, DispatchSelect, DispatchCount, DispatchReceipt
  <2>3. /\ run'[t].exit = "running" /\ run'[t].stages = run[t].stages
        /\ run'[t].picked = Append(run[t].picked, sel[t])
        /\ run'[t].budget = run[t].budget /\ run'[t].step = run[t].step
    BY <1>1, <2>2 DEF StageDispatches, RunInv, RunFields
  <2>4. /\ run[t].picked \in Seq(Node) /\ Len(run[t].picked) = run[t].step - 1
        /\ HasReceipt(run[t].step) /\ \A k \in 1 .. run[t].step - 1 : HasReceipt(k)
    BY <1>1, <2>1 DEF AliveAt, Completed
  <2>5. run'[t].picked \in Seq(Node) /\ Len(run'[t].picked) = run[t].step
    BY <1>1, <2>1, <2>3, <2>4, AppendProperties, LenProperties
  <2>6. Completed(t)' = run[t].step
    BY <2>1, <2>3 DEF Completed
  <2>7. \A k \in 1 .. run[t].step : k \in 1 .. run[t].step - 1 \/ k = run[t].step
    BY <1>1
  <2>8. \A k \in 1 .. run[t].step : HasReceipt(k)'
    BY <2>4, <2>7
  <2>9. Listed(run[t].stages)' /\ run[t].step <= Len(run[t].stages)
        /\ run[t].step <= run[t].budget
    BY <1>1, <2>3 DEF AliveAt, Listed
  <2>10. AliveAt(t)'
    BY <2>1, <2>3, <2>5, <2>6, <2>8, <2>9 DEF AliveAt
  <2> QED
    BY <2>3, <2>10 DEF WalkOf, Exits
<1> QED
  BY <1>2, <1>3, <1>4 DEF StageDispatches

\* A step of its thread takes a walk from one place to the next.
LEMMA WalkMoves ==
  ASSUME RunInv, TypeInv, NEW t \in Thread, WalkOf(t), PipelineStep(t),
         \A k : HasReceipt(k) => HasReceipt(k)'
  PROVE  WalkOf(t)' /\ (SetOut(t)' => SetOut(t) \/ StageAdmitted(t))
<1>1. CASE StageAdmitted(t)
  BY <1>1, WalkAfterAdmission
<1>2. CASE StageDispatches(t)
  <2>1. run'[t].step = run[t].step /\ run[t].exit = "running"
    BY <1>2 DEF StageDispatches, Walking, RunInv, RunFields
  <2> QED
    BY <1>2, <2>1, WalkAfterDispatch DEF SetOut, Alive
<1>3. CASE StopAtBudget(t) \/ StageRefused(t)
  <2>1. /\ run'[t].exit \in {"budget_exhausted", "degraded"} /\ pc'[t] = "idle"
    BY <1>3 DEF StopAtBudget, StageRefused, BetweenStages, DispatchRefuse, threadVars, vars,
                RunInv, RunFields
  <2> QED
    BY <2>1 DEF WalkOf, Exits, Alive, SetOut
<1>4. CASE Finish(t)
  <2>1. /\ run[t].exit = "running" /\ pc[t] = "idle" /\ AliveAt(t)
        /\ run[t].step \in Nat /\ Len(run[t].stages) \in Nat
        /\ ~ (run[t].step < Len(run[t].stages))
    BY <1>4 DEF Finish, BetweenStages, Walking, MoreStages, WalkOf, Alive, AliveAt, Listed,
                RunInv
  <2>2. run[t].step = Len(run[t].stages)
    BY <2>1 DEF AliveAt
  <2>3. /\ run'[t].exit = IF run[t].stages # <<>> /\ run[t].covered THEN "converged"
                          ELSE "degraded"
        /\ run'[t].stages = run[t].stages /\ run'[t].covered = run[t].covered
        /\ run'[t].picked = run[t].picked /\ run'[t].budget = run[t].budget
        /\ run'[t].step = run[t].step
        /\ pc'[t] = pc[t] /\ ledger' = ledger
    BY <1>4 DEF Finish, RunInv, RunFields, vars, threadVars
  <2>4. Completed(t)' = Completed(t)
    BY <2>3 DEF Completed
  <2>5. \A k \in 1 .. Completed(t) : HasReceipt(k)'
    BY <2>1 DEF AliveAt
  <2>6. AliveAt(t)'
    BY <2>1, <2>3, <2>4, <2>5 DEF AliveAt, Listed
  <2> QED
    BY <2>1, <2>2, <2>3, <2>6 DEF WalkOf, Exits, SetOut, Alive
<1> QED
  BY <1>1, <1>2, <1>3, <1>4 DEF PipelineStep

\* A call starts with a plan and no stage of it requested.
LEMMA WalkStarts ==
  ASSUME RunInv, TypeInv, NEW t \in Thread, WalkOf(t),
         NEW budget \in 1 .. MaxSteps, NEW passes \in BOOLEAN, Start(t, budget, passes)
  PROVE  WalkOf(t)' /\ ~ SetOut(t)' /\ OthersKept(t)
<1> DEFINE plan == PipelinePlan(shares, UpNodes)
<1>1. plan.stages \in Seq(Picks(shares, UpNodes))
  <2>1. IsFiniteSet(UpNodes)
    BY NodeAssumption, FS_Subset DEF UpNodes
  <2> QED BY <2>1, StagesAreASequence
<1>2. /\ run'[t].exit = "running" /\ run'[t].stages = plan.stages
      /\ run'[t].budget = budget /\ run'[t].step = 0 /\ run'[t].picked = <<>>
      /\ \A u \in Thread \ {t} : run'[u] = run[u]
  BY DEF Start, RunInv
<1>3. UNCHANGED vars /\ run[t].exit = "none"
  BY DEF Start
<1> HIDE DEF plan
<1>4. Listed(plan.stages) /\ Len(plan.stages) >= 0
  BY <1>1, LenProperties, EmptySeq DEF Listed
<1>5. pc[t] = "idle" /\ pc'[t] = "idle"
  BY <1>3 DEF WalkOf, vars, threadVars
<1>6. Completed(t)' = 0 /\ Len(run'[t].picked) = 0 /\ run'[t].picked \in Seq(Node)
  BY <1>2, <1>5, EmptySeq DEF Completed
<1>7. Listed(run[t].stages)' /\ 0 <= Len(run'[t].stages) /\ 0 <= budget
  BY <1>2, <1>4 DEF Listed
<1>8. AliveAt(t)'
  BY <1>2, <1>5, <1>6, <1>7 DEF AliveAt
<1>9. WalkOf(t)' /\ ~ SetOut(t)'
  BY <1>2, <1>5, <1>8 DEF WalkOf, Exits, SetOut
<1>10. OthersKept(t)
  BY <1>2, <1>3 DEF OthersKept, vars, threadVars, HasReceipt
<1> QED
  BY <1>9, <1>10

\* Every step keeps every walk where its receipts say, and lets one at most set out.
LEMMA WalkStep == PipelineInv /\ [PipelineNext]_pipelineVars => PipelineInv'
<1> SUFFICES ASSUME PipelineInv, [PipelineNext]_pipelineVars PROVE PipelineInv'
  OBVIOUS
<1>1. RunInv /\ TypeInv /\ F7Inv /\ WalkInv
  BY DEF PipelineInv
<1>2. [Next]_vars /\ RunInv' /\ TypeInv' /\ F7Inv'
  BY <1>1, PipelineKeepsRun, TypeStep, F7Step
<1>3. ASSUME NEW t \in Thread, OthersKept(t), WalkOf(t)',
             SetOut(t)' => SetOut(t) \/ StageAdmitted(t)
      PROVE  WalkInv'
  <2>1. \A u \in Thread \ {t} : WalkOf(u)' /\ (SetOut(u)' => SetOut(u))
    BY <1>1, <1>3, WalkKept DEF WalkInv, OthersKept
  <2>2. StageAdmitted(t) /\ run[t].step = 0 => \A u \in Thread : ~ SetOut(u)
    <3> SUFFICES ASSUME StageAdmitted(t), run[t].step = 0, NEW u \in Thread, SetOut(u)
                 PROVE  FALSE
      OBVIOUS
    <3>1. ~ IsDuplicate(1)
      BY DEF StageAdmitted, DispatchAdmit
    <3> QED BY <3>1, FirstStageIsTaken
  <2>3. StageAdmitted(t) /\ run[t].step # 0 => SetOut(t)
    <3>1. run[t].step \in Nat
      BY <1>1 DEF RunInv
    <3> QED BY <3>1 DEF StageAdmitted, BetweenStages, Walking, SetOut, Alive
  <2>4. ASSUME NEW u \in Thread, NEW v \in Thread, SetOut(u)', SetOut(v)'
        PROVE  u = v
    <3>1. \A x, y \in Thread : SetOut(x) /\ SetOut(y) => x = y
      BY <1>1 DEF WalkInv
    <3> QED BY <1>3, <2>1, <2>2, <2>3, <2>4, <3>1
  <2> QED
    BY <1>1, <1>3, <2>1, <2>4 DEF WalkInv, OthersKept
<1>4. ASSUME NEW t \in Thread, PipelineStep(t)
      PROVE  WalkInv'
  <2>1. OthersKept(t)
    BY <1>1, <1>4, StepKeepsOthers
  <2>2. WalkOf(t)' /\ (SetOut(t)' => SetOut(t) \/ StageAdmitted(t))
    BY <1>1, <1>4, <2>1, WalkMoves DEF OthersKept, WalkInv
  <2> QED BY <1>3, <2>1, <2>2
<1>5. ASSUME NEW t \in Thread, NEW budget \in 1 .. MaxSteps, NEW passes \in BOOLEAN,
             Start(t, budget, passes)
      PROVE  WalkInv'
  <2>1. WalkOf(t)' /\ ~ SetOut(t)' /\ OthersKept(t)
    BY <1>1, <1>5, WalkStarts DEF WalkInv
  <2> QED BY <1>3, <2>1
<1>6. ASSUME Environment \/ UNCHANGED pipelineVars
      PROVE  WalkInv'
  <2>1. run' = run /\ now' = now /\ pc' = pc /\ job' = job /\ ledger' = ledger
    BY <1>6 DEF Environment, JoinWithShare, JoinNode, RevokeToken, RevokeMarkDown,
                JobComplete, pipelineVars, vars, threadVars
  <2>2. \A u \in Thread : WalkOf(u)' /\ (SetOut(u)' => SetOut(u))
    BY <1>1, <2>1, WalkKept DEF WalkInv, HasReceipt
  <2> QED
    BY <1>1, <2>1, <2>2 DEF WalkInv
<1>7. WalkInv'
  BY <1>4, <1>5, <1>6 DEF PipelineNext
<1> QED
  BY <1>2, <1>7 DEF PipelineInv

\* ConvergesOnce, for any number of runs of a base request and any budgets: the runs that
\* were let past the first stage are out of each other's way for good.
THEOREM OneRunConverges == PipelineSpec => []ConvergesOnce
<1>1. PipelineInv => ConvergesOnce
  <2> SUFFICES ASSUME PipelineInv, NEW t \in Thread, NEW u \in Thread,
                      run[t].exit = "converged", run[u].exit = "converged"
               PROVE  t = u
    BY DEF ConvergesOnce
  <2>1. ASSUME NEW v \in Thread, run[v].exit = "converged"
        PROVE  SetOut(v)
    <3>1. AliveAt(v) /\ run[v].stages # <<>> /\ run[v].step = Len(run[v].stages)
      BY <2>1 DEF PipelineInv, WalkInv, WalkOf, Alive
    <3>2. run[v].step >= 1
      BY <3>1 DEF AliveAt, Listed
    <3> QED BY <2>1, <3>2 DEF SetOut, Alive
  <2> QED
    BY <2>1 DEF PipelineInv, WalkInv
<1> QED
  BY <1>1, WalkInit, WalkStep, PTL DEF PipelineSpec

\* ConvergedIsClosed, for any plan: a run that reports "converged" is closed by its
\* receipts, one for each of the stages of a plan that covered every layer.
THEOREM ConvergedRunsAreClosed == PipelineSpec => []ConvergedIsClosed
<1>1. PipelineInv => ConvergedIsClosed
  <2> SUFFICES ASSUME PipelineInv, NEW t \in Thread, run[t].exit = "converged"
               PROVE  /\ run[t].covered /\ run[t].stages # <<>>
                      /\ Len(run[t].picked) = Len(run[t].stages)
                      /\ Len(run[t].stages) <= run[t].budget
                      /\ \A k \in DOMAIN run[t].stages : Cardinality(ReceiptsOf(k)) = 1
    BY DEF ConvergedIsClosed
  <2>1. /\ AliveAt(t) /\ pc[t] = "idle" /\ run[t].covered /\ run[t].stages # <<>>
        /\ run[t].step = Len(run[t].stages)
    BY DEF PipelineInv, WalkInv, WalkOf, Alive
  <2>2. Completed(t) = Len(run[t].stages)
    BY <2>1 DEF Completed
  <2>3. ASSUME NEW k \in DOMAIN run[t].stages
        PROVE  Cardinality(ReceiptsOf(k)) = 1
    <3>1. PICK i \in DOMAIN ledger : ledger[i].job_id = k
      BY <2>1, <2>2, <2>3 DEF AliveAt, Listed, HasReceipt
    <3>2. ASSUME NEW j \in DOMAIN ledger, ledger[j].job_id = k
          PROVE  j = i
      <4>1. TypeOK /\ RelayInv /\ AtMostOncePerTTL /\ now = 0
        BY DEF PipelineInv, TypeInv, F7Inv, WalkInv
      <4>2. ledger[i].admitted = 0 /\ ledger[j].admitted = 0
        BY <3>1, <3>2, <4>1, ReceiptFields, RecordedIsDuplicate DEF RelayInv
      <4>3. ~ Apart(0, 0)
        BY TimeAssumption DEF Apart
      <4>4. i \in Nat /\ j \in Nat
        BY <3>1, <3>2, <4>1, LenProperties DEF TypeOK
      <4> QED
        BY <3>1, <3>2, <4>1, <4>2, <4>3, <4>4 DEF AtMostOncePerTTL
    <3>3. ReceiptsOf(k) = {i}
      BY <3>1, <3>2 DEF ReceiptsOf
    <3> QED BY <3>3, FS_Singleton
  <2> QED
    BY <2>1, <2>2, <2>3 DEF AliveAt
<1> QED
  BY <1>1, WalkInit, WalkStep, PTL DEF PipelineSpec

----------------------------------------------------------------------------
(* What a walk has ahead of it.                                            *)

\* How far a dispatch is from its return.
Rank == [idle |-> 0, select |-> 4, count |-> 3, receipt |-> 2, credit |-> 1]

\* The steps a walk has ahead of it, but for the last.
Ahead(t) == 5 * (Len(run[t].stages) - run[t].step) + Rank[pc[t]]

\* It is a natural number.
LEMMA AheadIsNat ==
  ASSUME RunInv, TypeInv, NEW t \in Thread, WalkOf(t), Walking(t)
  PROVE  Ahead(t) \in Nat
<1> DEFINE s == run[t].step
           n == Len(run[t].stages)
<1>1. s \in Nat /\ n \in Nat /\ s <= n
  BY DEF RunInv, WalkOf, Walking, Alive, AliveAt, Listed
<1>2. Rank[pc[t]] \in Nat
  BY DEF TypeInv, TypeOK, InDispatch, Rank
<1>3. Ahead(t) = 5 * (n - s) + Rank[pc[t]]
  BY DEF Ahead
<1>4. n - s \in Nat
  BY <1>1
<1> HIDE DEF n, s
<1> QED
  BY <1>2, <1>3, <1>4

\* A step of a walk ends it or leaves less of it ahead.
LEMMA StepDescends ==
  ASSUME RunInv, TypeInv, NEW t \in Thread, WalkOf(t), Walking(t), PipelineStep(t)
  PROVE  ~ Walking(t)' \/ Ahead(t)' < Ahead(t)
<1>1. /\ run[t].step \in Nat /\ Len(run[t].stages) \in Nat
      /\ run[t].step <= Len(run[t].stages)
      /\ DOMAIN run = Thread /\ DOMAIN run[t] = RunFields
  BY DEF RunInv, WalkOf, Walking, Alive, AliveAt, Listed
<1>2. pc[t] \in {"idle", "select", "count", "receipt", "credit"} /\ DOMAIN pc = Thread
  BY DEF TypeInv, TypeOK, InDispatch
<1> DEFINE s == run[t].step
           n == Len(run[t].stages)
<1>3. Ahead(t) \in Nat
  BY AheadIsNat
<1>4. CASE StopAtBudget(t) \/ StageRefused(t) \/ Finish(t) \/ DispatchDegrade(t)
  <2>1. run'[t].exit # "running"
    BY <1>1, <1>4 DEF StopAtBudget, StageRefused, Finish, RunFields, PipelineStep,
       StageDispatches, DispatchDegrade, StageAdmitted, DispatchSelect, DispatchCount,
       DispatchReceipt, DispatchCredit, BetweenStages
  <2> QED BY <2>1 DEF Walking
<1>5. CASE StageAdmitted(t)
  <2>1. /\ run'[t].step = s + 1 /\ Len(run'[t].stages) = n
        /\ pc[t] = "idle" /\ pc'[t] = "select"
    BY <1>1, <1>2, <1>5 DEF StageAdmitted, BetweenStages, DispatchAdmit, RunFields
  <2>2. Ahead(t) = 5 * (n - s) + 0 /\ Ahead(t)' = 5 * (n - (s + 1)) + 4
    BY <2>1 DEF Ahead, Rank
  <2>3. n \in Nat /\ s \in Nat
    BY <1>1
  <2> HIDE DEF n, s
  <2> QED BY <1>3, <2>2, <2>3
<1>6. CASE StageDispatches(t) /\ ~ DispatchDegrade(t)
  <2>1. run'[t].step = s /\ Len(run'[t].stages) = n
    BY <1>1, <1>6 DEF StageDispatches, RunFields
  <2>2. \/ pc[t] = "select" /\ pc'[t] = "count"
        \/ pc[t] = "count" /\ pc'[t] = "receipt"
        \/ pc[t] = "receipt" /\ pc'[t] = "credit"
        \/ pc[t] = "credit" /\ pc'[t] = "idle"
    BY <1>2, <1>6 DEF StageDispatches, DispatchSelect, DispatchCount, DispatchReceipt,
       DispatchCredit, Return
  <2>3. Rank[pc'[t]] = Rank[pc[t]] - 1 /\ Rank[pc[t]] \in Int
    BY <2>2 DEF Rank
  <2>4. Ahead(t) = 5 * (n - s) + Rank[pc[t]] /\ Ahead(t)' = 5 * (n - s) + Rank[pc'[t]]
    BY <2>1 DEF Ahead
  <2>5. n \in Nat /\ s \in Nat
    BY <1>1
  <2> HIDE DEF n, s
  <2> QED BY <1>3, <2>3, <2>4, <2>5
<1> QED
  BY <1>4, <1>5, <1>6 DEF PipelineStep

\* The safety half of Terminates, for any plans and budgets: each step of a walk ends it or
\* leaves less of it ahead, which is a natural number, and nothing that the other threads and
\* the other callers of the coordinator do puts it back.
THEOREM WalksDescend ==
  PipelineSpec =>
    [][\A t \in Thread : Walking(t) =>
         /\ Ahead(t) \in Nat
         /\ PipelineStep(t) => ~ Walking(t)' \/ Ahead(t)' < Ahead(t)
         /\ ~ PipelineStep(t) => Walking(t)' /\ Ahead(t)' = Ahead(t)]_pipelineVars
<1>1. PipelineInv /\ [PipelineNext]_pipelineVars =>
        [\A t \in Thread : Walking(t) =>
           /\ Ahead(t) \in Nat
           /\ PipelineStep(t) => ~ Walking(t)' \/ Ahead(t)' < Ahead(t)
           /\ ~ PipelineStep(t) => Walking(t)' /\ Ahead(t)' = Ahead(t)]_pipelineVars
  <2> SUFFICES ASSUME PipelineInv, PipelineNext, NEW t \in Thread, Walking(t)
               PROVE  /\ Ahead(t) \in Nat
                      /\ PipelineStep(t) => ~ Walking(t)' \/ Ahead(t)' < Ahead(t)
                      /\ ~ PipelineStep(t) => Walking(t)' /\ Ahead(t)' = Ahead(t)
    OBVIOUS
  <2>1. RunInv /\ TypeInv /\ WalkOf(t)
    BY DEF PipelineInv, WalkInv
  <2>2. Ahead(t) \in Nat
    BY <2>1, AheadIsNat
  <2>3. PipelineStep(t) => ~ Walking(t)' \/ Ahead(t)' < Ahead(t)
    BY <2>1, StepDescends
  <2>4. ASSUME ~ PipelineStep(t)
        PROVE  run'[t] = run[t] /\ pc'[t] = pc[t]
    <3>1. CASE Environment
      BY <3>1 DEF Environment, JoinWithShare, JoinNode, RevokeToken, RevokeMarkDown,
         JobComplete, threadVars
    <3>2. ASSUME NEW u \in Thread, PipelineStep(u)
          PROVE  run'[t] = run[t] /\ pc'[t] = pc[t]
      <4>1. OthersKept(u) /\ t # u
        BY <2>1, <2>4, <3>2, StepKeepsOthers
      <4> QED BY <4>1 DEF OthersKept
    <3>3. ASSUME NEW u \in Thread, NEW budget \in 1 .. MaxSteps, NEW passes \in BOOLEAN,
                 Start(u, budget, passes)
          PROVE  run'[t] = run[t] /\ pc'[t] = pc[t]
      BY <2>1, <3>3 DEF Start, Walking, RunInv, vars, threadVars
    <3> QED BY <3>1, <3>2, <3>3 DEF PipelineNext
  <2> QED
    BY <2>2, <2>3, <2>4 DEF Walking, Ahead
<1> QED
  BY <1>1, WalkInit, WalkStep, PTL DEF PipelineSpec
=============================================================================
