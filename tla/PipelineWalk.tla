---------------------------- MODULE PipelineWalk ----------------------------
(***************************************************************************)
(* run_pipeline of src/sovereign/szl_mesh_coordinator.py: a plan of the UP *)
(* tiles is drawn once, then one governed dispatch is made per stage, under *)
(* a step budget.  The dispatches are those of MeshCoordinator, in which   *)
(* other runs, joins, revocations and completions interleave.              *)
(***************************************************************************)
EXTENDS MeshCoordinator, LayerPlan

CONSTANTS
  Vram,      \* the sizes a node may join with
  MaxSteps   \* the budgets a caller may set: 1 .. MaxSteps

\* The request id of stage k of the one base request is k.
ASSUME PipelineAssumption == Vram \subseteq Nat /\ MaxSteps \in Nat /\ Request = 1 .. MaxSteps

VARIABLES
  shares,   \* the layer shares of the tiles
  run       \* each thread's call of run_pipeline: its locals, then what it returned

pipelineVars == <<vars, shares, run>>

\* A call that has not been made.
NoRun == [exit |-> "none", stages |-> <<>>, covered |-> FALSE, budget |-> 0,
          passes |-> TRUE, step |-> 0, picked |-> <<>>]

PipelineInit ==
  /\ Init
  /\ shares = [n \in {} |-> 0]
  /\ run = [t \in Thread |-> NoRun]

\* join_node, with the layer share it gives.
JoinWithShare(n, vram) ==
  /\ JoinNode(n)
  /\ shares' = [m \in DOMAIN shares \cup {n} |->
                  IF m = n THEN AssignLayers(shares, vram) ELSE shares[m]]
  /\ UNCHANGED run

\* What the other callers of the coordinator do.  Bounds: the clock stands still, so
\* heartbeats, the tokens nodes issue themselves and evictions are left to MeshCoordinator;
\* a node is revoked once, and joins again only while its tile is DOWN.
Environment ==
  \/ \E n \in Node, vram \in Vram : tile[n].status # "UP" /\ JoinWithShare(n, vram)
  \/ /\ \E n \in Node :
          \/ n \notin revoked /\ RevokeToken(n)
          \/ RevokeMarkDown(n)
          \/ JobComplete(n)
     /\ UNCHANGED <<shares, run>>

----------------------------------------------------------------------------
(* The walk of thread t.                                                   *)

Walking(t) == run[t].exit = "running"
BetweenStages(t) == Walking(t) /\ pc[t] = "idle"
MoreStages(t) == run[t].step < Len(run[t].stages)

\* A call with the given budget; passes is the Lambda gate's verdict, the same for all
\* stages, as the request differs in its id alone.
Start(t, budget, passes) ==
  /\ run[t].exit = "none"       \* bound: one call per thread
  /\ LET plan == PipelinePlan(shares, UpNodes)
     IN  run' = [run EXCEPT ![t] =
                   [exit |-> "running", stages |-> plan.stages, covered |-> plan.covered,
                    budget |-> budget, passes |-> passes, step |-> 0, picked |-> <<>>]]
  /\ UNCHANGED <<vars, shares>>

\* The budget is spent before the plan is.
StopAtBudget(t) ==
  /\ BetweenStages(t)
  /\ MoreStages(t)
  /\ run[t].step >= run[t].budget
  /\ run' = [run EXCEPT ![t].exit = "budget_exhausted"]
  /\ UNCHANGED <<vars, shares>>

\* The next stage's dispatch is let through.
StageAdmitted(t) ==
  /\ BetweenStages(t)
  /\ MoreStages(t)
  /\ run[t].step < run[t].budget
  /\ run[t].passes
  /\ DispatchAdmit(t, run[t].step + 1)
  /\ run' = [run EXCEPT ![t].step = @ + 1]
  /\ UNCHANGED shares

\* Faulty variant: a refused stage is tried again.
StageRetried(t) ==
  /\ BetweenStages(t)
  /\ MoreStages(t)
  /\ run[t].step < run[t].budget
  /\ DispatchRefuse(t, run[t].step + 1, run[t].passes)
  /\ UNCHANGED <<run, shares>>

\* The relay or the gate refuses it: the walk degrades.
StageRefused(t) ==
  /\ BetweenStages(t)
  /\ MoreStages(t)
  /\ run[t].step < run[t].budget
  /\ DispatchRefuse(t, run[t].step + 1, run[t].passes)
  /\ run' = [run EXCEPT ![t].step = @ + 1, ![t].exit = "degraded"]
  /\ UNCHANGED shares

\* The stage's dispatch runs on; a node picked is one of the stage results.
StageDispatches(t) ==
  /\ Walking(t)
  /\ \/ /\ DispatchSelect(t) \/ DispatchCount(t) \/ DispatchReceipt(t)
        /\ UNCHANGED run
     \/ /\ DispatchCredit(t)
        /\ run' = [run EXCEPT ![t].picked = Append(@, sel[t])]
     \/ /\ DispatchDegrade(t)
        /\ run' = [run EXCEPT ![t].exit = "degraded"]
  /\ UNCHANGED shares

\* Faulty variant: every completed walk has converged.
FinishConverged(t) ==
  /\ BetweenStages(t)
  /\ ~ MoreStages(t)
  /\ run' = [run EXCEPT ![t].exit = "converged"]
  /\ UNCHANGED <<vars, shares>>

\* All stages are dispatched.
Finish(t) ==
  /\ BetweenStages(t)
  /\ ~ MoreStages(t)
  /\ run' = [run EXCEPT ![t].exit =
               IF run[t].stages # <<>> /\ run[t].covered THEN "converged" ELSE "degraded"]
  /\ UNCHANGED <<vars, shares>>

PipelineStep(t) ==
  \/ StopAtBudget(t)
  \/ StageAdmitted(t) \/ StageRefused(t) \/ StageDispatches(t)
  \/ Finish(t)

PipelineNext ==
  \/ Environment
  \/ \E t \in Thread : PipelineStep(t)
  \/ \E t \in Thread, budget \in 1 .. MaxSteps, passes \in BOOLEAN :
       Start(t, budget, passes)

\* A thread in run_pipeline goes on: no step of it waits for another thread, the locks
\* being held for one action only.
PipelineSpec ==
  /\ PipelineInit /\ [][PipelineNext]_pipelineVars
  /\ \A t \in Thread : WF_pipelineVars(PipelineStep(t))

----------------------------------------------------------------------------
(* Properties.                                                             *)

ReceiptsOf(stage) == {i \in DOMAIN ledger : ledger[i].job_id = stage}

\* Receipt-closed, and never faked: a run that reports "converged" had a plan whose stages
\* covered every layer, kept to its budget, and has one receipt in the ledger per stage.
ConvergedIsClosed ==
  \A t \in Thread : run[t].exit = "converged" =>
    /\ run[t].covered /\ run[t].stages # <<>>
    /\ Len(run[t].picked) = Len(run[t].stages)
    /\ Len(run[t].stages) <= run[t].budget
    /\ \A k \in DOMAIN run[t].stages : Cardinality(ReceiptsOf(k)) = 1

\* Of the runs of one base request, concurrent or repeated, one at most converges: the
\* relay lets each stage through once.
ConvergesOnce ==
  \A t, u \in Thread :
    run[t].exit = "converged" /\ run[u].exit = "converged" => t = u

\* A run always ends, however the tiles it planned with come and go.
Terminates == \A t \in Thread : Walking(t) ~> ~ Walking(t)

\* run_pipeline's docstring: "converged" means "every pipeline stage dispatched and the
\* layer span is fully covered".  Violated: a stage goes to the least loaded node, not to
\* the planned one, so while the planned nodes hold all the layers, those that got the
\* stages need not.
ConvergedCoversSpan ==
  [][\A t \in Thread :
       run[t].exit = "running" /\ run'[t].exit = "converged" =>
         LET Planned == {run[t].stages[i] : i \in DOMAIN run[t].stages}
             Picked == {run[t].picked[i] : i \in DOMAIN run[t].picked}
         IN  Covers(shares, Planned) => Covers(shares, Picked)]_pipelineVars
=============================================================================
