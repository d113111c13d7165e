---------------------------- MODULE ArrivalOrder ----------------------------
(***************************************************************************)
(* The parts of the repository that promise a result which does not depend *)
(* on the order in which their inputs arrive: the corroboration ledger,    *)
(* the convergence lab and the snapshot merge.  They share no state, so a  *)
(* behaviour follows one of them.                                          *)
(***************************************************************************)
EXTENDS CorroborationLedger, ConvergenceLab, SnapshotMerge

VARIABLE part  \* the part that this behaviour is of

vars == <<part, ledgerVars, labVars, mergeVars>>

TypeOK == LedgerTypeOK /\ LabTypeOK /\ MergeTypeOK

Init ==
  /\ part \in {"ledger", "lab", "merge"}
  /\ LedgerInit /\ LabInit /\ MergeInit
  /\ part # "lab" => replicas = CHOOSE n \in Replicas : TRUE
  /\ part # "merge" => ~ tombstones

Next ==
  \/ part = "ledger" /\ LedgerNext /\ UNCHANGED <<part, labVars, mergeVars>>
  \/ part = "lab" /\ LabNext /\ UNCHANGED <<part, ledgerVars, mergeVars>>
  \/ part = "merge" /\ MergeNext /\ UNCHANGED <<part, ledgerVars, labVars>>

Spec == Init /\ [][Next]_vars
=============================================================================
