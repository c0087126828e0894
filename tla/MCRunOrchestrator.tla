-------------------------- MODULE MCRunOrchestrator --------------------------
(***************************************************************************)
(* RunOrchestrator for TLC: the ledger it implements, and what the         *)
(* repository's documents say of it that the code does not keep.           *)
(***************************************************************************)
EXTENDS RunOrchestrator

LengthOf(list) == [s \in Slot |-> Len(list.got[s])]

Ledger == INSTANCE RunLedger WITH
  exists  <- file # NoFile,
  counted <- file.next,
  held    <- LengthOf(file.results),
  closed  <- file.status = "completed"

(* The checkpoint implements the ledger of RunLedger when batches are full *)
(* and writes succeed: one result per prompt, batch after batch, closed    *)
(* only when all are there.                                                *)
LedgerKept == Ledger!Spec

-----------------------------------------------------------------------------
(* README: "Resume interrupted runs from the exact batch where they        *)
(* stopped".  A batch that stop_run interrupted is not counted as done:    *)
(* cancel() flags the workers long before the task is cancelled, so the    *)
(* batch may end, all failed, and be checkpointed first.                   *)
InterruptedBatchIsResumed ==
  \A s \in Slot : s.batch < file.next =>
    \A i \in 1..Len(file.results.got[s]) :
      file.results.got[s][i] # "cancelled"

(* README, the same line: a resumed run does not run again a batch whose   *)
(* results the checkpoint already holds.                                   *)
RecordedBatchIsSkipped ==
  file.status = "in_progress" =>
    \A s \in Slot : s.batch >= file.next => file.results.got[s] = <<>>

(* _attempt_recovery: "a single orchestrator-level retry for a failed      *)
(* worker".  No pipeline starts with it in a window that is READY.         *)
RecoveryIsForFailedWorkers ==
  [][\A w \in Workers :
       pipe[w] = "start" /\ pipe'[w] = "recover" => wstate[w] # "READY"]_vars

=============================================================================
