--------------------------- MODULE RunOrchestrator ---------------------------
(***************************************************************************)
(* One run of the automation in simultaneous mode                          *)
(* (src/src/orchestrator/run_orchestrator.py): the batch loop of           *)
(* execute_run, the worker pipelines it gathers, the handlers that pause,  *)
(* resume and stop it while it is suspended at an await, and the           *)
(* checkpoint file (src/src/checkpoint/manager.py) that outlives a crash   *)
(* of the process.                                                         *)
(*                                                                         *)
(* asyncio switches tasks only at an await, so a step of this module is    *)
(* what one task does between two awaits that matter.  A result is kept as *)
(* the slot it fills (batch, worker, turn) and the kind of its ending; the *)
(* texts of prompts and answers are left out.                              *)
(***************************************************************************)
EXTENDS Integers, Sequences

CONSTANTS
  Count,          \* request.window_count: windows, and prompts of a full batch
  Total,          \* number of batches
  LastWidth,      \* prompts of the last batch
  Turns,          \* turns of the conversation (1: a plain prompt)
  SessionLength,  \* request.prompts_per_session
  RetryLimit,     \* CHALLENGE_RETRY_LIMIT of the orchestrator's recovery
  SaveMayFail,    \* whether writing a checkpoint may raise
  MaxStarts       \* bound on the executions of the run (first start + resumes)

(* A conversation is one prompt, replicated over the windows.              *)
ASSUME RunAssumption ==
  /\ Count \in Nat \ {0}
  /\ Total \in Nat \ {0}
  /\ LastWidth \in 1..Count
  /\ Turns \in Nat \ {0}
  /\ Turns > 1 => Total = 1 /\ LastWidth = Count
  /\ SessionLength \in Nat \ {0}
  /\ RetryLimit \in Nat \ {0}
  /\ SaveMayFail \in BOOLEAN
  /\ MaxStarts \in Nat

Workers == 0..(Count - 1)
Batches == 0..(Total - 1)

(* batches[b] holds the prompts b*Count .. of all_prompts.                 *)
Width(b) == IF b = Total - 1 THEN LastWidth ELSE Count
Used(b)  == {w \in Workers : w < Width(b)}

Slot == {s \in [batch : Batches, worker : Workers, turn : 0..(Turns - 1)] :
           s.worker < Width(s.batch)}

Kind == {"answered", "failed", "cancelled"}

(* A list of window results: what each slot has received, in order, and    *)
(* the length of the list.                                                 *)
ResultList == [got : [Slot -> Seq(Kind)], len : Nat]
NoResults  == [got |-> [s \in Slot |-> <<>>], len |-> 0]

(* How a pipeline ended: the first `answered` turns have an answer, every  *)
(* later one carries the failure `why`.                                    *)
Ending == [answered : 0..Turns, why : Kind]
NoEnding == [answered |-> 0, why |-> "failed"]

KindOf(ending, turn) ==
  IF turn < ending.answered THEN "answered" ELSE ending.why

(* Mutant: the placeholders of the later turns are not recorded.           *)
MutExtendFirstTurn(list, b, endings) ==
  [got |-> [s \in Slot |->
              IF s.batch = b /\ s.turn = 0
                THEN Append(list.got[s], KindOf(endings[s.worker], s.turn))
                ELSE list.got[s]],
   len |-> list.len + Width(b)]

(* all_window_results.extend(batch_results)                                *)
Extend(list, b, endings) ==
  [got |-> [s \in Slot |->
              IF s.batch = b
                THEN Append(list.got[s], KindOf(endings[s.worker], s.turn))
                ELSE list.got[s]],
   len |-> list.len + Width(b) * Turns]

NoBatch == -1
NoFile  == [status |-> "none", next |-> 0, results |-> NoResults]

(* The worker states of models/worker.py, as far as the orchestrator tells *)
(* them apart: NAVIGATING stands for LAUNCHING, NAVIGATING and             *)
(* WAITING_FOR_CHALLENGE, BUSY for SELECTING_MODEL up to POLLING.          *)
WorkerState ==
  {"IDLE", "NAVIGATING", "READY", "BUSY", "COMPLETE", "ERROR", "CANCELLED"}
Terminal == {"COMPLETE", "ERROR", "CANCELLED"}

VARIABLES
  file,       \* the checkpoint file of this run
  starts,     \* executions so far
  phase,      \* the await execute_run is suspended at
  batch,      \* batch_idx: the batch to run or running
  current,    \* _current_batch_index
  results,    \* all_window_results (partial_results once the run is cancelled)
  completed,  \* _completed_results
  cancelled,  \* _cancelled
  paused,     \* _paused (and a cleared _resume_event)
  stop,       \* where a stop_run message is: cancel() then task.cancel()
  flagged,    \* workers cancel() has flagged so far
  lock,       \* the browser manager's layout lock: "run" and "stop" in the
              \* order they asked for it, the first one holds it
  wstate,     \* state machine of each worker
  wcancel,    \* _cancelled flag of each worker
  nav,        \* navigation task of each worker
  pipe,       \* pipeline task of each worker
  tries,      \* recovery attempts of each worker in this batch
  ending      \* how each worker's pipeline ended

control  == <<phase, batch, current, results, completed>>
signals  == <<cancelled, paused, stop, flagged>>
handlers == <<signals, lock>>
windows  == <<wstate, wcancel, nav, pipe, tries, ending>>
vars     == <<file, starts, control, handlers, windows>>

Running == phase \notin {"none", "ended"}

-----------------------------------------------------------------------------
(***************************************************************************)
(* Opening and closing windows takes the layout lock (asyncio.Lock: first  *)
(* come, first served).  The calls of other runs and recreate_context take *)
(* it too and leave it: here they only delay whoever waits (module         *)
(* BrowserManager has them).                                               *)
(***************************************************************************)
Ask(t)   == lock' = Append(lock, t)
Holds(t) == lock # <<>> /\ Head(lock) = t
Release  == lock' = Tail(lock)
Queue    == Seq({"run", "stop"})

-----------------------------------------------------------------------------
(***************************************************************************)
(* Checkpoint file: a write replaces it whole or, when it raises, leaves   *)
(* it as it was and the run goes on.                                       *)
(***************************************************************************)
Save(next, list) ==
  \/ file' = [status |-> "in_progress", next |-> next, results |-> list]
  \/ SaveMayFail /\ UNCHANGED file

(* mark_completed rewrites the file it finds.                              *)
MarkCompleted ==
  \/ file' = IF file = NoFile THEN NoFile ELSE [file EXCEPT !.status = "completed"]
  \/ SaveMayFail /\ UNCHANGED file

(* DELETE /api/checkpoints/{id}                                            *)
DeleteCheckpoint ==
  /\ file # NoFile
  /\ file' = NoFile
  /\ UNCHANGED <<starts, control, handlers, windows>>

-----------------------------------------------------------------------------
(***************************************************************************)
(* Start, resume and crash.                                                *)
(***************************************************************************)
IdleWindows ==
  /\ wstate'  = [w \in Workers |-> "IDLE"]
  /\ wcancel' = [w \in Workers |-> FALSE]
  /\ nav'     = [w \in Workers |-> "none"]
  /\ pipe'    = [w \in Workers |-> "off"]
  /\ tries'   = [w \in Workers |-> 0]
  /\ ending'  = [w \in Workers |-> NoEnding]

NewOrchestrator ==
  /\ cancelled' = FALSE
  /\ paused'    = FALSE
  /\ stop'      = "idle"
  /\ flagged'   = 0
  /\ current'   = NoBatch
  /\ IdleWindows

(* execute_run up to create_contexts, from batch `b` with the results      *)
(* `list` restored.                                                        *)
Execute(b, list) ==
  /\ phase \in {"none", "ended"}
  /\ stop = "idle"
  /\ starts < MaxStarts
  /\ starts'    = starts + 1
  /\ phase'     = "launching"
  /\ batch'     = b
  /\ results'   = list
  /\ completed' = list
  /\ NewOrchestrator
  /\ Ask("run")
  /\ UNCHANGED file

StartRun == file = NoFile /\ Execute(0, NoResults)

(* Mutant: a resumed run starts with an empty list of results.             *)
MutResumeForgets == file # NoFile /\ Execute(file.next, NoResults)

ResumeFromCheckpoint == file # NoFile /\ Execute(file.next, file.results)

(* execute_run returns or raises: its local variables and tasks are gone,  *)
(* the orchestrator object stays.  Navigations that nobody awaits any more *)
(* are dropped with them.                                                  *)
Leave ==
  /\ phase'   = "ended"
  /\ batch'   = 0
  /\ results' = NoResults
  /\ nav'     = [w \in Workers |-> "none"]
  /\ pipe'    = [w \in Workers |-> "off"]
  /\ tries'   = [w \in Workers |-> 0]
  /\ ending'  = [w \in Workers |-> NoEnding]

(* The server process dies: the file is all that is left.                  *)
Crash ==
  /\ phase # "none"
  /\ phase'     = "none"
  /\ batch'     = 0
  /\ results'   = NoResults
  /\ completed' = NoResults
  /\ NewOrchestrator
  /\ lock' = <<>>
  /\ UNCHANGED <<file, starts>>

(* navigate_to_arena in a task per worker, up to its transition to         *)
(* LAUNCHING: legal from IDLE only, elsewhere it raises and ends the task. *)
Navigate(states) ==
  /\ nav' = [w \in Workers |->
               IF states[w] = "IDLE" THEN "running" ELSE "failed"]
  /\ wstate' = [w \in Workers |->
                  IF states[w] = "IDLE" THEN "NAVIGATING" ELSE states[w]]

(* create_contexts returns; the workers are created and navigate.          *)
OpenWindows ==
  /\ phase = "launching"
  /\ Holds("run")
  /\ Release
  /\ phase' = "launched"
  /\ Navigate([w \in Workers |-> "IDLE"])
  /\ UNCHANGED <<file, starts, batch, current, results, completed, signals,
                 wcancel, pipe, tries, ending>>

(* Mutant: the lock is not released when a window cannot be opened.        *)
MutLaunchFails ==
  /\ phase = "launching"
  /\ Holds("run")
  /\ Leave
  /\ UNCHANGED <<file, starts, current, completed, handlers, wstate, wcancel>>

(* create_contexts raises.                                                 *)
LaunchFails ==
  /\ phase = "launching"
  /\ Holds("run")
  /\ Release
  /\ Leave
  /\ UNCHANGED <<file, starts, current, completed, signals, wstate, wcancel>>

(* A resumed run past batch 0 gathers the navigations first and drops the  *)
(* tasks; a first start hands them to batch 0.  A cancelled run leaves     *)
(* with an empty list of partial results.                                  *)
AfterLaunch ==
  /\ phase = "launched"
  /\ batch > 0 => \A w \in Workers : nav[w] # "running"
  /\ ~paused
  /\ IF cancelled
       THEN phase' = "finishing" /\ results' = NoResults /\ Ask("run")
       ELSE phase' = "between" /\ UNCHANGED <<results, lock>>
  /\ nav' = IF batch > 0 \/ cancelled THEN [w \in Workers |-> "none"] ELSE nav
  /\ UNCHANGED <<file, starts, batch, current, completed, signals,
                 wstate, wcancel, pipe, tries, ending>>

-----------------------------------------------------------------------------
(***************************************************************************)
(* Navigation tasks.                                                       *)
(***************************************************************************)
NavOk(w) ==
  /\ nav[w] = "running"
  /\ wstate[w] = "NAVIGATING"
  /\ nav'    = [nav EXCEPT ![w] = "ok"]
  /\ wstate' = [wstate EXCEPT ![w] = "READY"]
  /\ UNCHANGED <<file, starts, control, handlers, wcancel, pipe, tries, ending>>

(* goto retries exhausted force ERROR; an unresolved challenge leaves the  *)
(* worker NAVIGATING; a CANCELLED worker refuses the next transition.      *)
NavFail(w) ==
  /\ nav[w] = "running"
  /\ nav' = [nav EXCEPT ![w] = "failed"]
  /\ \/ UNCHANGED wstate
     \/ wstate[w] = "NAVIGATING" /\ wstate' = [wstate EXCEPT ![w] = "ERROR"]
  /\ UNCHANGED <<file, starts, control, handlers, wcancel, pipe, tries, ending>>

(* _ensure_active raises asyncio.CancelledError in a flagged worker.       *)
NavCancelled(w) ==
  /\ nav[w] = "running"
  /\ wcancel[w]
  /\ nav' = [nav EXCEPT ![w] = "cancelled"]
  /\ UNCHANGED <<file, starts, control, handlers, wstate, wcancel, pipe, tries,
                 ending>>

-----------------------------------------------------------------------------
(***************************************************************************)
(* Worker pipelines (_run_simultaneous_worker_batch, _attempt_recovery).   *)
(***************************************************************************)
InBatch(w, at) == phase = "in_batch" /\ pipe[w] = at

Goto(w, at) == pipe' = [pipe EXCEPT ![w] = at]
State(w, s) == wstate' = [wstate EXCEPT ![w] = s]

Settle(w, answered, why) ==
  /\ Goto(w, "done")
  /\ ending' = [ending EXCEPT ![w] = [answered |-> answered, why |-> why]]

(* force_error, which a terminal state refuses.                            *)
ForcedError(s) == IF s \in Terminal THEN s ELSE "ERROR"

PipeUnchanged == UNCHANGED <<file, starts, control, handlers, nav>>

(* Mutant: the pipeline waits for a navigation that succeeds.              *)
MutPipeStartWaits(w) ==
  /\ InBatch(w, "start")
  /\ ~paused
  /\ nav[w] \in {"none", "ok"}
  /\ Goto(w, "prompt")
  /\ State(w, "BUSY")
  /\ UNCHANGED <<wcancel, tries, ending>>
  /\ PipeUnchanged

(* _wait_if_paused, then _await_worker_ready: the navigation must have     *)
(* succeeded and the worker must be READY, or the pipeline recovers.       *)
PipeStart(w) ==
  /\ InBatch(w, "start")
  /\ ~paused
  /\ nav[w] \in {"none", "ok", "failed"}
  /\ IF nav[w] # "failed" /\ wstate[w] = "READY"
       THEN Goto(w, "prompt") /\ State(w, "BUSY")
       ELSE Goto(w, "recover") /\ UNCHANGED wstate
  /\ UNCHANGED <<wcancel, tries, ending>>
  /\ PipeUnchanged

(* The navigation task was cancelled: CancelledError is not an Exception,  *)
(* so it ends the pipeline without recovery.                               *)
PipeStartCancelled(w) ==
  /\ InBatch(w, "start")
  /\ ~paused
  /\ nav[w] = "cancelled"
  /\ Settle(w, 0, "cancelled")
  /\ UNCHANGED <<wstate, wcancel, tries>>
  /\ PipeUnchanged

(* System prompt (if any) and first prompt prepared, submitted and polled. *)
FirstAnswered(w, at) ==
  /\ InBatch(w, at)
  /\ ~wcancel[w]
  /\ IF Turns = 1
       THEN Settle(w, 1, "answered") /\ State(w, "COMPLETE")
       ELSE /\ Goto(w, "turns")
            /\ State(w, "BUSY")
            /\ ending' = [ending EXCEPT ![w].answered = 1]
  /\ UNCHANGED <<wcancel, tries>>
  /\ PipeUnchanged

PromptOk(w) == FirstAnswered(w, "prompt")

(* Any Exception of the pipeline, or an unsuccessful result.               *)
PromptFail(w) ==
  /\ InBatch(w, "prompt")
  /\ Goto(w, "recover")
  /\ wstate' \in {wstate, [wstate EXCEPT ![w] = ForcedError(@)]}
  /\ UNCHANGED <<wcancel, tries, ending>>
  /\ PipeUnchanged

(* CancelledError in a flagged worker: gather returns it as the outcome,   *)
(* and every turn counts as failed.                                        *)
PipeCancelled(w) ==
  /\ \E at \in {"prompt", "reopen", "replay", "turns"} : InBatch(w, at)
  /\ wcancel[w]
  /\ Settle(w, 0, "cancelled")
  /\ UNCHANGED <<wstate, wcancel, tries>>
  /\ PipeUnchanged

(* A worker that restarts its prompt in a fresh window by itself also runs *)
(* reset_with_fresh_context, which clears a flag set a moment before.      *)
RestartInWindow(w) ==
  /\ \E at \in {"prompt", "replay", "turns"} : InBatch(w, at)
  /\ wcancel[w]
  /\ wcancel' = [wcancel EXCEPT ![w] = FALSE]
  /\ State(w, "BUSY")
  /\ UNCHANGED <<pipe, tries, ending>>
  /\ PipeUnchanged

RecoverSkip(w) ==
  /\ InBatch(w, "recover")
  /\ cancelled
  /\ Settle(w, 0, "cancelled")
  /\ State(w, ForcedError(wstate[w]))
  /\ UNCHANGED <<wcancel, tries>>
  /\ PipeUnchanged

RecoverBegin(w) ==
  /\ InBatch(w, "recover")
  /\ ~paused
  /\ ~cancelled
  /\ Goto(w, "reset")
  /\ UNCHANGED <<wstate, wcancel, tries, ending>>
  /\ PipeUnchanged

(* reset_with_fresh_context: the cancellation flag is cleared, also one    *)
(* set since RecoverBegin, and the state machine goes through IDLE to the  *)
(* navigation of a new window.                                             *)
ResetWorker(w) ==
  /\ InBatch(w, "reset")
  /\ Goto(w, "reopen")
  /\ State(w, "NAVIGATING")
  /\ wcancel' = [wcancel EXCEPT ![w] = FALSE]
  /\ UNCHANGED <<tries, ending>>
  /\ PipeUnchanged

ReopenOk(w) ==
  /\ InBatch(w, "reopen")
  /\ wstate[w] = "NAVIGATING"
  /\ Goto(w, "replay")
  /\ State(w, "BUSY")
  /\ UNCHANGED <<wcancel, tries, ending>>
  /\ PipeUnchanged

(* The window could not be recreated, or its navigation failed.            *)
ReopenFail(w) ==
  /\ InBatch(w, "reopen")
  /\ tries' = [tries EXCEPT ![w] = @ + 1]
  /\ IF tries[w] + 1 < RetryLimit
       THEN /\ Goto(w, "recover")
            /\ wstate' \in {wstate, [wstate EXCEPT ![w] = ForcedError(@)]}
            /\ UNCHANGED ending
       ELSE /\ Settle(w, 0, "failed")
            /\ State(w, ForcedError(wstate[w]))
  /\ UNCHANGED wcancel
  /\ PipeUnchanged

ReplayOk(w) == FirstAnswered(w, "replay")

ReplayFail(w) ==
  /\ InBatch(w, "replay")
  /\ Settle(w, 0, "failed")
  /\ State(w, ForcedError(wstate[w]))
  /\ UNCHANGED <<wcancel, tries>>
  /\ PipeUnchanged

TurnOk(w) ==
  /\ InBatch(w, "turns")
  /\ ~wcancel[w]
  /\ LET n == ending[w].answered + 1 IN
       IF n = Turns
         THEN Settle(w, n, "answered") /\ State(w, "COMPLETE")
         ELSE /\ ending' = [ending EXCEPT ![w].answered = n]
              /\ UNCHANGED <<pipe, wstate>>
  /\ UNCHANGED <<wcancel, tries>>
  /\ PipeUnchanged

(* A failed turn is not recovered: it and the later ones fail.             *)
TurnFail(w) ==
  /\ InBatch(w, "turns")
  /\ Settle(w, ending[w].answered, "failed")
  /\ State(w, ForcedError(wstate[w]))
  /\ UNCHANGED <<wcancel, tries>>
  /\ PipeUnchanged

-----------------------------------------------------------------------------
(***************************************************************************)
(* The batch loop of execute_run.                                          *)
(***************************************************************************)
EnterBatch ==
  /\ phase = "between"
  /\ batch < Total
  /\ phase'   = "batch_top"
  /\ current' = batch
  /\ UNCHANGED <<file, starts, batch, results, completed, handlers, windows>>

(* A new session resets every terminal worker and navigates all of them; a *)
(* later batch of a session readies the COMPLETE ones and only resets the  *)
(* other terminal ones.                                                    *)
ReadyForBatch(s) ==
  IF batch % SessionLength # 0 /\ s = "COMPLETE" THEN "READY"
  ELSE IF s \in Terminal THEN "IDLE"
  ELSE s

PrepareBatch ==
  /\ phase = "batch_top"
  /\ ~paused
  /\ ~cancelled
  /\ phase' = "batch_ready"
  /\ LET states == [w \in Workers |-> ReadyForBatch(wstate[w])] IN
       IF batch = 0 THEN UNCHANGED <<wstate, nav>>
       ELSE IF batch % SessionLength = 0 THEN Navigate(states)
       ELSE wstate' = states /\ UNCHANGED nav
  /\ UNCHANGED <<file, starts, batch, current, results, completed, handlers,
                 wcancel, pipe, tries, ending>>

SpawnPipelines ==
  /\ phase = "batch_ready"
  /\ ~cancelled
  /\ phase'  = "in_batch"
  /\ pipe'   = [w \in Workers |-> IF w \in Used(batch) THEN "start" ELSE "off"]
  /\ tries'  = [w \in Workers |-> 0]
  /\ ending' = [w \in Workers |-> NoEnding]
  /\ UNCHANGED <<file, starts, batch, current, results, completed, handlers,
                 wstate, wcancel, nav>>

(* Mutants: the batch itself, or the one after the next, is saved.         *)
MutNextBatchIndexStale(b) == b
MutNextBatchIndexSkips(b) == b + 2

(* next_batch_index that _save_checkpoint writes after batch b.            *)
NextBatchIndex(b) == b + 1

(* The pipelines are gathered, the navigations of unused windows are       *)
(* cancelled, the batch is recorded and the checkpoint saved.              *)
BatchComplete ==
  /\ phase = "in_batch"
  /\ \A w \in Used(batch) : pipe[w] = "done"
  /\ LET all == Extend(results, batch, ending) IN
       /\ results'   = all
       /\ completed' = all
       /\ Save(NextBatchIndex(batch), all)
  /\ phase'   = "between"
  /\ batch'   = batch + 1
  /\ current' = NoBatch
  /\ wstate'  = [w \in Workers |->
                   IF w \in Used(batch) THEN ForcedError(wstate[w]) ELSE wstate[w]]
  /\ nav'     = [w \in Workers |-> "none"]
  /\ pipe'    = [w \in Workers |-> "off"]
  /\ tries'   = [w \in Workers |-> 0]
  /\ ending'  = [w \in Workers |-> NoEnding]
  /\ UNCHANGED <<starts, handlers, wcancel>>

(* The cancelled run leaves the loop, or falls out of it.                  *)
BreakCancelled ==
  /\ \/ phase \in {"batch_top", "batch_ready"}
     \/ phase = "between" /\ batch >= Total
  /\ cancelled
  /\ phase' = "finishing"
  /\ Ask("run")
  /\ nav'   = [w \in Workers |-> "none"]
  /\ UNCHANGED <<file, starts, batch, current, results, completed, signals,
                 wstate, wcancel, pipe, tries, ending>>

(* Mutant: the batch count is passed on as the index of the last batch.    *)
MutFinishCancelledOneMore ==
  /\ phase = "finishing"
  /\ Holds("run")
  /\ Release
  /\ Leave
  /\ completed' = results
  /\ current'   = NoBatch
  /\ LET done == results.len \div Count IN
       IF done > 0 /\ done < Total THEN Save(done + 1, results)
       ELSE UNCHANGED file
  /\ UNCHANGED <<starts, signals, wstate, wcancel>>

(* _finish_cancelled, after it closed the windows.                         *)
FinishCancelled ==
  /\ phase = "finishing"
  /\ Holds("run")
  /\ Release
  /\ Leave
  /\ completed' = results
  /\ current'   = NoBatch
  /\ LET done == results.len \div Count IN
       IF done > 0 /\ done < Total THEN Save(done, results) ELSE UNCHANGED file
  /\ UNCHANGED <<starts, signals, wstate, wcancel>>

(* All batches are done: the checkpoint is marked completed, the windows   *)
(* are closed and execute_run returns.                                     *)
CompleteRun ==
  /\ phase = "between"
  /\ batch >= Total
  /\ ~cancelled
  /\ phase'     = "closing"
  /\ completed' = results
  /\ current'   = NoBatch
  /\ Ask("run")
  /\ MarkCompleted
  /\ UNCHANGED <<starts, batch, results, signals, windows>>

CloseWindows ==
  /\ phase = "closing"
  /\ Holds("run")
  /\ Release
  /\ Leave
  /\ UNCHANGED <<file, starts, current, completed, signals, wstate, wcancel>>

-----------------------------------------------------------------------------
(***************************************************************************)
(* Handlers of the UI's messages.  The orchestrator object outlives its    *)
(* run, so they also reach a run that has ended.                           *)
(***************************************************************************)
(* Mutants: the index is saved whether or not there is one; the running    *)
(* batch counts as done.                                                   *)
MutPauseNextUnchecked == current
MutPauseNextAfter ==
  IF current # NoBatch THEN current + 1 ELSE completed.len \div Count

(* next_batch_index of the checkpoint that pause() saves.                  *)
PauseNext ==
  IF current # NoBatch THEN current ELSE completed.len \div Count

Pause ==
  /\ phase # "none"
  /\ ~cancelled
  /\ ~paused
  /\ paused' = TRUE
  /\ Save(PauseNext, completed)
  /\ UNCHANGED <<starts, control, cancelled, stop, flagged, lock, windows>>

Resume ==
  /\ phase # "none"
  /\ ~cancelled
  /\ paused
  /\ paused' = FALSE
  /\ UNCHANGED <<file, starts, control, cancelled, stop, flagged, lock,
                 windows>>

(* _handle_stop_run awaits cancel(), which sets the flag, flags the        *)
(* workers there are, one by one, ...                                      *)
StopRun ==
  /\ phase # "none"
  /\ stop = "idle"
  /\ cancelled' = TRUE
  /\ paused'    = FALSE
  /\ flagged'   = 0
  /\ IF phase = "launching" THEN stop' = "closing" /\ Ask("stop")
     ELSE stop' = "flagging" /\ UNCHANGED lock
  /\ UNCHANGED <<file, starts, control, windows>>

(* worker.cancel(): IDLE and WAITING_FOR_CHALLENGE have an edge to         *)
(* CANCELLED, LAUNCHING and NAVIGATING none (the error is swallowed).      *)
CancelledStates(s) ==
  IF s \in Terminal THEN {s}
  ELSE IF s = "NAVIGATING" THEN {s, "CANCELLED"}
  ELSE {"CANCELLED"}

FlagWorker ==
  /\ stop = "flagging"
  /\ wcancel' = [wcancel EXCEPT ![flagged] = TRUE]
  /\ \E s \in CancelledStates(wstate[flagged]) : State(flagged, s)
  /\ IF flagged + 1 < Count
       THEN flagged' = flagged + 1 /\ UNCHANGED <<stop, lock>>
       ELSE flagged' = 0 /\ stop' = "closing" /\ Ask("stop")
  /\ UNCHANGED <<file, starts, control, cancelled, paused, nav, pipe, tries,
                 ending>>

(* ... closes the windows once the run's own call of the manager, if it    *)
(* came first, is through ...                                              *)
CloseForStop ==
  /\ stop = "closing"
  /\ Holds("stop")
  /\ Release
  /\ stop' = "killing"
  /\ UNCHANGED <<file, starts, control, cancelled, paused, flagged, windows>>

(* ... and then cancels the task if it is not done: CancelledError leaves  *)
(* execute_run at its await, wherever that is, also in the lock's queue.   *)
CancelTask ==
  /\ stop = "killing"
  /\ stop' = "idle"
  /\ lock' = <<>>
  /\ IF Running THEN Leave
     ELSE UNCHANGED <<phase, batch, results, nav, pipe, tries, ending>>
  /\ UNCHANGED <<file, starts, current, completed, cancelled, paused, flagged,
                 wstate, wcancel>>

-----------------------------------------------------------------------------
Init ==
  /\ file      = NoFile
  /\ starts    = 0
  /\ phase     = "none"
  /\ batch     = 0
  /\ current   = NoBatch
  /\ results   = NoResults
  /\ completed = NoResults
  /\ cancelled = FALSE
  /\ paused    = FALSE
  /\ stop      = "idle"
  /\ flagged   = 0
  /\ lock      = <<>>
  /\ wstate    = [w \in Workers |-> "IDLE"]
  /\ wcancel   = [w \in Workers |-> FALSE]
  /\ nav       = [w \in Workers |-> "none"]
  /\ pipe      = [w \in Workers |-> "off"]
  /\ tries     = [w \in Workers |-> 0]
  /\ ending    = [w \in Workers |-> NoEnding]

Navigation(w) == NavOk(w) \/ NavFail(w) \/ NavCancelled(w)

Pipeline(w) ==
  \/ PipeStart(w) \/ PipeStartCancelled(w) \/ PipeCancelled(w)
  \/ PromptOk(w) \/ PromptFail(w) \/ RestartInWindow(w)
  \/ RecoverSkip(w) \/ RecoverBegin(w) \/ ResetWorker(w)
  \/ ReopenOk(w) \/ ReopenFail(w) \/ ReplayOk(w) \/ ReplayFail(w)
  \/ TurnOk(w) \/ TurnFail(w)

RunTask ==
  \/ OpenWindows \/ LaunchFails \/ AfterLaunch
  \/ EnterBatch \/ PrepareBatch \/ SpawnPipelines \/ BatchComplete
  \/ BreakCancelled \/ FinishCancelled \/ CompleteRun
  \/ CloseWindows

StopTask == FlagWorker \/ CloseForStop \/ CancelTask

User == StartRun \/ ResumeFromCheckpoint \/ Pause \/ Resume \/ StopRun
        \/ DeleteCheckpoint

Next ==
  \/ User
  \/ RunTask
  \/ StopTask
  \/ \E w \in Workers : Navigation(w) \/ Pipeline(w)
  \/ Crash

(* The event loop runs every ready task, and every await of the workers    *)
(* has a timeout; users and crashes owe nothing.                           *)
Fairness ==
  /\ WF_vars(RunTask)
  /\ WF_vars(StopTask)
  /\ \A w \in Workers : WF_vars(Navigation(w)) /\ WF_vars(Pipeline(w))

Spec == Init /\ [][Next]_vars
FairSpec == Spec /\ Fairness

-----------------------------------------------------------------------------
(***************************************************************************)
(* Properties.                                                             *)
(***************************************************************************)
File == [status : {"none", "in_progress", "completed"}, next : Nat,
         results : ResultList]

(* Every variable keeps its type; in particular next_batch_index is a      *)
(* natural number whatever _current_batch_index was when it was saved.     *)
TypeOK ==
  /\ file \in File
  /\ starts \in Nat
  /\ phase \in {"none", "launching", "launched", "between", "batch_top",
                "batch_ready", "in_batch", "finishing", "closing", "ended"}
  /\ batch \in Nat
  /\ current \in Nat \cup {NoBatch}
  /\ results \in ResultList
  /\ completed \in ResultList
  /\ cancelled \in BOOLEAN
  /\ paused \in BOOLEAN
  /\ stop \in {"idle", "flagging", "closing", "killing"}
  /\ flagged \in Workers
  /\ lock \in Queue
  /\ wstate \in [Workers -> WorkerState]
  /\ wcancel \in [Workers -> BOOLEAN]
  /\ nav \in [Workers -> {"none", "running", "ok", "failed", "cancelled"}]
  /\ pipe \in [Workers -> {"off", "start", "prompt", "recover", "reset",
                           "reopen", "replay", "turns", "done"}]
  /\ tries \in [Workers -> 0..RetryLimit]
  /\ ending \in [Workers -> Ending]

Covers(list, b) == \A s \in Slot : s.batch < b => list.got[s] # <<>>

(* A resumed run skips the batches before next_batch_index: the file that  *)
(* tells it to skip them holds a result of every prompt and turn in them,  *)
(* whatever sequence of pauses, stops, crashes, failed writes, deletions   *)
(* and resumes wrote it (_save_checkpoint, _save_pause_checkpoint and      *)
(* _finish_cancelled compute the index in three different ways).           *)
NoPromptSkipped == file # NoFile => Covers(file.results, file.next)

(* The loop body runs on a batch there is.                                 *)
BatchInRange ==
  phase \in {"batch_top", "batch_ready", "in_batch"} => batch < Total

(* Why: a list that is worth resuming at batch b covers the batches before *)
(* b, and counting its results in batches of Count does not overshoot b.   *)
Resumable(list, b) ==
  /\ Covers(list, b)
  /\ b < Total => list.len \div Count <= b

(* Everything an index is ever computed from is resumable at that index:   *)
(* the results of the loop at `batch`, those a pause would save at         *)
(* PauseNext, those a cancelled run counts by their length, and the file   *)
(* at its own index.                                                       *)
AllResumable ==
  /\ BatchInRange
  /\ Running /\ phase # "finishing" =>
       Resumable(results, batch) /\ completed = results
  /\ phase = "finishing" => Covers(results, results.len \div Count)
  /\ current # NoBatch => Resumable(completed, current)
  /\ Covers(completed, completed.len \div Count)
  /\ file # NoFile => Resumable(file.results, file.next)

InLoop == phase \in {"between", "batch_top", "batch_ready", "in_batch"}

(* Once a batch is over the file holds it, so that a crash loses no more   *)
(* than the batch in flight (README: "Auto-saves checkpoint after each     *)
(* batch completes").  Needs a disk that accepts the writes.               *)
CheckpointUpToDate ==
  InLoop /\ file # NoFile =>
    /\ file.next >= batch
    /\ \A s \in Slot : s.batch < batch => file.results.got[s] = results.got[s]

IsPrefixOf(s, t) == Len(s) <= Len(t) /\ SubSeq(t, 1, Len(s)) = s

(* A write of the file keeps every result recorded earlier: no pause,      *)
(* cancellation or resume replaces it by an older or shorter list.         *)
RecordedKept ==
  [][file # NoFile /\ file' # NoFile =>
       \A s \in Slot : IsPrefixOf(file.results.got[s], file'.results.got[s])]_vars

(* A run that nobody pauses ends: pipelines, retries and recoveries settle *)
(* and the batch loop reaches its end, for every way windows can fail.     *)
RunEnds == Running ~> (~Running \/ paused)

(* A stop_run always gets through: cancel() gets the layout lock, whether  *)
(* the run opens its windows, closes them or waits to, and the run is      *)
(* over, paused or not, wherever it was.                                   *)
StopEnds == stop # "idle" ~> (stop = "idle" /\ ~Running)

=============================================================================
