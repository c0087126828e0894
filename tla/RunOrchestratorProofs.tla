------------------------ MODULE RunOrchestratorProofs ------------------------
(***************************************************************************)
(* Proofs about RunOrchestrator, for every number of windows, batches,     *)
(* turns and retries, for disks that fail or not and for any number of     *)
(* executions of the run.                                                  *)
(***************************************************************************)
EXTENDS RunOrchestrator, TLAPS

-----------------------------------------------------------------------------
(***************************************************************************)
(* Arithmetic of batch counts.                                             *)
(***************************************************************************)
LEMMA DivNat ==
  ASSUME NEW n \in Nat, NEW c \in Nat \ {0}
  PROVE  n \div c \in Nat
BY SMT

LEMMA DivZero ==
  ASSUME NEW c \in Nat \ {0}
  PROVE  0 \div c = 0
BY SMT

(* One more full batch of results is one more batch.                       *)
LEMMA DivStep ==
  ASSUME NEW n \in Nat, NEW c \in Nat \ {0}
  PROVE  (n + c) \div c = (n \div c) + 1
BY SMT

-----------------------------------------------------------------------------
(***************************************************************************)
(* Result lists.                                                           *)
(***************************************************************************)
LEMMA WidthType ==
  ASSUME NEW b \in Batches
  PROVE  Width(b) \in 1..Count
BY RunAssumption DEF Width, Batches

LEMMA ZeroWorker == 0 \in Workers
BY RunAssumption DEF Workers

LEMMA NoResultsType == NoResults \in ResultList
BY DEF NoResults, ResultList, Kind

LEMMA NoFileType == NoFile \in File
BY NoResultsType DEF NoFile, File

LEMMA MarkedType ==
  ASSUME NEW f \in File
  PROVE  [f EXCEPT !.status = "completed"] \in File
BY DEF File

LEMMA NoEndingType == NoEnding \in Ending
BY RunAssumption DEF NoEnding, Ending, Kind

(* One more turn of a conversation is answered.                            *)
LEMMA AnsweredType ==
  ASSUME NEW e \in [Workers -> Ending], NEW w \in Workers, NEW n \in 0..Turns
  PROVE  /\ [e EXCEPT ![w].answered = n] \in [Workers -> Ending]
         /\ [e EXCEPT ![w].answered = n][w].answered = n
         /\ \A v \in Workers \ {w} : [e EXCEPT ![w].answered = n][v] = e[v]
<1>1. [e[w] EXCEPT !.answered = n] \in Ending
  BY DEF Ending
<1> QED BY <1>1 DEF Ending

LEMMA ExtendType ==
  ASSUME NEW list \in ResultList, NEW b \in Batches,
         NEW endings \in [Workers -> Ending]
  PROVE  Extend(list, b, endings) \in ResultList
<1>1. ASSUME NEW s \in Slot
      PROVE  KindOf(endings[s.worker], s.turn) \in Kind
  BY DEF Slot, KindOf, Ending, Kind
<1>2. ASSUME NEW s \in Slot
      PROVE  Append(list.got[s], KindOf(endings[s.worker], s.turn)) \in Seq(Kind)
  BY <1>1 DEF ResultList
<1>3. list.len + Width(b) * Turns \in Nat
  BY WidthType, RunAssumption DEF ResultList
<1> QED BY <1>2, <1>3 DEF Extend, ResultList

LEMMA CountedType ==
  ASSUME NEW list \in ResultList
  PROVE  list.len \div Count \in Nat
BY DivNat, RunAssumption DEF ResultList

-----------------------------------------------------------------------------
(***************************************************************************)
(* Types.  TypeOK alone is not inductive: a retry is in range because no   *)
(* pipeline at work has used them all, a turn because a pipeline that is   *)
(* between turns has one left, a slot because the loop body runs on a      *)
(* batch there is.                                                         *)
(***************************************************************************)
Attempts ==
  \A w \in Workers :
    /\ pipe[w] # "done" => tries[w] < RetryLimit
    /\ pipe[w] = "turns" => ending[w].answered < Turns

TypeInv == TypeOK /\ Attempts /\ BatchInRange

(* A fresh orchestrator: no worker has done anything yet.                  *)
LEMMA IdleType ==
  /\ [w \in Workers |-> "IDLE"] \in [Workers -> WorkerState]
  /\ [w \in Workers |-> FALSE] \in [Workers -> BOOLEAN]
  /\ [w \in Workers |-> 0] \in [Workers -> 0..RetryLimit]
  /\ [w \in Workers |-> NoEnding] \in [Workers -> Ending]
BY RunAssumption, NoEndingType DEF WorkerState

(* Asking for the layout lock and releasing it.                            *)
LEMMA LockType ==
  ASSUME TypeOK, NEW t \in {"run", "stop"}, Ask(t) \/ (Holds(t) /\ Release)
  PROVE  lock' \in Queue
<1>1. lock \in Queue
  BY DEF TypeOK
<1>2. CASE Ask(t)
  BY <1>1, <1>2 DEF Ask, Queue
<1>3. CASE Holds(t) /\ Release
  BY <1>1, <1>3 DEF Holds, Release, Queue
<1> QED BY <1>2, <1>3

LEMMA NoLockType == <<>> \in Queue
BY DEF Queue

LEMMA TypeInit == Init => TypeInv
<1> SUFFICES ASSUME Init PROVE TypeInv
  OBVIOUS
<1> USE DEF Init
<1>1. TypeOK
  BY ZeroWorker, NoResultsType, NoFileType, IdleType, NoLockType DEF TypeOK
<1>2. Attempts
  BY RunAssumption DEF Attempts
<1>3. BatchInRange
  BY DEF BatchInRange
<1> QED BY <1>1, <1>2, <1>3 DEF TypeInv

(* What of the typing depends on signals, current and windows only.       *)
LEMMA NewOrchestratorType ==
  ASSUME NewOrchestrator
  PROVE  /\ cancelled' \in BOOLEAN
         /\ paused' \in BOOLEAN
         /\ stop' \in {"idle", "flagging", "closing", "killing"}
         /\ flagged' \in Workers
         /\ current' \in Nat \cup {NoBatch}
         /\ wstate' \in [Workers -> WorkerState]
         /\ wcancel' \in [Workers -> BOOLEAN]
         /\ nav' \in [Workers -> {"none", "running", "ok", "failed", "cancelled"}]
         /\ pipe' \in [Workers -> {"off", "start", "prompt", "recover", "reset",
                                   "reopen", "replay", "turns", "done"}]
         /\ tries' \in [Workers -> 0..RetryLimit]
         /\ ending' \in [Workers -> Ending]
         /\ Attempts'
<1>1. Attempts'
  BY RunAssumption DEF NewOrchestrator, IdleWindows, Attempts
<1> QED BY <1>1, ZeroWorker, IdleType DEF NewOrchestrator, IdleWindows

(* An execution starts from a typed index and list.                        *)
LEMMA ExecuteType ==
  ASSUME TypeInv, NEW b \in Nat, NEW list \in ResultList, Execute(b, list)
  PROVE  TypeInv'
<1>1. TypeOK'
  <2>1. lock' \in Queue
    BY LockType DEF Execute, TypeInv
  <2> QED BY <2>1, NewOrchestratorType DEF Execute, TypeInv, TypeOK
<1>2. Attempts' /\ BatchInRange'
  BY NewOrchestratorType DEF Execute, BatchInRange
<1> QED BY <1>1, <1>2 DEF TypeInv

(* System prompt and first prompt answered, in the pipeline or after a     *)
(* recovery.                                                               *)
LEMMA FirstAnsweredType ==
  ASSUME TypeInv, NEW w \in Workers, NEW at \in {"prompt", "replay"},
         FirstAnswered(w, at)
  PROVE  TypeInv'
<1> USE RunAssumption
    DEF TypeInv, TypeOK, Attempts, BatchInRange, control, signals, handlers, windows,
        PipeUnchanged, InBatch, Goto, State, WorkerState
<1>1. CASE Turns = 1
  <2>1. [answered |-> 1, why |-> "answered"] \in Ending
    BY <1>1 DEF Ending, Kind
  <2> QED BY <1>1, <2>1 DEF FirstAnswered, Settle
<1>2. CASE Turns # 1
  <2>1. 1 < Turns /\ 1 \in 0..Turns
    BY <1>2
  <2>2. ending' = [ending EXCEPT ![w].answered = 1]
    BY <1>2 DEF FirstAnswered
  <2>3. /\ ending' \in [Workers -> Ending]
        /\ ending'[w].answered = 1
        /\ \A v \in Workers \ {w} : ending'[v] = ending[v]
    BY <2>1, <2>2, AnsweredType
  <2> QED BY <1>2, <2>1, <2>3 DEF FirstAnswered
<1> QED BY <1>1, <1>2

LEMMA TurnOkType ==
  ASSUME TypeInv, NEW w \in Workers, TurnOk(w)
  PROVE  TypeInv'
<1> USE RunAssumption
    DEF TypeInv, TypeOK, Attempts, BatchInRange, control, signals, handlers, windows,
        PipeUnchanged, InBatch, Goto, State, WorkerState
<1> DEFINE n == ending[w].answered + 1
<1>1. n \in 0..Turns
  BY DEF TurnOk, Ending
<1>2. CASE n = Turns
  BY <1>1, <1>2 DEF TurnOk, Settle, Ending, Kind
<1>3. CASE n # Turns
  <2>1. ending' = [ending EXCEPT ![w].answered = n]
    BY <1>3 DEF TurnOk
  <2>2. /\ ending' \in [Workers -> Ending]
        /\ ending'[w].answered = n
        /\ \A v \in Workers \ {w} : ending'[v] = ending[v]
    BY <1>1, <2>1, AnsweredType
  <2>3. n < Turns
    BY <1>1, <1>3
  <2> QED BY <1>3, <2>2, <2>3 DEF TurnOk
<1> QED BY <1>2, <1>3

LEMMA ReopenFailType ==
  ASSUME TypeInv, NEW w \in Workers, ReopenFail(w)
  PROVE  TypeInv'
<1> USE RunAssumption
    DEF TypeInv, TypeOK, Attempts, BatchInRange, control, signals, handlers, windows,
        PipeUnchanged, InBatch, Goto, State, WorkerState, ForcedError, Terminal
<1>1. tries[w] < RetryLimit /\ tries' = [tries EXCEPT ![w] = @ + 1]
  BY DEF ReopenFail
<1>2. tries' \in [Workers -> 0..RetryLimit]
  BY <1>1
<1>3. CASE tries[w] + 1 < RetryLimit
  BY <1>1, <1>2, <1>3 DEF ReopenFail
<1>4. CASE ~(tries[w] + 1 < RetryLimit)
  <2>1. [answered |-> 0, why |-> "failed"] \in Ending
    BY DEF Ending, Kind
  <2> QED BY <1>1, <1>2, <1>4, <2>1 DEF ReopenFail, Settle
<1> QED BY <1>3, <1>4

LEMMA TypeNext == TypeInv /\ [Next]_vars => TypeInv'
<1> SUFFICES ASSUME TypeInv, [Next]_vars
             PROVE  TypeInv'
  OBVIOUS
<1> USE RunAssumption DEF TypeInv
<1>1. CASE StartRun
  BY <1>1, NoResultsType, ExecuteType DEF StartRun
<1>2. CASE ResumeFromCheckpoint
  <2>1. file.next \in Nat /\ file.results \in ResultList
    BY DEF TypeOK, File
  <2> QED BY <1>2, <2>1, ExecuteType DEF ResumeFromCheckpoint
<1>3. CASE Pause
  BY <1>3, CountedType
  DEF Pause, TypeOK, Attempts, BatchInRange, control, signals, handlers, windows, Save, File, PauseNext, NoBatch, Workers
<1>4. CASE Resume
  BY <1>4
  DEF Resume, TypeOK, Attempts, BatchInRange, control, signals, handlers, windows, Workers
<1>5. CASE StopRun
  <2>1. lock' \in Queue
    BY <1>5, LockType DEF StopRun, TypeOK
  <2> QED
    BY <1>5, <2>1, ZeroWorker
    DEF StopRun, TypeOK, Attempts, BatchInRange, control, signals, handlers, windows
<1>6. CASE DeleteCheckpoint
  BY <1>6, NoFileType
  DEF DeleteCheckpoint, TypeOK, Attempts, BatchInRange, control, signals, handlers, windows, Workers
<1>7. CASE OpenWindows
  <2>1. lock' \in Queue
    BY <1>7, LockType DEF OpenWindows
  <2> QED
    BY <1>7, <2>1
    DEF OpenWindows, TypeOK, Attempts, BatchInRange, control, signals, handlers, windows, Navigate, WorkerState, Workers
<1>8. CASE LaunchFails
  <2>1. lock' \in Queue
    BY <1>8, LockType DEF LaunchFails
  <2> QED
    BY <1>8, <2>1, NoResultsType, NoEndingType
    DEF LaunchFails, TypeOK, Attempts, BatchInRange, control, signals, handlers, windows, Leave, Workers
<1>9. CASE AfterLaunch
  <2>1. lock' \in Queue
    BY <1>9, LockType DEF AfterLaunch, TypeOK
  <2> QED
    BY <1>9, <2>1, NoResultsType
    DEF AfterLaunch, TypeOK, Attempts, BatchInRange, control, signals, handlers, windows, Workers
<1>10. CASE EnterBatch
  BY <1>10
  DEF EnterBatch, TypeOK, Attempts, BatchInRange, control, signals, handlers, windows, Workers
<1>11. CASE PrepareBatch
  BY <1>11
  DEF PrepareBatch, TypeOK, Attempts, BatchInRange, control, signals, handlers, windows, Navigate, ReadyForBatch, Terminal, WorkerState, Workers
<1>12. CASE SpawnPipelines
  BY <1>12, NoEndingType
  DEF SpawnPipelines, TypeOK, Attempts, BatchInRange, control, signals, handlers, windows, Workers
<1>13. CASE BatchComplete
  BY <1>13, NoEndingType, ExtendType
  DEF BatchComplete, TypeOK, Attempts, BatchInRange, control, signals, handlers, windows, Save, File, ForcedError, Terminal, WorkerState, NextBatchIndex, Batches, Workers
<1>14. CASE BreakCancelled
  <2>1. lock' \in Queue
    BY <1>14, LockType DEF BreakCancelled
  <2> QED
    BY <1>14, <2>1
    DEF BreakCancelled, TypeOK, Attempts, BatchInRange, control, signals, handlers, windows, Workers
<1>15. CASE FinishCancelled
  <2>1. lock' \in Queue
    BY <1>15, LockType DEF FinishCancelled
  <2> QED
    BY <1>15, <2>1, NoResultsType, NoEndingType, CountedType
    DEF FinishCancelled, TypeOK, Attempts, BatchInRange, control, signals, handlers, windows, Leave, Save, File, Workers
<1>16. CASE CompleteRun
  <2>1. lock' \in Queue
    BY <1>16, LockType DEF CompleteRun
  <2> QED
    BY <1>16, <2>1, NoResultsType, NoEndingType, NoFileType, MarkedType
    DEF CompleteRun, TypeOK, Attempts, BatchInRange, control, signals, handlers, windows, Leave, MarkCompleted
<1>17. CASE FlagWorker
  <2>1. lock' \in Queue
    BY <1>17, LockType DEF FlagWorker, TypeOK
  <2> QED
    BY <1>17, <2>1
    DEF FlagWorker, TypeOK, Attempts, BatchInRange, control, signals, handlers, windows, State, CancelledStates, Terminal, WorkerState, Workers
<1>18. CASE CancelTask
  BY <1>18, ZeroWorker, NoLockType, NoResultsType, NoEndingType
  DEF CancelTask, TypeOK, Attempts, BatchInRange, control, signals, handlers, windows, Leave
<1>19. CASE Crash
  <2>1. TypeOK'
    BY <1>19, NewOrchestratorType, NoLockType, NoResultsType DEF Crash, TypeOK
  <2>2. Attempts' /\ BatchInRange'
    BY <1>19, NewOrchestratorType DEF Crash, BatchInRange
  <2> QED BY <2>1, <2>2
<1>20. ASSUME NEW w \in Workers, NavOk(w)
      PROVE  TypeInv'
  BY <1>20
  DEF NavOk, TypeOK, Attempts, BatchInRange, control, signals, handlers, windows, WorkerState
<1>21. ASSUME NEW w \in Workers, NavFail(w)
      PROVE  TypeInv'
  BY <1>21
  DEF NavFail, TypeOK, Attempts, BatchInRange, control, signals, handlers, windows, WorkerState
<1>22. ASSUME NEW w \in Workers, NavCancelled(w)
      PROVE  TypeInv'
  BY <1>22
  DEF NavCancelled, TypeOK, Attempts, BatchInRange, control, signals, handlers, windows
<1>23. ASSUME NEW w \in Workers, PipeStart(w)
      PROVE  TypeInv'
  BY <1>23
  DEF PipeStart, TypeOK, Attempts, BatchInRange, control, signals, handlers, windows, PipeUnchanged, InBatch, Goto, State, WorkerState
<1>24. ASSUME NEW w \in Workers, PipeStartCancelled(w)
      PROVE  TypeInv'
  BY <1>24
  DEF PipeStartCancelled, TypeOK, Attempts, BatchInRange, control, signals, handlers, windows, PipeUnchanged, InBatch, Goto, State, WorkerState, Settle, Ending, Kind
<1>25. ASSUME NEW w \in Workers, PipeCancelled(w)
      PROVE  TypeInv'
  BY <1>25
  DEF PipeCancelled, TypeOK, Attempts, BatchInRange, control, signals, handlers, windows, PipeUnchanged, InBatch, Goto, State, WorkerState, Settle, Ending, Kind
<1>26. ASSUME NEW w \in Workers, PromptOk(w)
      PROVE  TypeInv'
  BY <1>26, FirstAnsweredType DEF PromptOk
<1>27. ASSUME NEW w \in Workers, PromptFail(w)
      PROVE  TypeInv'
  BY <1>27
  DEF PromptFail, TypeOK, Attempts, BatchInRange, control, signals, handlers, windows, PipeUnchanged, InBatch, Goto, State, WorkerState, ForcedError, Terminal
<1>28. ASSUME NEW w \in Workers, RestartInWindow(w)
      PROVE  TypeInv'
  BY <1>28
  DEF RestartInWindow, TypeOK, Attempts, BatchInRange, control, signals, handlers, windows, PipeUnchanged, InBatch, Goto, State, WorkerState
<1>29. ASSUME NEW w \in Workers, RecoverSkip(w)
      PROVE  TypeInv'
  BY <1>29
  DEF RecoverSkip, TypeOK, Attempts, BatchInRange, control, signals, handlers, windows, PipeUnchanged, InBatch, Goto, State, WorkerState, ForcedError, Terminal, Settle, Ending, Kind
<1>30. ASSUME NEW w \in Workers, RecoverBegin(w)
      PROVE  TypeInv'
  BY <1>30
  DEF RecoverBegin, TypeOK, Attempts, BatchInRange, control, signals, handlers, windows, PipeUnchanged, InBatch, Goto, State, WorkerState
<1>31. ASSUME NEW w \in Workers, ResetWorker(w)
      PROVE  TypeInv'
  BY <1>31
  DEF ResetWorker, TypeOK, Attempts, BatchInRange, control, signals, handlers, windows, PipeUnchanged, InBatch, Goto, State, WorkerState
<1>32. ASSUME NEW w \in Workers, ReopenOk(w)
      PROVE  TypeInv'
  BY <1>32
  DEF ReopenOk, TypeOK, Attempts, BatchInRange, control, signals, handlers, windows, PipeUnchanged, InBatch, Goto, State, WorkerState
<1>33. ASSUME NEW w \in Workers, ReopenFail(w)
      PROVE  TypeInv'
  BY <1>33, ReopenFailType
<1>34. ASSUME NEW w \in Workers, ReplayOk(w)
      PROVE  TypeInv'
  BY <1>34, FirstAnsweredType DEF ReplayOk
<1>35. ASSUME NEW w \in Workers, ReplayFail(w)
      PROVE  TypeInv'
  BY <1>35
  DEF ReplayFail, TypeOK, Attempts, BatchInRange, control, signals, handlers, windows, PipeUnchanged, InBatch, Goto, State, WorkerState, ForcedError, Terminal, Settle, Ending, Kind
<1>36. ASSUME NEW w \in Workers, TurnOk(w)
      PROVE  TypeInv'
  BY <1>36, TurnOkType
<1>37. ASSUME NEW w \in Workers, TurnFail(w)
      PROVE  TypeInv'
  BY <1>37
  DEF TurnFail, TypeOK, Attempts, BatchInRange, control, signals, handlers, windows, PipeUnchanged, InBatch, Goto, State, WorkerState, ForcedError, Terminal, Settle, Ending, Kind
<1>38. CASE CloseWindows
  <2>1. lock' \in Queue
    BY <1>38, LockType DEF CloseWindows
  <2> QED
    BY <1>38, <2>1, NoResultsType, NoEndingType
    DEF CloseWindows, TypeOK, Attempts, BatchInRange, control, signals, handlers, windows, Leave, Workers
<1>39. CASE CloseForStop
  <2>1. lock' \in Queue
    BY <1>39, LockType DEF CloseForStop
  <2> QED
    BY <1>39, <2>1
    DEF CloseForStop, TypeOK, Attempts, BatchInRange, control, signals, handlers, windows, Workers
<1>40. CASE UNCHANGED vars
  BY <1>40 DEF vars, TypeOK, Attempts, BatchInRange, control, signals, handlers, windows
<1> QED
  BY <1>1, <1>2, <1>3, <1>4, <1>5, <1>6, <1>7, <1>8, <1>9, <1>10, <1>11, <1>12, <1>13, <1>14, <1>15, <1>16, <1>17, <1>18, <1>19, <1>20, <1>21, <1>22, <1>23, <1>24, <1>25, <1>26, <1>27, <1>28, <1>29, <1>30, <1>31, <1>32, <1>33, <1>34, <1>35, <1>36, <1>37, <1>38,
     <1>39, <1>40
  DEF Next, User, RunTask, StopTask, Navigation, Pipeline

(* Every reachable state is well typed; in particular next_batch_index is  *)
(* a natural number in every file (_save_pause_checkpoint falls back to a  *)
(* count when there is no current batch).                                  *)
THEOREM TypeCorrect == Spec => []TypeOK
<1>1. Init => TypeInv
  BY TypeInit
<1>2. TypeInv /\ [Next]_vars => TypeInv'
  BY TypeNext
<1>3. TypeInv => TypeOK
  BY DEF TypeInv
<1> QED BY <1>1, <1>2, <1>3, PTL DEF Spec

-----------------------------------------------------------------------------
(***************************************************************************)
(* No prompt is skipped.  An index is computed in three ways (the batch    *)
(* that ended plus one, the current batch, a division of the number of     *)
(* results), and each is safe because of the list it is saved with:        *)
(* AllResumable.                                                           *)
(***************************************************************************)
LEMMA CoversNone == \A list : Covers(list, 0)
BY DEF Covers, Slot, Batches

(* Past the last batch there is nothing more to cover.                     *)
LEMMA CoversAll ==
  ASSUME NEW list, NEW b \in Nat, NEW c \in Nat, Covers(list, b), b >= Total
  PROVE  Covers(list, c)
BY RunAssumption DEF Covers, Slot, Batches

(* A list resumable at b covers what its length counts.                    *)
LEMMA ResumableCounted ==
  ASSUME NEW list \in ResultList, NEW b \in Nat, Resumable(list, b)
  PROVE  Covers(list, list.len \div Count)
<1> DEFINE n == list.len \div Count
<1>1. n \in Nat
  BY CountedType
<1>2. CASE b < Total
  <2>1. n <= b
    BY <1>2 DEF Resumable
  <2> QED BY <1>1, <2>1 DEF Resumable, Covers, Slot, Batches
<1>3. CASE ~(b < Total)
  <2>1. b >= Total
    BY <1>3, RunAssumption
  <2> QED BY <1>1, <2>1, CoversAll DEF Resumable
<1> QED BY <1>2, <1>3

(* and is resumable there.                                                 *)
LEMMA CountedResumable ==
  ASSUME NEW list \in ResultList, Covers(list, list.len \div Count)
  PROVE  Resumable(list, list.len \div Count)
BY CountedType DEF Resumable

LEMMA NoResultsResumable ==
  /\ Resumable(NoResults, 0)
  /\ Covers(NoResults, NoResults.len \div Count)
<1>1. NoResults.len = 0 /\ 0 \div Count = 0
  BY DivZero, RunAssumption DEF NoResults
<1> QED BY <1>1, CoversNone DEF Resumable

(* The list of a batch that ran is resumable after that batch.             *)
LEMMA ExtendResumable ==
  ASSUME NEW list \in ResultList, NEW b \in Batches, Resumable(list, b),
         NEW endings \in [Workers -> Ending]
  PROVE  Resumable(Extend(list, b, endings), b + 1)
<1> DEFINE all == Extend(list, b, endings)
<1>1. Covers(all, b + 1)
  <2> SUFFICES ASSUME NEW s \in Slot, s.batch < b + 1
               PROVE  all.got[s] # <<>>
    BY DEF Covers
  <2>1. CASE s.batch = b
    <3>1. all.got[s] = Append(list.got[s], KindOf(endings[s.worker], s.turn))
      BY <2>1 DEF Extend
    <3>2. list.got[s] \in Seq(Kind)
      BY DEF ResultList
    <3> QED BY <3>1, <3>2
  <2>2. CASE s.batch # b
    <3>1. s.batch < b
      BY <2>2 DEF Slot, Batches
    <3> QED BY <2>2, <3>1 DEF Extend, Resumable, Covers
  <2> QED BY <2>1, <2>2
<1>2. ASSUME b + 1 < Total
      PROVE  all.len \div Count <= b + 1
  <2>1. Width(b) = Count /\ Turns = 1
    BY <1>2, RunAssumption DEF Width, Batches
  <2>2. all.len = list.len + Count
    BY <2>1, RunAssumption DEF Extend
  <2>3. all.len \div Count = (list.len \div Count) + 1
    BY <2>2, DivStep, RunAssumption DEF ResultList
  <2>4. list.len \div Count <= b
    BY <1>2, RunAssumption DEF Resumable, Batches
  <2> QED BY <2>3, <2>4, CountedType DEF Batches
<1> QED BY <1>1, <1>2 DEF Resumable

LEMMA ResumableInit == Init => AllResumable
BY NoResultsResumable
DEF Init, AllResumable, BatchInRange, Running, NoBatch

(* A step that leaves the file and the loop alone.                         *)
LEMMA ResumableFrame ==
  ASSUME AllResumable, UNCHANGED <<file, control>>
  PROVE  AllResumable'
BY DEF AllResumable, BatchInRange, Running, Resumable, Covers, control

(* The run is over; the object keeps `completed` and `current`.            *)
LEMMA ResumableLeave ==
  ASSUME AllResumable, Leave, UNCHANGED <<current, completed>>,
         file' # NoFile => Resumable(file'.results, file'.next)
  PROVE  AllResumable'
BY DEF AllResumable, BatchInRange, Running, Leave, Resumable, Covers

LEMMA ResumableExecute ==
  ASSUME TypeInv, AllResumable, NEW b \in Nat, NEW list \in ResultList,
         Resumable(list, b), Execute(b, list)
  PROVE  AllResumable'
<1>1. Covers(list, list.len \div Count)
  BY ResumableCounted
<1> QED
  BY <1>1
  DEF AllResumable, BatchInRange, Running, Execute, NewOrchestrator

(* pause() in any phase, also after the run.                               *)
LEMMA PauseNextResumable ==
  ASSUME TypeInv, AllResumable
  PROVE  Resumable(completed, PauseNext)
<1>1. CASE current # NoBatch
  BY <1>1 DEF PauseNext, AllResumable
<1>2. CASE current = NoBatch
  <2>1. completed \in ResultList
    BY DEF TypeInv, TypeOK
  <2> QED BY <1>2, <2>1, CountedResumable DEF PauseNext, AllResumable
<1> QED BY <1>1, <1>2

LEMMA ResumableBatchComplete ==
  ASSUME TypeInv, AllResumable, BatchComplete
  PROVE  AllResumable'
<1> DEFINE all == Extend(results, batch, ending)
<1>1. batch \in Batches /\ results \in ResultList /\ ending \in [Workers -> Ending]
  BY RunAssumption DEF BatchComplete, TypeInv, TypeOK, BatchInRange, Batches
<1>2. Resumable(all, batch + 1)
  BY <1>1, ExtendResumable DEF BatchComplete, AllResumable, Running
<1>3. Covers(all, all.len \div Count)
  BY <1>1, <1>2, ExtendType, ResumableCounted DEF Batches
<1>4. /\ results' = all /\ completed' = all
      /\ phase' = "between" /\ batch' = batch + 1 /\ current' = NoBatch
      /\ Save(batch + 1, all)
  BY DEF BatchComplete, NextBatchIndex
<1>5. file' # NoFile => Resumable(file'.results, file'.next)
  BY <1>2, <1>4 DEF Save, AllResumable
<1> HIDE DEF all
<1>6. Resumable(results', batch') /\ completed' = results'
  BY <1>2, <1>4
<1>7. Covers(completed', completed'.len \div Count)
  BY <1>3, <1>4
<1> QED BY <1>4, <1>5, <1>6, <1>7 DEF AllResumable, BatchInRange, Running, Resumable, Covers

LEMMA ResumableFinishCancelled ==
  ASSUME TypeInv, AllResumable, FinishCancelled
  PROVE  AllResumable'
<1> DEFINE done == results.len \div Count
<1>1. Covers(results, done) /\ results \in ResultList
  BY DEF FinishCancelled, AllResumable, TypeInv, TypeOK
<1>2. Resumable(results, done)
  BY <1>1, CountedResumable
<1>3. file' # NoFile => Resumable(file'.results, file'.next)
  BY <1>2 DEF FinishCancelled, Save, AllResumable
<1>4. completed' = results /\ current' = NoBatch /\ phase' = "ended"
  BY DEF FinishCancelled, Leave
<1>5. Covers(completed', completed'.len \div Count)
  BY <1>1, <1>4
<1> QED BY <1>3, <1>4, <1>5 DEF AllResumable, BatchInRange, Running, Resumable, Covers

LEMMA ResumableCompleteRun ==
  ASSUME TypeInv, AllResumable, CompleteRun
  PROVE  AllResumable'
<1>1. file' # NoFile => Resumable(file'.results, file'.next)
  BY DEF CompleteRun, MarkCompleted, AllResumable, TypeInv, TypeOK, File
<1>2. completed' = completed /\ completed = results
  BY DEF CompleteRun, AllResumable, Running
<1>3. /\ current' = NoBatch /\ phase = "between" /\ phase' = "closing"
      /\ UNCHANGED <<batch, results>>
  BY DEF CompleteRun
<1> QED BY <1>1, <1>2, <1>3 DEF AllResumable, BatchInRange, Running, Resumable, Covers

LEMMA ResumableNext == TypeInv /\ AllResumable /\ [Next]_vars => AllResumable'
<1> SUFFICES ASSUME TypeInv, AllResumable, [Next]_vars
             PROVE  AllResumable'
  OBVIOUS
<1>1. CASE StartRun
  BY <1>1, NoResultsType, NoResultsResumable, ResumableExecute DEF StartRun
<1>2. CASE ResumeFromCheckpoint
  <2>1. file.next \in Nat /\ file.results \in ResultList
    BY DEF TypeInv, TypeOK, File
  <2>2. Resumable(file.results, file.next)
    BY <1>2 DEF ResumeFromCheckpoint, AllResumable
  <2> QED BY <1>2, <2>1, <2>2, ResumableExecute DEF ResumeFromCheckpoint
<1>3. CASE Pause
  <2>1. file' # NoFile => Resumable(file'.results, file'.next)
    BY <1>3, PauseNextResumable DEF Pause, Save, AllResumable
  <2> QED BY <1>3, <2>1
          DEF Pause, control, AllResumable, BatchInRange, Running, Resumable, Covers
<1>4. CASE DeleteCheckpoint
  BY <1>4
  DEF DeleteCheckpoint, control, AllResumable, BatchInRange, Running, Resumable, Covers
<1>5. CASE OpenWindows
  BY <1>5 DEF OpenWindows, AllResumable, BatchInRange, Running, Resumable, Covers
<1>6. CASE LaunchFails \/ CloseWindows
  BY <1>6, ResumableLeave DEF LaunchFails, CloseWindows, AllResumable
<1>7. CASE AfterLaunch
  BY <1>7, NoResultsResumable
  DEF AfterLaunch, AllResumable, BatchInRange, Running, Resumable, Covers
<1>8. CASE EnterBatch
  BY <1>8 DEF EnterBatch, AllResumable, BatchInRange, Running, Resumable, Covers
<1>9. CASE PrepareBatch
  BY <1>9 DEF PrepareBatch, AllResumable, BatchInRange, Running, Resumable, Covers
<1>10. CASE SpawnPipelines
  BY <1>10 DEF SpawnPipelines, AllResumable, BatchInRange, Running, Resumable, Covers
<1>11. CASE BatchComplete
  BY <1>11, ResumableBatchComplete
<1>12. CASE BreakCancelled
  <2>1. results \in ResultList /\ batch \in Nat
    BY DEF TypeInv, TypeOK
  <2>2. Resumable(results, batch)
    BY <1>12 DEF BreakCancelled, AllResumable, Running
  <2>3. Covers(results, results.len \div Count)
    BY <2>1, <2>2, ResumableCounted
  <2> QED BY <1>12, <2>3
          DEF BreakCancelled, AllResumable, BatchInRange, Running, Resumable, Covers
<1>13. CASE FinishCancelled
  BY <1>13, ResumableFinishCancelled
<1>14. CASE CompleteRun
  BY <1>14, ResumableCompleteRun
<1>15. CASE CancelTask
  <2>1. CASE Running
    BY <1>15, <2>1, ResumableLeave DEF CancelTask, AllResumable
  <2>2. CASE ~Running
    BY <1>15, <2>2, ResumableFrame DEF CancelTask, control
  <2> QED BY <2>1, <2>2
<1>16. CASE Crash
  BY <1>16, NoResultsResumable
  DEF Crash, NewOrchestrator, AllResumable, BatchInRange, Running, Resumable, Covers
<1>17. CASE Resume \/ StopRun \/ FlagWorker \/ CloseForStop
  BY <1>17, ResumableFrame DEF Resume, StopRun, FlagWorker, CloseForStop, control
<1>18. ASSUME NEW w \in Workers, Navigation(w)
       PROVE  AllResumable'
  BY <1>18, ResumableFrame DEF Navigation, NavOk, NavFail, NavCancelled
<1>19. ASSUME NEW w \in Workers, Pipeline(w)
       PROVE  AllResumable'
  BY <1>19, ResumableFrame
  DEF Pipeline, PipeUnchanged, PipeStart, PipeStartCancelled, PipeCancelled,
      FirstAnswered, PromptOk, PromptFail, RestartInWindow, RecoverSkip,
      RecoverBegin, ResetWorker, ReopenOk, ReopenFail, ReplayOk, ReplayFail,
      TurnOk, TurnFail
<1>20. CASE UNCHANGED vars
  BY <1>20, ResumableFrame DEF vars
<1> QED
  BY <1>1, <1>2, <1>3, <1>4, <1>5, <1>6, <1>7, <1>8, <1>9, <1>10, <1>11,
     <1>12, <1>13, <1>14, <1>15, <1>16, <1>17, <1>18, <1>19, <1>20
  DEF Next, User, RunTask, StopTask

(* Every index an execution can be resumed at is sound, whatever sequence  *)
(* of batches, pauses, stops, crashes and failed writes led to it.         *)
THEOREM IndexesSound == Spec => []AllResumable
<1>1. Init => TypeInv /\ AllResumable
  BY TypeInit, ResumableInit
<1>2. TypeInv /\ AllResumable /\ [Next]_vars => (TypeInv /\ AllResumable)'
  BY TypeNext, ResumableNext
<1> QED BY <1>1, <1>2, PTL DEF Spec

(* A resumed run skips no prompt: the checkpoint file holds a result of    *)
(* every prompt and turn of the batches its next_batch_index passes over.  *)
THEOREM NothingSkipped == Spec => []NoPromptSkipped
<1>1. AllResumable => NoPromptSkipped
  BY DEF AllResumable, Resumable, NoPromptSkipped
<1> QED BY <1>1, IndexesSound, PTL

=============================================================================
