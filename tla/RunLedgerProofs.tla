--------------------------- MODULE RunLedgerProofs ---------------------------
(***************************************************************************)
(* Proofs about the checkpoint file of RunOrchestrator: its results are    *)
(* never lost, it keeps up with the batches, and it implements RunLedger.  *)
(* The first holds whatever the disk does; the others need a disk that     *)
(* takes the writes and full batches, the ledger also plain prompts        *)
(* (the index that pause() and _finish_cancelled compute from the number   *)
(* of results counts a conversation's turns as batches).                   *)
(***************************************************************************)
EXTENDS MCRunOrchestrator, RunOrchestratorProofs

Accepting == SaveMayFail = FALSE /\ LastWidth = Count

FullBatches == Accepting /\ Turns = 1

-----------------------------------------------------------------------------
(***************************************************************************)
(* What a save would write still has every result of the file.             *)
(***************************************************************************)
Within(list, more) == \A s \in Slot : IsPrefixOf(list.got[s], more.got[s])

(* A cancelled run that has ended saves no more; until then the object     *)
(* holds what the file does.                                               *)
Saving == phase # "none" /\ ~(phase = "ended" /\ cancelled)

KeptInv ==
  /\ phase = "finishing" => cancelled /\ results \in {NoResults, completed}
  /\ Saving /\ file # NoFile => Within(file.results, completed)

-----------------------------------------------------------------------------
(***************************************************************************)
(* The file keeps up: where a write cannot fail the object and the file    *)
(* agree, and the list is long enough for every index it is counted into.  *)
(***************************************************************************)
Reaches(list, b) == list.len >= b * Count

InBody == phase \in {"batch_top", "batch_ready", "in_batch"}

AheadInv ==
  /\ Running /\ phase # "finishing" =>
       /\ current = (IF InBody THEN batch ELSE NoBatch)
       /\ Reaches(results, batch)
  /\ current # NoBatch => Reaches(completed, current)
  /\ file # NoFile =>
       /\ Reaches(file.results, file.next)
       /\ Saving => file.results = completed
       /\ Running /\ phase # "finishing" => file.next >= batch

-----------------------------------------------------------------------------
(***************************************************************************)
(* The file is exact: one result of every prompt of the batches it counts. *)
(***************************************************************************)
Exact(list, n) ==
  /\ n \in 0..Total
  /\ list.len = n * Count
  /\ \A s \in Slot : Len(list.got[s]) = IF s.batch < n THEN 1 ELSE 0

ExactInv ==
  /\ Running /\ phase # "finishing" => Exact(results, batch)
  /\ current # NoBatch => Exact(completed, current)
  /\ Exact(completed, completed.len \div Count)
  /\ file # NoFile => Exact(file.results, file.next)

-----------------------------------------------------------------------------
(***************************************************************************)
(* The steps, by what they do to the file, the loop and `cancelled`.       *)
(***************************************************************************)
Quiet == UNCHANGED <<file, control>> /\ (cancelled => cancelled')

Forward ==
  /\ \/ phase = "launching" /\ phase' = "launched"
     \/ phase = "batch_top" /\ phase' = "batch_ready"
     \/ phase = "batch_ready" /\ phase' = "in_batch"
  /\ UNCHANGED <<file, batch, current, results, completed, cancelled>>

Over ==
  /\ Running
  /\ phase' = "ended"
  /\ UNCHANGED <<file, current, completed, cancelled>>

LEMMA StepKinds ==
  ASSUME [Next]_vars
  PROVE  \/ Quiet \/ Forward \/ Over
         \/ StartRun \/ ResumeFromCheckpoint \/ Crash
         \/ Pause \/ DeleteCheckpoint
         \/ AfterLaunch \/ EnterBatch \/ BatchComplete
         \/ BreakCancelled \/ FinishCancelled \/ CompleteRun
<1>1. CASE Resume \/ StopRun \/ FlagWorker \/ CloseForStop
  BY <1>1 DEF Quiet, Resume, StopRun, FlagWorker, CloseForStop, control
<1>2. CASE CancelTask
  BY <1>2 DEF Quiet, Over, CancelTask, Leave, control
<1>3. CASE LaunchFails \/ CloseWindows
  BY <1>3 DEF Over, LaunchFails, CloseWindows, Leave, Running, signals
<1>4. CASE OpenWindows \/ PrepareBatch \/ SpawnPipelines
  BY <1>4 DEF Forward, OpenWindows, PrepareBatch, SpawnPipelines, signals, handlers
<1>5. ASSUME NEW w \in Workers, Navigation(w)
      PROVE  Quiet
  BY <1>5 DEF Quiet, Navigation, NavOk, NavFail, NavCancelled, signals, handlers
<1>6. ASSUME NEW w \in Workers, Pipeline(w)
      PROVE  Quiet
  BY <1>6
  DEF Quiet, Pipeline, PipeUnchanged, PipeStart, PipeStartCancelled, PipeCancelled,
      FirstAnswered, PromptOk, PromptFail, RestartInWindow, RecoverSkip,
      RecoverBegin, ResetWorker, ReopenOk, ReopenFail, ReplayOk, ReplayFail,
      TurnOk, TurnFail, signals, handlers
<1>7. CASE UNCHANGED vars
  BY <1>7 DEF Quiet, vars, signals, handlers
<1> QED BY <1>1, <1>2, <1>3, <1>4, <1>5, <1>6, <1>7 DEF Next, User, RunTask, StopTask

-----------------------------------------------------------------------------
(***************************************************************************)
(* Results are kept.                                                       *)
(***************************************************************************)
LEMMA PrefixItself ==
  ASSUME NEW s \in Seq(Kind)
  PROVE  IsPrefixOf(s, s)
BY DEF IsPrefixOf

LEMMA PrefixAppended ==
  ASSUME NEW s \in Seq(Kind), NEW t \in Seq(Kind), NEW k \in Kind,
         IsPrefixOf(s, t)
  PROVE  IsPrefixOf(s, Append(t, k))
<1>1. Len(s) \in Nat /\ Len(s) <= Len(t) /\ Len(Append(t, k)) = Len(t) + 1
  BY DEF IsPrefixOf
<1>2. SubSeq(Append(t, k), 1, Len(s)) = SubSeq(t, 1, Len(s))
  BY <1>1
<1> QED BY <1>1, <1>2 DEF IsPrefixOf

LEMMA WithinItself ==
  ASSUME NEW list \in ResultList
  PROVE  Within(list, list)
BY PrefixItself DEF Within, ResultList

LEMMA WithinExtended ==
  ASSUME NEW list \in ResultList, NEW more \in ResultList, Within(list, more),
         NEW b, NEW endings \in [Workers -> Ending]
  PROVE  Within(list, Extend(more, b, endings))
<1> SUFFICES ASSUME NEW s \in Slot
             PROVE  IsPrefixOf(list.got[s], Extend(more, b, endings).got[s])
  BY DEF Within
<1>1. list.got[s] \in Seq(Kind) /\ more.got[s] \in Seq(Kind)
  BY DEF ResultList
<1>2. KindOf(endings[s.worker], s.turn) \in Kind
  BY DEF Slot, KindOf, Ending, Kind
<1>3. IsPrefixOf(list.got[s], more.got[s])
  BY DEF Within
<1>4. \/ Extend(more, b, endings).got[s] = more.got[s]
      \/ Extend(more, b, endings).got[s] =
           Append(more.got[s], KindOf(endings[s.worker], s.turn))
  BY DEF Extend
<1> QED BY <1>1, <1>2, <1>3, <1>4, PrefixAppended

(* A file that takes its place keeps its results.                          *)
Keeps ==
  file # NoFile /\ file' # NoFile => Within(file.results, file'.results)

LEMMA KeptInit == Init => KeptInv
BY DEF Init, KeptInv

LEMMA KeptNext ==
  ASSUME TypeInv, AllResumable, KeptInv, [Next]_vars
  PROVE  KeptInv' /\ Keeps
<1>1. /\ file \in File /\ results \in ResultList /\ completed \in ResultList
      /\ batch \in Nat /\ ending \in [Workers -> Ending]
      /\ file' \in File /\ completed' \in ResultList
  BY TypeNext DEF TypeInv, TypeOK
<1>2. /\ file.results \in ResultList
      /\ Within(file.results, file.results) /\ Within(completed, completed)
  BY <1>1, WithinItself DEF File
<1> USE DEF KeptInv, Keeps, Saving
<1>3. CASE Quiet
  BY <1>2, <1>3 DEF Quiet, control, Within
<1>4. CASE Forward
  BY <1>2, <1>4 DEF Forward, Within
<1>5. CASE Over
  BY <1>2, <1>5 DEF Over, Running, Within
<1>6. CASE StartRun \/ ResumeFromCheckpoint
  <2>1. /\ file' = file /\ phase' = "launching"
        /\ file # NoFile => completed' = file.results
    BY <1>6 DEF StartRun, ResumeFromCheckpoint, Execute
  <2> QED BY <1>2, <2>1
<1>7. CASE Crash
  BY <1>2, <1>7 DEF Crash
<1>8. CASE Pause
  <2>1. Saving /\ UNCHANGED <<phase, results, completed, cancelled>>
    BY <1>8 DEF Pause, control
  <2>2. file' = file \/ file'.results = completed
    BY <1>8 DEF Pause, Save
  <2> QED BY <1>2, <2>1, <2>2
<1>9. CASE DeleteCheckpoint
  BY <1>9 DEF DeleteCheckpoint, control, signals, handlers
<1>10. CASE AfterLaunch
  BY <1>2, <1>10 DEF AfterLaunch, signals, handlers
<1>11. CASE EnterBatch
  BY <1>2, <1>11 DEF EnterBatch, signals, handlers
<1>12. CASE BatchComplete
  <2> DEFINE all == Extend(results, batch, ending)
  <2>1. /\ completed' = all /\ phase' = "between" /\ Saving
        /\ file' = file \/ file'.results = all
        /\ completed = results
    BY <1>12 DEF BatchComplete, Save, AllResumable, Running
  <2>2. batch \in Batches
    BY <1>1, <1>12, RunAssumption
    DEF BatchComplete, TypeInv, BatchInRange, Batches
  <2>3. all \in ResultList
    BY <1>1, <2>2, ExtendType
  <2>4. Within(all, all)
    BY <2>3, WithinItself
  <2>5. file # NoFile => Within(file.results, all)
    BY <1>1, <1>2, <2>1, WithinExtended
  <2> HIDE DEF all
  <2> QED BY <1>2, <2>1, <2>4, <2>5
<1>13. CASE BreakCancelled
  <2>1. completed = results
    BY <1>13 DEF BreakCancelled, AllResumable, Running
  <2>2. /\ phase' = "finishing" /\ Saving
        /\ UNCHANGED <<file, results, completed, cancelled>> /\ cancelled
    BY <1>13 DEF BreakCancelled, signals, handlers
  <2> QED BY <1>2, <2>1, <2>2
<1>14. CASE FinishCancelled
  <2>1. phase' = "ended" /\ cancelled' /\ Saving
    BY <1>14 DEF FinishCancelled, Leave, signals, handlers
  <2>2. CASE results = NoResults
    <3>1. results.len \div Count = 0
      BY <2>2, DivZero, RunAssumption DEF NoResults
    <3>2. file' = file
      BY <1>14, <3>1 DEF FinishCancelled
    <3> QED BY <1>2, <2>1, <3>2
  <2>3. CASE results = completed
    <3>1. file' = file \/ file'.results = completed
      BY <1>14, <2>3 DEF FinishCancelled, Save
    <3> QED BY <1>2, <2>1, <3>1
  <2> QED BY <1>14, <2>2, <2>3 DEF FinishCancelled
<1>15. CASE CompleteRun
  <2>1. completed' = completed /\ phase' = "closing" /\ Saving
    BY <1>15 DEF CompleteRun, AllResumable, Running
  <2>2. file' # NoFile => file # NoFile /\ file'.results = file.results
    BY <1>1, <1>15 DEF CompleteRun, MarkCompleted, File
  <2> QED BY <1>2, <2>1, <2>2
<1> QED BY <1>3, <1>4, <1>5, <1>6, <1>7, <1>8, <1>9, <1>10, <1>11, <1>12, <1>13,
           <1>14, <1>15, StepKinds

LEMMA KeptInvariant == Spec => [](TypeInv /\ AllResumable /\ KeptInv)
<1>1. Init => TypeInv /\ AllResumable /\ KeptInv
  BY TypeInit, ResumableInit, KeptInit
<1>2. TypeInv /\ AllResumable /\ KeptInv /\ [Next]_vars
        => (TypeInv /\ AllResumable /\ KeptInv)'
  BY TypeNext, ResumableNext, KeptNext
<1> QED BY <1>1, <1>2, PTL DEF Spec

(* No write of the checkpoint replaces a recorded result by an older or    *)
(* shorter list, whichever of batch, pause, cancellation and resume wrote  *)
(* it, also where earlier writes failed.                                   *)
THEOREM ResultsKept == Spec => RecordedKept
<1>1. TypeInv /\ AllResumable /\ KeptInv /\ [Next]_vars =>
        [file # NoFile /\ file' # NoFile =>
           \A s \in Slot : IsPrefixOf(file.results.got[s], file'.results.got[s])]_vars
  BY KeptNext DEF Keeps, Within
<1> QED BY <1>1, KeptInvariant, PTL DEF Spec, RecordedKept

-----------------------------------------------------------------------------
(***************************************************************************)
(* The file keeps up.                                                      *)
(***************************************************************************)
LEMMA DivReached ==
  ASSUME NEW n \in Nat, NEW c \in Nat \ {0}
  PROVE  n >= (n \div c) * c
BY SMT

LEMMA DivAtLeast ==
  ASSUME NEW n \in Nat, NEW c \in Nat \ {0}, NEW b \in Nat, n >= b * c
  PROVE  n \div c >= b
BY SMT

LEMMA DivExact ==
  ASSUME NEW c \in Nat \ {0}, NEW b \in Nat
  PROVE  (b * c) \div c = b
BY SMT

LEMMA CountReached ==
  ASSUME NEW list \in ResultList
  PROVE  Reaches(list, list.len \div Count)
BY DivReached, RunAssumption DEF Reaches, ResultList

LEMMA ReachesExtended ==
  ASSUME Accepting, NEW list \in ResultList, NEW b \in Nat, Reaches(list, b),
         NEW endings
  PROVE  Reaches(Extend(list, b, endings), b + 1)
<1>1. Width(b) = Count
  BY RunAssumption DEF Width, Accepting
<1>2. Extend(list, b, endings).len = list.len + Count * Turns
  BY <1>1 DEF Extend
<1>3. Count * Turns >= Count
  BY RunAssumption
<1>4. (b + 1) * Count = b * Count + Count
  BY RunAssumption
<1>5. list.len \in Nat /\ b * Count \in Nat /\ Count * Turns \in Nat
  BY RunAssumption DEF ResultList
<1> QED BY <1>2, <1>3, <1>4, <1>5, RunAssumption DEF Reaches

(* The index that pause() saves is no older than the batch at work.        *)
LEMMA PauseNextAhead ==
  ASSUME TypeInv, AllResumable, AheadInv
  PROVE  /\ PauseNext \in Nat
         /\ Reaches(completed, PauseNext)
         /\ Running /\ phase # "finishing" => PauseNext >= batch
<1>1. completed \in ResultList /\ batch \in Nat /\ current \in Nat \cup {NoBatch}
  BY DEF TypeInv, TypeOK
<1>2. CASE current # NoBatch
  BY <1>1, <1>2 DEF PauseNext, AheadInv
<1>3. CASE current = NoBatch
  <2>1. PauseNext = completed.len \div Count
    BY <1>3 DEF PauseNext
  <2>2. ASSUME Running, phase # "finishing"
        PROVE  completed.len >= batch * Count
    BY <2>2 DEF AheadInv, AllResumable, Reaches
  <2> QED BY <1>1, <2>1, <2>2, CountedType, CountReached, DivAtLeast, RunAssumption
          DEF ResultList
<1> QED BY <1>2, <1>3

LEMMA AheadInit == Init => AheadInv
BY DEF Init, AheadInv, Running, Saving

LEMMA AheadNext ==
  ASSUME Accepting, TypeInv, AllResumable, KeptInv, AheadInv, [Next]_vars
  PROVE  AheadInv'
<1>1. /\ file \in File /\ results \in ResultList /\ completed \in ResultList
      /\ batch \in Nat /\ file.results \in ResultList /\ file.next \in Nat
  BY DEF TypeInv, TypeOK, File
<1>2. Running /\ phase # "finishing" => completed = results
  BY DEF AllResumable
<1>3. NoBatch \notin Nat
  BY DEF NoBatch
<1> USE DEF AheadInv, Saving, Running, InBody, Reaches
<1>4. CASE Quiet
  BY <1>4 DEF Quiet, control
<1>5. CASE Forward
  BY <1>5 DEF Forward
<1>6. CASE Over
  BY <1>6 DEF Over
<1>7. CASE StartRun
  BY <1>1, <1>7, RunAssumption
  DEF StartRun, Execute, NewOrchestrator, NoResults
<1>8. CASE ResumeFromCheckpoint
  <2>1. /\ file # NoFile /\ file' = file /\ phase' = "launching"
        /\ current' = NoBatch /\ batch' = file.next
        /\ results' = file.results /\ completed' = file.results
    BY <1>8 DEF ResumeFromCheckpoint, Execute, NewOrchestrator
  <2> QED BY <1>1, <2>1
<1>9. CASE Crash
  BY <1>9 DEF Crash, NewOrchestrator
<1>10. CASE Pause
  <2>1. /\ PauseNext \in Nat /\ completed.len >= PauseNext * Count
        /\ Running /\ phase # "finishing" => PauseNext >= batch
    BY PauseNextAhead
  <2>2. UNCHANGED <<phase, batch, current, results, completed, cancelled>>
    BY <1>10 DEF Pause, control
  <2>3. file' = [status |-> "in_progress", next |-> PauseNext, results |-> completed]
    BY <1>10 DEF Pause, Save, Accepting
  <2> QED BY <2>1, <2>2, <2>3
<1>11. CASE DeleteCheckpoint
  BY <1>11 DEF DeleteCheckpoint, control
<1>12. CASE AfterLaunch
  BY <1>12 DEF AfterLaunch, signals, handlers
<1>13. CASE EnterBatch
  BY <1>2, <1>13 DEF EnterBatch, signals, handlers
<1>14. CASE BatchComplete
  <2> DEFINE all == Extend(results, batch, ending)
  <2>1. /\ phase' = "between" /\ batch' = batch + 1 /\ current' = NoBatch
        /\ results' = all /\ completed' = all
        /\ file' = [status |-> "in_progress", next |-> batch + 1, results |-> all]
    BY <1>14 DEF BatchComplete, Save, NextBatchIndex, Accepting
  <2>2. all.len >= (batch + 1) * Count
    BY <1>1, <1>14, ReachesExtended DEF BatchComplete
  <2> HIDE DEF all
  <2> QED BY <1>1, <2>1, <2>2
<1>15. CASE BreakCancelled
  BY <1>15 DEF BreakCancelled, signals, handlers
<1>16. CASE FinishCancelled
  <2> DEFINE done == results.len \div Count
  <2>1. /\ phase' = "ended" /\ cancelled' /\ current' = NoBatch
        /\ \/ file' = file
           \/ file' = [status |-> "in_progress", next |-> done, results |-> results]
    BY <1>16 DEF FinishCancelled, Leave, Save, signals, handlers, KeptInv
  <2>2. results.len >= done * Count
    BY <1>1, CountReached
  <2> QED BY <2>1, <2>2
<1>17. CASE CompleteRun
  <2>1. /\ completed' = completed /\ phase' = "closing" /\ current' = NoBatch
        /\ UNCHANGED <<batch, results, cancelled>>
    BY <1>2, <1>17 DEF CompleteRun, signals
  <2>2. file' # NoFile => /\ file # NoFile
                          /\ file'.results = file.results /\ file'.next = file.next
    BY <1>1, <1>17 DEF CompleteRun, MarkCompleted, File
  <2>3. phase = "between"
    BY <1>17 DEF CompleteRun
  <2> QED BY <1>1, <2>1, <2>2, <2>3
<1> QED BY <1>4, <1>5, <1>6, <1>7, <1>8, <1>9, <1>10, <1>11, <1>12, <1>13,
           <1>14, <1>15, <1>16, <1>17, StepKinds

(* Where the disk takes the writes and batches are full, a crash loses no  *)
(* more than the batch in flight: whatever was paused, deleted or resumed, *)
(* a file there is counts and holds every batch that is over.              *)
THEOREM CheckpointKeepsUp ==
  ASSUME Accepting
  PROVE  Spec => []CheckpointUpToDate
<1>1. Init => AheadInv
  BY AheadInit
<1>2. TypeInv /\ AllResumable /\ KeptInv /\ AheadInv /\ [Next]_vars => AheadInv'
  BY AheadNext
<1>3. AllResumable /\ AheadInv => CheckpointUpToDate
  BY DEF AllResumable, AheadInv, CheckpointUpToDate, InLoop, Running, Saving
<1> QED BY <1>1, <1>2, <1>3, KeptInvariant, PTL DEF Spec

-----------------------------------------------------------------------------
(***************************************************************************)
(* The file implements the ledger.                                         *)
(***************************************************************************)
LEMMA ExactCounted ==
  ASSUME NEW list, NEW n, Exact(list, n)
  PROVE  list.len \div Count = n
BY DivExact, RunAssumption DEF Exact

LEMMA NothingExact == Exact(NoResults, 0)
<1>1. \A s \in Slot : ~(s.batch < 0)
  BY RunAssumption DEF Slot, Batches
<1>2. 0 \in 0..Total /\ 0 * Count = 0
  BY RunAssumption
<1> QED BY <1>1, <1>2 DEF Exact, NoResults

LEMMA ExactExtended ==
  ASSUME FullBatches, NEW list \in ResultList, NEW b \in Batches, Exact(list, b),
         NEW endings \in [Workers -> Ending]
  PROVE  Exact(Extend(list, b, endings), b + 1)
<1> DEFINE all == Extend(list, b, endings)
<1>1. Width(b) = Count /\ Turns = 1
  BY DEF Width, FullBatches, Accepting
<1>2. all.len = list.len + Count
  BY <1>1, RunAssumption DEF Extend
<1>3. b \in Nat /\ b + 1 \in 0..Total /\ (b + 1) * Count = b * Count + Count
  BY RunAssumption DEF Batches
<1>4. ASSUME NEW s \in Slot
      PROVE  Len(all.got[s]) = IF s.batch < b + 1 THEN 1 ELSE 0
  <2>1. /\ list.got[s] \in Seq(Kind) /\ s.batch \in Nat
        /\ Len(list.got[s]) = IF s.batch < b THEN 1 ELSE 0
    BY DEF ResultList, Exact, Slot, Batches
  <2>2. CASE s.batch = b
    <3>1. all.got[s] = Append(list.got[s], KindOf(endings[s.worker], s.turn))
      BY <2>2 DEF Extend
    <3>2. KindOf(endings[s.worker], s.turn) \in Kind
      BY DEF Slot, KindOf, Ending, Kind
    <3> QED BY <1>3, <2>1, <2>2, <3>1, <3>2
  <2>3. CASE s.batch # b
    <3>1. all.got[s] = list.got[s]
      BY <2>3 DEF Extend
    <3> QED BY <1>3, <2>1, <2>3, <3>1
  <2> QED BY <2>2, <2>3
<1> HIDE DEF all
<1> QED BY <1>2, <1>3, <1>4 DEF Exact, all

LEMMA PauseNextExact ==
  ASSUME ExactInv
  PROVE  Exact(completed, PauseNext)
BY DEF ExactInv, PauseNext

LEMMA ExactInit == Init => ExactInv
BY NothingExact, ExactCounted DEF Init, ExactInv, Running

(* What an ended batch adds to the results.                                *)
LEMMA BatchExact ==
  ASSUME FullBatches, TypeInv, ExactInv, BatchComplete
  PROVE  /\ Exact(results, batch)
         /\ Exact(results', batch + 1) /\ completed' = results'
         /\ file' = [status |-> "in_progress", next |-> batch + 1,
                     results |-> results']
<1>1. /\ batch \in Batches /\ results \in ResultList
      /\ ending \in [Workers -> Ending]
  BY RunAssumption DEF BatchComplete, TypeInv, TypeOK, BatchInRange, Batches
<1>2. Exact(results, batch)
  BY DEF BatchComplete, ExactInv, Running
<1>3. results' = Extend(results, batch, ending) /\ completed' = results'
  BY DEF BatchComplete
<1>4. file' = [status |-> "in_progress", next |-> batch + 1, results |-> results']
  BY <1>3 DEF BatchComplete, Save, NextBatchIndex, FullBatches, Accepting
<1> QED BY <1>1, <1>2, <1>3, <1>4, ExactExtended

LEMMA ExactNext ==
  ASSUME FullBatches, TypeInv, AllResumable, KeptInv, ExactInv, [Next]_vars
  PROVE  ExactInv'
<1>1. file \in File /\ batch \in Nat
  BY DEF TypeInv, TypeOK
<1>2. Running /\ phase # "finishing" => completed = results
  BY DEF AllResumable
<1> USE DEF ExactInv, Running
<1>3. CASE Quiet
  BY <1>3 DEF Quiet, control, Exact
<1>4. CASE Forward
  BY <1>4 DEF Forward, Exact
<1>5. CASE Over
  BY <1>5 DEF Over, Exact
<1>6. CASE StartRun
  <2>1. /\ file' = NoFile /\ phase' = "launching" /\ batch' = 0
        /\ results' = NoResults /\ completed' = NoResults /\ current' = NoBatch
    BY <1>6 DEF StartRun, Execute, NewOrchestrator
  <2> QED BY <2>1, NothingExact, ExactCounted
<1>7. CASE ResumeFromCheckpoint
  <2>1. /\ file # NoFile /\ file' = file /\ phase' = "launching"
        /\ current' = NoBatch /\ batch' = file.next
        /\ results' = file.results /\ completed' = file.results
    BY <1>7 DEF ResumeFromCheckpoint, Execute, NewOrchestrator
  <2>2. Exact(file.results, file.next)
    BY <2>1
  <2>3. file.results.len \div Count = file.next
    BY <2>2, ExactCounted
  <2> QED BY <2>1, <2>2, <2>3
<1>8. CASE Crash
  <2>1. /\ file' = file /\ phase' = "none" /\ completed' = NoResults
        /\ current' = NoBatch
    BY <1>8 DEF Crash, NewOrchestrator
  <2> QED BY <2>1, NothingExact, ExactCounted
<1>9. CASE Pause
  <2>1. UNCHANGED <<phase, batch, current, results, completed>>
    BY <1>9 DEF Pause, control
  <2>2. file' = [status |-> "in_progress", next |-> PauseNext, results |-> completed]
    BY <1>9 DEF Pause, Save, FullBatches, Accepting
  <2> QED BY <2>1, <2>2, PauseNextExact
<1>10. CASE DeleteCheckpoint
  BY <1>10 DEF DeleteCheckpoint, control
<1>11. CASE AfterLaunch
  BY <1>11 DEF AfterLaunch
<1>12. CASE EnterBatch
  BY <1>2, <1>12 DEF EnterBatch
<1>13. CASE BatchComplete
  <2>1. phase' = "between" /\ batch' = batch + 1 /\ current' = NoBatch
    BY <1>13 DEF BatchComplete
  <2>2. results'.len \div Count = batch + 1
    BY <1>13, BatchExact, ExactCounted
  <2>3. /\ Exact(results', batch + 1) /\ completed' = results'
        /\ file'.next = batch + 1 /\ file'.results = results'
    BY <1>13, BatchExact
  <2> QED BY <2>1, <2>2, <2>3
<1>14. CASE BreakCancelled
  BY <1>14 DEF BreakCancelled
<1>15. CASE FinishCancelled
  <2> DEFINE done == results.len \div Count
  <2>1. /\ phase' = "ended" /\ current' = NoBatch /\ completed' = results
        /\ \/ file' = file
           \/ file' = [status |-> "in_progress", next |-> done, results |-> results]
    BY <1>15 DEF FinishCancelled, Leave, Save
  <2>2. Exact(results, done)
    <3>1. results = NoResults \/ results = completed
      BY <1>15 DEF FinishCancelled, KeptInv
    <3>2. Exact(NoResults, NoResults.len \div Count)
      BY NothingExact, ExactCounted
    <3> QED BY <3>1, <3>2
  <2> HIDE DEF done
  <2>3. Exact(completed', completed'.len \div Count)
    BY <2>1, <2>2 DEF done
  <2> QED BY <2>1, <2>2, <2>3
<1>16. CASE CompleteRun
  <2>1. /\ completed' = completed /\ completed = results /\ current' = NoBatch
        /\ phase = "between" /\ phase' = "closing"
        /\ UNCHANGED <<batch, results>>
    BY <1>2, <1>16 DEF CompleteRun
  <2>2. file' # NoFile => /\ file # NoFile
                          /\ file'.results = file.results /\ file'.next = file.next
    BY <1>1, <1>16 DEF CompleteRun, MarkCompleted, File
  <2> QED BY <2>1, <2>2
<1> QED BY <1>3, <1>4, <1>5, <1>6, <1>7, <1>8, <1>9, <1>10, <1>11, <1>12, <1>13,
           <1>14, <1>15, <1>16, StepKinds

(* A write of an exact list, of the batch at hand or the next one.         *)
LEMMA LedgerWrites ==
  ASSUME TypeInv, NEW list, NEW n, Exact(list, n),
         file' = [status |-> "in_progress", next |-> n, results |-> list],
         file # NoFile => n \in {file.next, file.next + 1}
  PROVE  Ledger!Next
<1>1. file' # NoFile
  BY DEF NoFile
<1>2. LengthOf(list) = [s \in Slot |-> IF s.batch < n THEN 1 ELSE 0]
  BY DEF LengthOf, Exact
<1>3. n \in 0..Total
  BY DEF Exact
<1>4. Ledger!Write(n)
  BY <1>1, <1>2 DEF Ledger!Write, Ledger!Holding
<1> QED BY <1>3, <1>4 DEF Ledger!Next

LEMMA LedgerInit == Init => Ledger!Init
<1>1. LengthOf(NoResults) = Ledger!Holding(0)
  BY NothingExact DEF LengthOf, Exact, Ledger!Holding
<1> QED BY <1>1 DEF Init, Ledger!Init, NoFile

LEMMA LedgerNext ==
  ASSUME FullBatches, TypeInv, AllResumable, KeptInv, AheadInv, ExactInv,
         [Next]_vars
  PROVE  [Ledger!Next]_(Ledger!vars)
<1>1. CASE UNCHANGED file
  BY <1>1 DEF Ledger!vars
<1>2. CASE Quiet \/ Forward \/ Over \/ StartRun \/ ResumeFromCheckpoint \/ Crash
           \/ AfterLaunch \/ EnterBatch \/ BreakCancelled
  <2>1. UNCHANGED file
    BY <1>2
    DEF Quiet, Forward, Over, StartRun, ResumeFromCheckpoint, Execute, Crash,
        AfterLaunch, EnterBatch, BreakCancelled
  <2> QED BY <1>1, <2>1
<1>3. CASE Pause
  <2>1. file' = [status |-> "in_progress", next |-> PauseNext, results |-> completed]
    BY <1>3 DEF Pause, Save, FullBatches, Accepting
  <2>2. Exact(completed, PauseNext)
    BY PauseNextExact
  <2>3. ASSUME file # NoFile
        PROVE  PauseNext = file.next
    <3>1. file.results = completed
      BY <1>3, <2>3 DEF Pause, AheadInv, Saving
    <3>2. Exact(file.results, file.next)
      BY <2>3 DEF ExactInv
    <3> QED BY <2>2, <3>1, <3>2, ExactCounted
  <2> QED BY <2>1, <2>2, <2>3, LedgerWrites
<1>4. CASE DeleteCheckpoint
  <2>1. file' = NoFile
    BY <1>4 DEF DeleteCheckpoint
  <2>2. LengthOf(NoResults) = Ledger!Holding(0)
    BY NothingExact DEF LengthOf, Exact, Ledger!Holding
  <2>3. Ledger!Discard
    BY <2>1, <2>2 DEF Ledger!Discard, NoFile
  <2> QED BY <2>3 DEF Ledger!Next
<1>5. CASE BatchComplete
  <2>1. /\ Exact(results, batch) /\ Exact(results', batch + 1)
        /\ file' = [status |-> "in_progress", next |-> batch + 1,
                    results |-> results']
    BY <1>5, BatchExact
  <2>2. ASSUME file # NoFile
        PROVE  batch = file.next
    <3>1. file.results = results
      BY <1>5, <2>2 DEF BatchComplete, AheadInv, Saving, AllResumable, Running
    <3>2. Exact(file.results, file.next)
      BY <2>2 DEF ExactInv
    <3> QED BY <2>1, <3>1, <3>2, ExactCounted
  <2> QED BY <2>1, <2>2, LedgerWrites
<1>6. CASE FinishCancelled
  <2> DEFINE done == results.len \div Count
  <2>1. CASE results = NoResults
    <3>1. done = 0
      BY <2>1, DivZero, RunAssumption DEF NoResults
    <3> QED BY <1>1, <1>6, <3>1 DEF FinishCancelled
  <2>2. CASE results = completed
    <3>1. \/ file' = file
          \/ file' = [status |-> "in_progress", next |-> done, results |-> results]
      BY <1>6 DEF FinishCancelled, Save
    <3>2. Exact(results, done)
      BY <2>2 DEF ExactInv
    <3>3. ASSUME file # NoFile
          PROVE  done = file.next
      <4>1. file.results = results
        BY <1>6, <2>2, <3>3 DEF FinishCancelled, AheadInv, Saving
      <4>2. Exact(file.results, file.next)
        BY <3>3 DEF ExactInv
      <4> QED BY <3>2, <4>1, <4>2, ExactCounted
    <3> HIDE DEF done
    <3> QED BY <1>1, <3>1, <3>2, <3>3, LedgerWrites
  <2> QED BY <1>6, <2>1, <2>2 DEF FinishCancelled, KeptInv
<1>7. CASE CompleteRun
  <2>1. CASE file = NoFile \/ UNCHANGED file
    BY <1>1, <1>7, <2>1 DEF CompleteRun, MarkCompleted
  <2>2. CASE file # NoFile /\ file' = [file EXCEPT !.status = "completed"]
    <3>1. batch = Total
      BY <1>7, RunAssumption DEF CompleteRun, ExactInv, Running, Exact
    <3>2. file.results = results /\ Exact(results, batch)
      BY <1>7, <2>2
      DEF CompleteRun, AheadInv, Saving, AllResumable, Running, ExactInv
    <3>3. file.next = Total
      <4>1. Exact(file.results, file.next)
        BY <2>2 DEF ExactInv
      <4> QED BY <3>1, <3>2, <4>1, ExactCounted
    <3>4. /\ file'.status = "completed" /\ file' # NoFile
          /\ file'.next = file.next /\ file'.results = file.results
      <4>1. file \in File
        BY DEF TypeInv, TypeOK
      <4> QED BY <2>2, <4>1 DEF File, NoFile
    <3>5. Ledger!Close
      BY <2>2, <3>3, <3>4 DEF Ledger!Close
    <3> QED BY <3>5 DEF Ledger!Next
  <2> QED BY <1>7, <2>1, <2>2
          DEF CompleteRun, MarkCompleted, FullBatches, Accepting
<1> QED BY <1>2, <1>3, <1>4, <1>5, <1>6, <1>7, StepKinds

(* The checkpoint file implements the ledger where batches are full, the   *)
(* prompts are plain and the disk takes the writes: it is written batch by *)
(* batch, holds one result of every prompt it counts, and is closed only   *)
(* when it is full, through every pause, stop, deletion, crash and resume. *)
THEOREM LedgerImplemented ==
  ASSUME FullBatches
  PROVE  Spec => LedgerKept
<1>1. Init => Ledger!Init /\ AheadInv /\ ExactInv
  BY LedgerInit, AheadInit, ExactInit
<1>2. TypeInv /\ AllResumable /\ KeptInv /\ AheadInv /\ ExactInv /\ [Next]_vars
        => (AheadInv /\ ExactInv)'
  BY AheadNext, ExactNext DEF FullBatches
<1>3. TypeInv /\ AllResumable /\ KeptInv /\ AheadInv /\ ExactInv /\ [Next]_vars
        => [Ledger!Next]_(Ledger!vars)
  BY LedgerNext
<1> QED BY <1>1, <1>2, <1>3, KeptInvariant, PTL DEF Spec, LedgerKept, Ledger!Spec

=============================================================================
