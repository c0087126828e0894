# LMArena automation: TLA+ models and proofs

Formal models of the automation server in `src/`: a Python asyncio program that
opens up to twelve browser windows on an external chat arena, submits batches of
prompts in them, polls the answers, recovers windows that fail, and checkpoints
every run so that it can be resumed.

The models are written from the code. A step of a model is what one asyncio task
does between two awaits that matter; texts, page contents, logging and layout are
left out. `PROJECT.json` maps every definition to the lines it stands for and
lists the runs, the mutants that show each property can fail, the hazards, the
findings and the theorems.

## 1. Inventory

| Component | Source | State | Operations | Hard behaviour |
| --- | --- | --- | --- | --- |
| Run orchestrator | `src/src/orchestrator/run_orchestrator.py`, `session_rules.py` | current batch, completed results, cancelled and paused flags, workers, submit slots | start, resume, batch loop, worker pipelines, recovery, pause, resume, stop | handlers run between any two awaits of the loop; several pipelines at once; a crash loses all but the file |
| Checkpoint manager | `src/src/checkpoint/manager.py` | one JSON file per run | save (atomic replace), load, list, mark completed, delete | failed writes, stale files, three writers that compute the index differently |
| WebSocket handler | `src/src/transport/ws_handler.py` | orchestrators and tasks by run id | dispatch of the UI's messages | a run id reused while its run lives; stop awaits before it cancels |
| Worker | `src/src/workers/arena_worker.py` | state machine, context, last prompt, result, cancel flag | navigate, prepare, submit, poll, challenge handling, restart in a fresh window | retries of what may already be done; cancellation lost by a reset |
| State machine | `src/src/core/state_machine.py` | one state | transition, force_error, reset | refused transitions |
| Response poller | `src/src/workers/response_poller.py` | last texts, stable count, retries | poll | timeout against pause, stability threshold |
| Proxy pool | `src/src/proxy/pool.py` | entries with health, latency, cooldown | add, pick, mark, trim, refresh, maintain | checks on a copy while workers report |
| Browser manager | `src/src/browser/manager.py` | context groups per run, layout reservations, proxies | create, recreate, close, report | a lock that one operation does not take |
| Event bus, broadcaster, screenshots | `src/src/core/events.py`, `src/src/transport/ws_broadcaster.py`, `src/src/preview/` | subscriber sets | publish, broadcast | membership changes during a fan-out |
| Pure parts | `src/src/core/tiling.py`, `response_format.py`, exporters, xlsx source, models | none | computations | boundaries |

The WebSocket handler creates one orchestrator and one task per run and forwards
pause, resume and stop to it. The orchestrator asks the browser manager for
windows, creates a worker per window, and awaits the workers; a worker calls back
into the browser manager to recreate its window and to report its proxy, which
ends in the proxy pool. Everything publishes to the event bus, whose broadcaster
feeds the UI. The checkpoint file is the only state that survives the process.

What makes each part correct: a resumed run skips no prompt, loses no recorded
result and the loop ends (orchestrator, checkpoint); a stop ends exactly the run
it names (handler); a prompt is sent to a chat once and gets its own answer
(worker); an answer is stable when it is taken (poller); a proxy in cooldown is
not handed out (pool); every window belongs to a group that will be closed
(browser manager).

## 2. Modules

| Module | Models | Status |
| --- | --- | --- |
| `RunOrchestrator` | simultaneous mode of `execute_run`, its pipelines and handlers, the checkpoint file, crashes | done |
| `RunLedger` | abstract specification of the checkpoint | done |
| `MCRunOrchestrator` | instances for TLC: refinement, documented claims | done |
| `RunOrchestratorProofs` | TLAPS proofs: types, no skipped prompt | done |
| `RunLedgerProofs` | TLAPS proofs: results kept, the file keeps up, the refinement of `RunLedger` | done |
| `ProxyPool` | the pool, the windows' reports, background checks and refresh | done |
| `MCProxyPool` | instance for TLC, a documented claim | done |
| `ProxyPoolProofs` | TLAPS proofs | all its safety properties |
| `ArenaWorker` | one worker: state machine, navigation, challenges, submission, polling, restarts, stops | done |
| `MCArenaWorker` | instance for TLC, a documented claim | done |
| `ArenaWorkerProofs` | TLAPS proofs | all its safety properties |
| `ResponsePoller`, `MCResponsePoller` | one call of `poll()` against a generating page | done |
| `SubmitSlots` | the submit slots of the windows behind one proxy | done |
| `SequentialBatch`, `MCSequentialBatch` | a batch of the default, sequential mode, composed with `SubmitSlots` | done |
| `Tiling` | `compute_tile_positions` | done |
| `TilingProofs` | TLAPS proofs: the tiles for one count of windows are disjoint | done |
| `BrowserManager` | layout lock, groups, tiles, reservations, recreation | done |
| `Server`, `MCServer` | the handler's registry of runs, stops and close-all, composed with `BrowserManager` | done |
| `ResponsePollerProofs` | TLAPS proofs | all its safety properties |
| `SequentialBatchProofs` | TLAPS proofs, also of `SubmitSlots` | all its safety properties |
| `ServerProofs` | TLAPS proofs, also of `BrowserManager` | all its safety properties |

Composition is by EXTENDS: `SubmitSlots` and `BrowserManager` define the steps of
their callers, without a Next of their own; `SequentialBatch` and `Server` say who
calls, conjoin those steps with their own, and give the specification.

### RunOrchestrator

One run of `Total` batches in `Count` windows. Variables and what they stand for:

- `file`: the checkpoint, `[status, next, results]`, or `NoFile`. `starts` counts
  the executions (a bound, `MaxStarts`).
- `phase`, `batch`, `results`: the await at which `execute_run` is suspended and
  its local `batch_idx` and `all_window_results`; `current` and `completed` are
  `_current_batch_index` and `_completed_results`, which outlive the task.
- `cancelled`, `paused`: the flags of the orchestrator; `stop` and `flagged`: how
  far a stop_run message is (`cancel()` flags worker after worker and closes the
  windows, then the handler cancels the task).
- `lock`: the layout lock of the browser manager as this run sees it, which of its
  task ("run") and the stop ("stop") asked for it first. Opening the windows, and
  every closing of them, is a step of its holder. The lock's other users, runs and
  `recreate_context`, only delay; `BrowserManager` and `Server` have them.
- per window: `wstate` (its state machine, coarsened to what the orchestrator
  distinguishes), `wcancel` (its `_cancelled`), `nav` (its navigation task),
  `pipe` (where its pipeline is), `tries`, `ending`.

A result is the slot it belongs to (batch, window, turn) and the kind of its
ending; a list of results is, per slot, the kinds recorded for it in order, and
the list's length (which the code divides by the window count).

Actions follow the code: `StartRun`, `ResumeFromCheckpoint`, `OpenWindows`,
`AfterLaunch` up to the loop; `EnterBatch`, `PrepareBatch` (session reset and
navigation), `SpawnPipelines`, `BatchComplete` (gather, record, save) for a batch;
`PipeStart` .. `TurnFail` for a window's pipeline with its recovery;
`FinishCancelled`, `CompleteRun` and `CloseWindows` for the end; `Pause`, `Resume`,
`StopRun`, `FlagWorker`, `CloseForStop`, `CancelTask`, `DeleteCheckpoint` for the
handlers; `Crash` for the process. `Pause` and `StopRun` also reach a run that has ended, as the handler
keeps its orchestrator. One stop is in progress at a time.

What it leaves out: the submit-slot gap (timing only, see `SubmitSlots`),
the split of a prompt into prepare, submit and poll (one step that ends in an
answer or a failure), the live results shown to the UI, and exports.

### ProxyPool

`pool` maps the servers it holds to their entries (`_entries`); `cap`, `limit`
and `refreshing` are `_max_healthy`, `_max_latency_ms` and whether the refresh
task runs; `using` is the proxy of each window (`context_proxies` of the browser
manager). `round` is the maintenance round that holds `_lock`, by the await it is
suspended at: checking its copy of the entries, writing latencies back, loading
the spreadsheet, testing challengers. `owner` tells the refresh task, which a stop
cancels in mid-round, from a request, which nobody cancels.

Actions: `AddManual`, `AddTested`, `SetMaxHealthy`, `SetMaxLatency` for the HTTP
routes; `AssignFromPool`, `AssignElse`, `ReportSuccess`, `ReportFailure` for the
windows; `CooldownEnds` for time; `StartRound`, `ApplyChecks`, `LatenciesWritten`,
`LoadSource`, `TestChallengers`, `SetRefresh` for the refresh. Every addition and
round ends in the trim (`Trims`), which keeps any set of entries that the ranking
allows: the last component of the rank, the name, is left open. So are the
position of the round robin and which challengers a round tries
(`_challenger_recent_checks` only narrows the choice). Age is left open too: the
purge takes any unhealthy entry of the spreadsheet that was not just checked.

### ArenaWorker

One worker, in more detail than `RunOrchestrator` sees it. `state` is
`state_machine.state`, `flag` is `_cancelled` and `_cancel_event`, which are always
set together, and `at` is the await its methods are suspended at, or how the last
call ended: `ready` and `answered` are returns, `failed` a result without success,
`raised` an exception, `refused` an InvalidTransitionError, `cancelled` a
CancelledError. The methods call one another in tail position, so the rest of the
call stack is `route` (the method that opened the window), `caller` (what follows
it: a return to the orchestrator, prepare_prompt, or submit_prompt in a replay)
and `left`, the retries that are passed as arguments.

The page is external: `chat` says whether the requested models were chosen in it,
how often the current prompt reached it, and which earlier prompt it can still
show an answer of. A poll may end with any answer the page can show (`Shown`)
except that of the prompt whose texts are its `baseline`, which is all
`response_poller.py` compares; `result` is the prompt whose answer was taken.
`FollowUp` hands it on as the next baseline, and a recovery or restart may lose
the chat, the result or both in between. That the answer polled is that of the
prompt sent (`AnswerIsOfThisPrompt`) is therefore a matter of which chats can show
which answers when.
It may drop a click, and may look as if it had taken a prompt it dropped; it is
assumed never to show the prompt beside an enabled submit button once it has
taken it, which is what `_should_retry_submit` calls strong evidence. `mode` is
what follows the first prompt of a chat: the prompt after a system prompt, the
turns of a conversation, or the next batches of a session.

A stop (`Cancel`) may come at any await. The code looks at the flag before most
of its awaits and not after them, so a step may be finished by a worker that is
flagged, but in a state with an edge to CANCELLED only if the flag came after the
look (`Looked`). Pausing only delays steps and is left out, as are proxies.

`OutcomeMatchesState` is what `RunOrchestrator` takes for granted of its workers:
a navigation that returned leaves READY, an answer COMPLETE, a failed result
ERROR, unless a stop intervened.

### ResponsePoller

One call of `poll()` on two slides. A text is the number of its parts, so that a
growing answer has a text of its own at every length and 0 is the empty one; the
reasoning summary counts as empty, as in the code. `page` is the site's: a slide
waits (and shows the answer of the turn before, `old`), thinks, writes, finishes
or fails; while it writes its indicator may disappear for good. Everything else
is the call's: `prev`, `count` and `both` are `prev_text_*`, `stable_count_*` and
`stable_count`, `retries` and `partial` the retry clicks and what was emitted.
Time is counted in poll intervals up to the deadline (`left`), and runs on while
the run is paused. `same` and `hidden` are history for the properties: how many
reads in a row showed the same text, and which slides have hidden the indicator of
the answer they are writing. The slides are read in one evaluation of the page, so a read is atomic; the
stop button is looked for after it and may be gone or not yet there. `paused` is
the cleared `pause_event`: the loop waits (`Waits`) for as long as the run is
paused, also beyond the deadline, and looks at the deadline only between polls.

### SubmitSlots and SequentialBatch

`_await_submit_slot`: per group of windows (a proxy, or none) a lock with its
FIFO of waiters (`queue`) and the time until the next submission (`readyIn`).
Times are relative to now, so that `Tick` lowers them and no clock has to be
bounded. A slot is a grant. The click follows after further awaits, and a worker
that restarts on its own submits without a slot.

`SequentialBatch` is one batch of `execute_run` without `simultaneous_start`: the
system prompt window after window, the poll for it, the actual prompts window
after window, the poll, the recoveries of every failed window at once (`task`,
each of which takes a slot to submit), the results, and the turns of a
conversation. Its lists keep their names (`early` is `early_failures`, `sent` the
submitted list of the phase, `baseline` the keys of `ready_for_actual`). The call
that should poll the answers raises (section 5), so a batch gets past it only when
no window submitted anything; what the code would do with polled answers is
unreachable and left out. `Killed` is the end of the task by a stop. The branches
on `simultaneous_start` inside this path are dead code: the simultaneous mode
leaves the loop body before it.

### Tiling, BrowserManager and Server

`Tile(count, k)` is `compute_tile_positions(count)[k]`. `BrowserManager` keeps for
every window which of the tiles for which count it was given, and `TilesApart`
compares the rectangles, less the invisible border of a window.

`queue` is `_layout_lock`; `call` says at which await of `create_contexts` or
`close_contexts` a caller is, `groups` is `_groups` in its order, `dying` the group
that was popped and whose windows are being closed, `recreation` the
`recreate_context` a worker is in, which takes no lock. `Cut` cancels a caller
wherever it is. `lost` is history: a window is open that no group holds. `stale`
and `mixed` mark windows that the code knowingly or unknowingly places without
looking at the others (section 5).

`Server` adds the registry (`orch`, `task`), executions that are created, begin,
open windows, replace them, finish or raise, and the handler that stops one run,
or all of them for /api/close-all-windows. `begun` tells an execution that has made
its first step, which sets `_active_run_id`; a stop that comes before it closes the
default group instead of the run's. `swept` and `reused` are history.

## 3. Runs

| Run | Instance | Shows |
| --- | --- | --- |
| `orchestrator` | 2 windows, 3 full batches, sessions of 2, 2 executions | types; the file is up to date whenever a batch is over; the checkpoint implements `RunLedger` |
| `orchestrator_ends` | 2 windows, 2 batches, sessions of 1, 2 recovery attempts, fairness | a run that nobody pauses ends; a stop gets the layout lock and ends the run wherever it is |
| `orchestrator_partial` | 2 windows, a last batch of 1, writes may fail, 3 executions | no prompt is skipped; every index is resumable; recorded results are kept |
| `conversation` | 2 windows, 3 turns, writes may fail, fairness | the same for turns; the run ends |
| `stopped_batch` | 1 window, 2 batches | a disagreement with the documentation (section 5) |
| `pool` | 3 servers, 1 window, caps 1 and 2, 2 latencies and limits, MAX_FAIL_COUNT of 2, fairness | types; the cap; health, failures, latency and cooldown of an entry agree; a trim drops only worse entries; flagged entries are checked again |
| `worker` | 2 prompts in a chat, retry limit 2, 1 reset by the orchestrator, fairness | types; transitions are legal; outcomes match states; a prompt is sent to a chat once; the answer before is not taken for the next one's; nested retries run out |
| `poller` | 2 stable polls, 1 retry click, 8 intervals, answers of 2 parts, slides symmetric | an answer was stable for twice the configured reads, finished, and of this turn; the partial results agree with it |
| `sequential` | 2 windows, 2 proxies, gaps of 1 and 2, 2 later turns, 2 resets, fairness | slots keep the gap of their group; a failed window is recovered once; one result per window and turn; a batch ends |
| `sequential_polls` | the same | the default mode cannot poll (section 5) |
| `server` | 2 executions, 2 run ids, 4 requests, 2 monitors, 1 layout, fairness | windows do not overlap; a layout stays reserved; close-all leaves no group; stops get through the lock |
| `close_all` | the same | a window survives close-all (section 5) |

Bounds. Two windows are what a batch needs to have one pipeline done, failed or
cancelled while another is at work, and the pipelines touch each other only
through the gather. Three batches give a batch in the session of the one before
and one that starts a new session; two are enough for the partial last batch.
Three executions let a resumed run be interrupted and resumed again, with a file
written by each. `MaxStarts`, and nothing else, makes the state space finite. The
runs stop when the last execution is over, so deadlock is not checked.

In the pool, three servers over a cap of two are what a trim needs to choose
among entries in use, under check and new. One window reaches the entries two do:
it may be given another proxy at any time, and nothing in the pool tells windows
apart. Two failures show an entry that failed once and is still healthy. The pool
has no counter to bound: failures stop counting at the threshold, beyond which
the code does not tell them apart.

In the worker, a second prompt is the first one that finds an earlier answer and
models chosen before; a third adds nothing. A retry limit of two (the code has
five) lets each loop go round and give up, inside a restart of each other one.
`MaxResets` bounds the orchestrator's recoveries.

In the poller, two stable polls are the least that a single repeat does not
reach, two parts give a text that is still growing, and eight intervals are what a
slide takes that is published, fails and is written anew with another text before
the call returns. The page and the code treat the slides alike, and the run checks
invariants only, so they may be a symmetry set. In the sequential batch two windows
in one group contend for its slot, and two gaps let a group draw a longer gap than
the one before. In the server, two executions are one that holds the lock and one
that waits, with the handler as a third caller; both may use the same run id. The
requests are two windows among all others, the two parts of a layout, and one
window with its own total.

Fairness: weak fairness of the run's task, of the stop handler, of each
navigation and each pipeline. The event loop runs every ready task, and each await
of a worker has a timeout (`wait_for`, page timeouts, polling timeout), so none is
suspended for ever; nothing is assumed of users, of the disk or of crashes. A
paused run may wait for ever, and `RunEnds` excludes it; `StopEnds` does not need
to, as a stop lifts the pause. The stop handler's fairness alone does not get it
through: it closes windows as the holder of the lock, which the run may have asked
for first and has to release, also when its windows fail to open. That the other
users of the lock release it is what `HandlerReturns` of `Server` checks.

In the worker: weak fairness of its own steps together, not of the orchestrator's
calls. Each await of a method has a timeout or a deadline, after which it returns
or raises, and the wait for the submit slot, part of `prepared`, is bounded by the
gap. That it then ends is not fairness: the retries have to run out.

In the pool: weak fairness of the refresh task and of the awaits of a round, each
of which has a timeout (5 s per check) or is a local file access. `Rechecked` asks
for nothing but that the refresh stays on; windows, users and cooldowns are not
fair.

In the sequential batch: the loop, each recovery and the clock; a batch left paused
is excluded by `BatchEnds`. In the server: the handler, and of each execution its
first step, the creation and the closing of its windows and its done callback.
Playwright answers (launches and closes have timeouts); when a run finishes, a
worker replaces its window, and what users ask for, is left open.

## 4. Proofs

Every safety invariant and safety action property of the passing runs is a
theorem; what liveness says is checked by TLC. A theorem holds for every value
of the constants that satisfies the ASSUME of the module (`RunAssumption`,
`PoolAssumption`, ...), which say no more than the types of the constants and what
the configuration models of the code enforce; further hypotheses are named below.
Each inductive invariant was model-checked before it was proved.

`RunOrchestratorProofs`:

- `TypeCorrect`: `Spec => []TypeOK`. `TypeOK` is not inductive alone; `TypeInv`
  adds that a pipeline at work has retries left, that one between turns has a turn
  left, and that the loop body runs on an existing batch.
- `NothingSkipped`: `Spec => []NoPromptSkipped`, the file covers the batches a
  resumption skips. The strengthening `AllResumable` (`IndexesSound`) says it of
  every list an index is ever computed from: the results of the loop at `batch`,
  the completed results at `current`, the results of a cancelled run and the file.
  Its second half, that counting results in batches of `Count` does not overshoot
  the batch index, is what makes the division in `_save_pause_checkpoint` and
  `_finish_cancelled` safe: a full batch adds exactly one to the quotient
  (`DivStep`), the last one at most one, and a conversation has one batch.

`RunLedgerProofs`, about the file across executions:

- `ResultsKept`: `Spec => RecordedKept`, with failing writes and partial batches.
  `KeptInv` says that as long as the orchestrator may still save, its completed
  results extend those of the file (which an earlier write may have left behind),
  and that a cancelled run ends with nothing else.
- `CheckpointKeepsUp`: `CheckpointUpToDate` where no write fails and the last batch
  is full. Both hypotheses are needed. A failed write leaves the file behind, and
  an index computed by a pause from the number of results misses a partial batch
  (section 5, 4). `AheadInv` says that every list is long enough for the index it
  would be saved with, and that file and object agree.
- `LedgerImplemented`: `Spec => LedgerKept`, the refinement of `RunLedger`, where
  also a prompt has one turn: that computed index counts the turns of a
  conversation as batches. `ExactInv` says that each list holds one result of every
  prompt of the batches it counts, and no other, so that the index a pause or a
  cancelled run computes is the batch it is at. The steps are sorted into a few
  kinds by what they do to file, loop and flag (`StepKinds`); each kind is then
  mapped to a step of the ledger or a stutter.

`ProxyPoolProofs`:

- `TypeCorrect`, `CapKept`, `EntriesCoherent` (`FailuresMatch` and
  `LatencyIsOfHealthy`) and `LatencyOfHealthy`. The inductive invariant `PoolInv`
  is their conjunction, with the coherence of an entry as one predicate
  (`Coherent`) so that the lemmas about merging, restricting and trimming speak of
  any pool, not of the variable.
- `WorseDroppedOnly`: the action property `OnlyWorseDropped`. A trim keeps no
  entry that a dropped one outranks, so everything kept is healthy and as fast;
  the lemma is lifted to the purge and to `add_proxies`, and to each action that
  ends in one of them.

`ArenaWorkerProofs`: `TypeCorrect`, `TransitionsLegal`, `OutcomesAgree`,
`NoDuplicateSend` and `AnswersFresh`, all the invariants of the run `worker`. The
inductive invariant `WorkerInv` says where the worker's state can be at each await
(`Placed`), that a step which uses a retry has one (`Counted`), and that the chat
has not got the prompt at any await up to the click (`Unsent`), which is why a
click can follow another only in a chat that dropped the first. For the answers,
`Compared` says that a new window shows none, and that a chat whose next prompt is
polled with a baseline shows no earlier answer but the baseline's: the one result
the follow-up took it from.

`ResponsePollerProofs`: `TypeCorrect`, `ReturnedStable`, `ReturnedFinished` and
`PartialAgrees`, for any number of slides (the code has two). `PollInv` relates the
code's counts to what was really on the page: `same`, the reads in a row, is one
more than a slide's count and goes on with the count of both (`CountsAreReads`); a
page that never hid an indicator shows one while it generates (`Honest`); and what
was published stays the finished answer until a failure withdraws it
(`PublishedIsFinished`), which is what links a partial result to the final one.

`SequentialBatchProofs`: `TypeCorrect`, `GapsKept`, `OneRecoveryEach` and
`OneResultRecorded`, for any number of windows, groups, gaps and turns. `SlotInv`
says that the queue of a group is exactly who waits for its lock (`QueuesFit`) and
that neither a new holder nor the sleeping one can be through before the gap drawn
last is over (`GapAhead`), since the gap is measured from the grant and not from
the request. `BatchInv` says for each loop which windows have been sent a prompt
or have failed by the window the loop is at (`Sorted`); four places fill
`early_failures`, and each is safe for a different one of these reasons.

`TilingProofs`: `TilesDisjoint`, any two of the tiles for one count of windows
show nothing of each other. On one monitor (`SameMonitor`) the cells differ in
their row or column, and a cell grows over its neighbour by no more than the
invisible border, whatever the size of the window. On two monitors each tile stays
inside its own (`Inside`), which needs two hypotheses: `MonitorsApart`, no pixel is
on two monitors, and `HasRoom`, no monitor is so crowded that the smallest window
(400 by 300) exceeds its share, for then the code lets windows reach into the next
monitor. The lemmas before them are what CHOOSE and division need: that there is a
number of columns (`ColumnsOf`) and a monitor for every window (`OnSomeMonitor`),
both by a least counterexample (`LeastOf`), which takes the place of induction.

`ServerProofs`, for any number of executions, run ids, layouts and monitors and
any requests: `TypeCorrect`, `LayoutReserved`, `AllWindowsClosed` and
`WindowsApart`. `ManagerInv` says that
whoever is in a call is in the queue of the lock once, that only the head is past
the wait, and that a run has one group, none while the group it replaces is
closed; so a layout is freed only when its last group is gone. For close-all,
`Registered` says that the registry names every execution that may still act,
unless a live run id was used again, and `Sweep` that a close-all which no start
interrupted has every live run among those it still stops, no live run once it
lists the groups, and every group among those it still closes. An execution that
waits for the lock or launches is alive, so the cancellation of its task, which
`Cut` takes out of the queue, is what keeps it from opening a window later.

`TilesApart` looks only at windows that are open, and is not inductive: a window
launched next may be anywhere. `WindowInv` speaks of the tiles that are due
(`Due`), all those of a group its caller is still launching and those of the open
windows of any other. They are tiles for one count, and no two the same
(`Spread`); the windows of the layout that was placed last are where their
requests put them behind its reservation, all others before it (`InLayout`). A
retiling numbers only open windows, which is enough because it is done under the
lock, where no other group has windows to come (`Owners`); a window that is
numbered is counted by the cardinality of the entries before it (`WindowNumbers`).
`Totals` keeps a reservation as large as its members were told.
`WindowsApart` assumes `MonitorsApart` and concludes `Roomy => TilesApart`, where
`Roomy` is `HasRoom` for the counts in use; `OneMonitorApart` needs neither. The
requests are those the dashboard sends (`LayoutAssumption`): members of a layout
know one total and have offsets of their own (`startInstructionSequence` in
`src/static/app.js`). `MonitorsApart` and `Roomy` hold in every state of the run
`server`, where two monitors share up to four windows.

Model-checked only:

- liveness (`RunEnds`, `StopEnds`, `WorkEnds`, `Rechecked`,
  `BatchEnds`, `HandlerReturns`): no prover here for fairness and ENABLED.

## 5. Disagreements with the documentation

1. `stopped_batch`: a batch interrupted by a stop may be checkpointed as done.
   The stop flags the workers and closes the windows first; their pipelines end
   with cancellations, the loop records them and saves `next_batch_index` past the
   batch, and only then is the task cancelled. `src/README.md` promises to resume
   from the exact batch where the run stopped.
2. `sequential_polls`: without `simultaneous_start`, which is the default of a
   request, `execute_run` calls `_poll_worker_for_batch` (lines 903 and 1144)
   without its required `response_format`. The TypeError leaves `execute_run` as
   soon as one prompt of a batch was submitted, with no RUN_COMPLETE and with the
   windows open. `src/README.md` describes this mode first.
3. `close_all`: a worker that replaces its window (`recreate_context`, no lock)
   while `/api/close-all-windows` closes its group gets the new window after the
   group is gone; nobody holds it and it stays open. The route documents that
   every open window is closed. `Cut` in the middle of closing a group has the same
   effect for the windows not closed yet.

The following are stated in the MC modules and have no run of their own; each is
found by replacing the properties of the configuration named.

4. `RecordedBatchIsSkipped` (`orchestrator_partial.cfg`): with a partial last batch
   the division of the result count misses it, so a checkpoint written by a pause
   (or a stop) after it points back at it while it holds its results; a resumption
   submits its prompts again and the results appear twice.
5. `RecoveryIsForFailedWorkers` (`orchestrator_ends.cfg`, as a PROPERTY, with
   `MaxStarts` of 2): a run resumed at the first batch of a session navigates its
   windows twice; the second navigation is refused by READY workers, and every
   healthy window is discarded by the recovery meant for failed ones.
6. `CooldownKept` (`pool.cfg`): a proxy that a window flags while its health check
   is in flight is put back by the result of the check. `pool.py` documents
   `mark_problematic` as keeping it out of rotation for a cooldown. (A cooling
   entry that a trim removes forgets its cooldown too, see the hazards.)
7. `ModelsChosen` (`worker.cfg`): a restart during a follow-up prompt replays it in
   a fresh window with the models of that prompt's own call, which are none. The
   rule of `session_rules.py` that models are chosen once per session assumes a
   window that lasts as long.

Where a property carries a condition, the case it excludes is one the code does
not handle: `reused` in `CloseAllClears` (a run id started again while its run is
live: the older execution cannot be stopped any more), `stale` in `TilesApart` (a
window recreated while all are retiled lands on the old tile), `mixed` (another
run opened between two members of a layout, or a run with its own total_windows
while other windows are open), `hidden` in the poller's properties (an indicator
that goes out before the answer is complete), `baseline = old` (the batches of a
session drop the baseline, so the previous answer can be taken for the new one).

## 6. Not modelled

The UI's JavaScript and templates, HTTP routes that only read, page automation
(selectors, human-like input, stealth, challenge detection), exporters, schemas
and exceptions hold no protocol of their own. The event bus and the broadcaster
copy their lists before they await, and no step of a run depends on who gets an
event; the screenshot service only shows pictures. Of the modelled parts, the
live results, exports, launch arguments, zoom, profile directories and cookies are
left out.
