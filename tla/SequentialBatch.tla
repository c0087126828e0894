---------------------------- MODULE SequentialBatch ----------------------------
(***************************************************************************)
(* A batch of RunOrchestrator.execute_run without simultaneous_start       *)
(* (src/src/orchestrator/run_orchestrator.py, the default of a run): the   *)
(* system prompt and the prompts go to the windows one after the other,    *)
(* the answers are polled together, the windows that failed are recovered  *)
(* together and take submit slots for it, and the turns of a conversation  *)
(* follow.  A run pauses and stops at any await.                           *)
(*                                                                         *)
(* Where a prompt was submitted the code does not get to polling: it calls *)
(* _poll_worker_for_batch without its required response_format, and the    *)
(* TypeError ends the run.  The steps after that call which no execution   *)
(* reaches are left out.                                                   *)
(***************************************************************************)
EXTENDS SubmitSlots, FiniteSets, FiniteSetsExt

CONSTANTS
  Width,      \* windows used by the batch: workers_in_batch
  LastTurn,   \* turns after the first prompt
  MaxResets   \* CHALLENGE_RETRY_LIMIT

ASSUME BatchAssumption ==
  /\ Width \in Nat \ {0}
  /\ LastTurn \in Nat
  /\ MaxResets \in Nat \ {0}
  /\ Callers = 1..Width

Windows == 1..Width
Turns == 0..LastTurn

VARIABLES
  system,     \* the batch sends a system prompt (batch_system_prompt)
  phase,      \* where execute_run is, or how it ended
  at,         \* the window its loop is at
  ready,      \* windows whose worker is READY
  sent,       \* submitted_system, submitted or turn_submitted
  baseline,   \* windows in ready_for_actual
  early,      \* early_failures
  task,       \* per entry of early_failures: its recovery
  surviving,  \* windows that go on with the conversation
  turn,       \* turn_idx, 0 for the prompt itself
  results,    \* how many results of a window and a turn are recorded
  answered,   \* windows whose prompt was answered
  paused,
  cancelled

lists == <<sent, baseline, early, surviving, results, answered>>
batch == <<phase, at, ready, lists, task, turn>>
vars == <<system, batch, paused, cancelled, slots>>

Ends == {"complete", "raised", "stopped", "killed"}

Idle == [step |-> "none", part |-> "actual", resets |-> 0]

TypeOK ==
  /\ SlotTypeOK
  /\ system \in BOOLEAN
  /\ phase \in {"system", "poll_system", "collect", "submit", "poll", "recover",
                "prepare_turn", "submit_turn"} \cup Ends
  /\ at \in 1..(Width + 1)
  /\ ready \subseteq Windows
  /\ sent \subseteq Windows
  /\ baseline \subseteq Windows
  /\ early \in Seq(Windows)
  /\ task \in [Callers -> [step   : {"none", "reset", "prepare", "slot",
                                     "submit", "poll", "done"},
                           part   : {"system", "actual"},
                           resets : 0..MaxResets]]
  /\ surviving \subseteq Windows
  /\ turn \in 0..(LastTurn + 1)
  /\ results \in [Windows -> [Turns -> Nat]]
  /\ answered \subseteq Windows
  /\ paused \in BOOLEAN /\ cancelled \in BOOLEAN

-----------------------------------------------------------------------------
(* The loops over the windows                                              *)

(* _wait_if_paused, then the check of _cancelled.                          *)
Awake == ~paused /\ ~cancelled

Goto(p) == phase' = p /\ at' = 1

(* The gap between two windows is slept before the next one.               *)
NextWindow(then) ==
  IF at < Width THEN at' = at + 1 /\ UNCHANGED phase ELSE Goto(then)

BreakCancelled ==
  /\ phase \in {"system", "poll_system", "submit", "poll"}
  /\ cancelled
  /\ phase' = "stopped"
  /\ UNCHANGED <<at, ready, lists, task, turn, slots>>

SystemFails ==
  /\ early' = Append(early, at)
  /\ ready' = ready \ {at}
  /\ UNCHANGED sent

SystemSent ==
  /\ at \in ready
  /\ sent' = sent \cup {at}
  /\ ready' = ready \ {at}
  /\ UNCHANGED early

SendSystemPrompt ==
  /\ phase = "system" /\ Awake
  /\ SystemFails \/ SystemSent
  /\ NextWindow("poll_system")
  /\ UNCHANGED <<baseline, surviving, results, answered, task, turn, slots>>

(* gather over poll_for_completion; the answers are looked at one by one.  *)
PollSystemPrompts ==
  /\ phase = "poll_system" /\ Awake
  /\ Goto("collect")
  /\ UNCHANGED <<ready, lists, task, turn, slots>>

(* The answer failed, the follow-up composer did not come, or the window   *)
(* is ready for the actual prompt with the answer as its baseline.         *)
CollectSystemAnswer ==
  /\ phase = "collect" /\ ~paused
  /\ IF at \in sent
     THEN \/ /\ early' = Append(early, at)
             /\ UNCHANGED <<baseline, ready>>
          \/ /\ baseline' = baseline \cup {at}
             /\ ready' = ready \cup {at}
             /\ UNCHANGED early
     ELSE UNCHANGED <<early, baseline, ready>>
  /\ NextWindow("submit")
  /\ sent' = IF at < Width THEN sent ELSE {}
  /\ UNCHANGED <<surviving, results, answered, task, turn, slots>>

MutSkips(w) == FALSE  \* no look at ready_for_actual

Skips(w) == system /\ w \notin baseline

SubmitPrompt ==
  /\ phase = "submit" /\ Awake
  /\ IF Skips(at)
     THEN UNCHANGED <<early, sent, ready>>
     ELSE \/ /\ early' = Append(early, at)
             /\ ready' = ready \ {at}
             /\ UNCHANGED sent
          \/ /\ at \in ready
             /\ sent' = sent \cup {at}
             /\ ready' = ready \ {at}
             /\ UNCHANGED early
  /\ NextWindow("poll")
  /\ UNCHANGED <<baseline, surviving, results, answered, task, turn, slots>>

(* The call without response_format.                                       *)
PollRaises ==
  /\ phase = "poll" /\ ~paused /\ sent # {}
  /\ Goto("raised")
  /\ UNCHANGED <<ready, lists, task, turn, slots>>

PollNobody ==
  /\ phase = "poll" /\ Awake /\ sent = {}
  /\ Goto("recover")
  /\ task' = [c \in Callers |->
                IF c \in DOMAIN early THEN [Idle EXCEPT !.step = "reset"] ELSE Idle]
  /\ UNCHANGED <<ready, lists, turn, slots>>

-----------------------------------------------------------------------------
(* _attempt_recovery, one task per entry of early_failures                 *)

Recovering(c, step) == phase = "recover" /\ task[c].step = step

Step(c, step) == task' = [task EXCEPT ![c].step = step]

Unrecorded == <<phase, at, ready, sent, baseline, early, surviving, results, turn>>

RecoveryFails(c) == Step(c, "done") /\ UNCHANGED answered

(* A stop flags the workers one after the other, and a reset clears the    *)
(* flag of its worker again: what a recovery has begun with its worker may *)
(* go on and succeed although the run is cancelled, until the orchestrator *)
(* looks at _cancelled before the next attempt and in the slot.            *)

(* reset_with_fresh_context, again while attempts are left.                *)
MutResetAgain(c) == TRUE

ResetAgain(c) == task[c].resets + 1 < MaxResets

ResetWindow(c) ==
  /\ Recovering(c, "reset") /\ ~paused
  /\ \/ task' = [task EXCEPT ![c] =
                   [step |-> "prepare", resets |-> @.resets,
                    part |-> IF system THEN "system" ELSE "actual"]]
     \/ /\ ResetAgain(c) /\ ~cancelled
        /\ task' = [task EXCEPT ![c].resets = @ + 1]
     \/ ~ResetAgain(c) /\ Step(c, "done")
  /\ UNCHANGED <<Unrecorded, answered, slots>>

(* prepare_prompt, then the submit slot of the proxy the fresh window got. *)
PreparePrompt(c) ==
  /\ Recovering(c, "prepare") /\ ~paused
  /\ \/ \E g \in Groups : AskSlot(c, g) /\ Step(c, "slot") /\ UNCHANGED answered
     \/ RecoveryFails(c) /\ UNCHANGED slots
  /\ UNCHANGED Unrecorded

HoldSlot(c) ==
  /\ Recovering(c, "slot") /\ Awake
  /\ ReadSlot(c)
  /\ UNCHANGED <<Unrecorded, task, answered>>

GetSlot(c) ==
  /\ Recovering(c, "slot") /\ ~paused
  /\ IF cancelled THEN SkipSlot(c) ELSE TakeSlot(c)
  /\ Step(c, "submit")
  /\ UNCHANGED <<Unrecorded, answered>>

SubmitReplay(c) ==
  /\ Recovering(c, "submit") /\ ~paused
  /\ \/ Step(c, "poll") /\ UNCHANGED answered
     \/ RecoveryFails(c)
  /\ UNCHANGED <<Unrecorded, slots>>

PollReplay(c) ==
  /\ Recovering(c, "poll") /\ ~paused
  /\ \/ RecoveryFails(c)
     \/ /\ task[c].part = "system"
        /\ task' = [task EXCEPT ![c].step = "prepare", ![c].part = "actual"]
        /\ UNCHANGED answered
     \/ /\ task[c].part = "actual"
        /\ Step(c, "done")
        /\ answered' = answered \cup {early[c]}
  /\ UNCHANGED <<Unrecorded, slots>>

(* A cancelled recovery returns a failed result before its next attempt,   *)
(* or its window refuses to go on.                                         *)
RecoveryCancelled(c) ==
  /\ cancelled
  /\ Recovering(c, "reset") \/ Recovering(c, "prepare")
  /\ RecoveryFails(c)
  /\ UNCHANGED <<Unrecorded, slots>>

Record(res, ws, t) ==
  [w \in Windows |-> IF w \in ws THEN [res[w] EXCEPT ![t] = @ + 1] ELSE res[w]]

(* Every recovery has its result; the windows with an answer go on.        *)
RecordResults ==
  /\ phase = "recover"
  /\ \A c \in DOMAIN early : task[c].step = "done"
  /\ results' =
       [w \in Windows |->
          [results[w] EXCEPT ![0] =
             @ + Cardinality({c \in DOMAIN early : early[c] = w})]]
  /\ task' = [c \in Callers |-> Idle]
  /\ IF LastTurn > 0 /\ ~cancelled /\ answered # {}
     THEN /\ phase' = "prepare_turn"
          /\ surviving' = answered /\ turn' = 1
     ELSE phase' = "complete" /\ UNCHANGED <<surviving, turn>>
  /\ UNCHANGED <<at, ready, sent, baseline, early, answered, slots>>

-----------------------------------------------------------------------------
(* The turns of a conversation                                             *)

(* prepare_for_followup_prompt for every surviving window.                 *)
PrepareTurn ==
  /\ phase = "prepare_turn"
  /\ \E failed \in SUBSET surviving :
       /\ surviving' = surviving \ failed
       /\ results' = Record(results, failed, turn)
       /\ ready' = surviving \ failed
  /\ IF surviving' = {} \/ cancelled
     THEN phase' = "complete" ELSE phase' = "submit_turn"
  /\ at' = 1
  /\ UNCHANGED <<sent, baseline, early, answered, task, turn, slots>>

(* A window that failed stays among the surviving.                         *)
MutSubmitTurn ==
  /\ phase = "submit_turn" /\ Awake /\ at <= Width
  /\ IF at \in surviving
     THEN \/ sent' = sent \cup {at} /\ UNCHANGED results
          \/ results' = Record(results, {at}, turn) /\ UNCHANGED sent
     ELSE UNCHANGED <<sent, results>>
  /\ at' = at + 1
  /\ UNCHANGED <<phase, ready, surviving, baseline, early, answered, task, turn,
                 slots>>

SubmitTurn ==
  /\ phase = "submit_turn" /\ Awake /\ at <= Width
  /\ IF at \in surviving
     THEN \/ sent' = sent \cup {at} /\ UNCHANGED <<surviving, results>>
          \/ /\ surviving' = surviving \ {at}
             /\ results' = Record(results, {at}, turn)
             /\ UNCHANGED sent
     ELSE UNCHANGED <<sent, surviving, results>>
  /\ at' = at + 1
  /\ UNCHANGED <<phase, ready, baseline, early, answered, task, turn, slots>>

(* Nobody was sent the turn, or the run is cancelled: what is left of the  *)
(* conversation is recorded as skipped.                                    *)
Left == (IF sent = {} THEN turn ELSE turn + 1)..LastTurn

SkipTurns ==
  /\ phase = "submit_turn"
  /\ cancelled \/ (at > Width /\ sent = {})
  /\ results' =
       [w \in Windows |->
          IF w \in surviving
          THEN [t \in Turns |-> results[w][t] + (IF t \in Left THEN 1 ELSE 0)]
          ELSE results[w]]
  /\ Goto("complete")
  /\ UNCHANGED <<ready, sent, baseline, early, surviving, answered, task, turn,
                 slots>>

(* The other call without response_format.                                 *)
PollTurnRaises ==
  /\ phase = "submit_turn" /\ ~cancelled /\ at > Width /\ sent # {}
  /\ Goto("raised")
  /\ UNCHANGED <<ready, lists, task, turn, slots>>

-----------------------------------------------------------------------------
(* The user                                                                *)

Running == phase \notin Ends

Pause ==
  /\ ~cancelled /\ ~paused
  /\ paused' = TRUE /\ UNCHANGED cancelled

Resume == paused /\ paused' = FALSE /\ UNCHANGED cancelled

(* cancel(): flags the run and its workers and lets a paused run go on.    *)
StopRun == ~cancelled /\ cancelled' = TRUE /\ paused' = FALSE

User ==
  /\ Running
  /\ Pause \/ Resume \/ StopRun
  /\ UNCHANGED <<system, batch, slots>>

(* The stop gets to the worker that is being waited for, or to the task.   *)
Killed ==
  /\ Running /\ cancelled
  /\ phase' = "killed"
  /\ UNCHANGED <<at, ready, lists, task, turn, slots>>

-----------------------------------------------------------------------------
Init ==
  /\ SlotInit
  /\ system \in BOOLEAN
  /\ phase = (IF system THEN "system" ELSE "submit")
  /\ at = 1
  /\ ready \in SUBSET Windows
  /\ sent = {} /\ baseline = {} /\ early = <<>>
  /\ task = [c \in Callers |-> Idle]
  /\ surviving = {} /\ turn = 0
  /\ results = [w \in Windows |-> [t \in Turns |-> 0]]
  /\ answered = {}
  /\ paused = FALSE /\ cancelled = FALSE

Recovery(c) ==
  \/ ResetWindow(c) \/ PreparePrompt(c) \/ HoldSlot(c) \/ GetSlot(c)
  \/ SubmitReplay(c) \/ PollReplay(c) \/ RecoveryCancelled(c)

Batch ==
  /\ \/ BreakCancelled \/ SendSystemPrompt \/ PollSystemPrompts
     \/ CollectSystemAnswer \/ SubmitPrompt \/ PollRaises \/ PollNobody
     \/ RecordResults \/ PrepareTurn \/ SubmitTurn \/ SkipTurns \/ PollTurnRaises
  /\ UNCHANGED <<system, paused, cancelled>>

Recoveries ==
  /\ \E c \in Callers : Recovery(c)
  /\ UNCHANGED <<system, paused, cancelled>>

Clock == Tick /\ UNCHANGED <<system, batch, paused, cancelled>>

Stopped == Killed /\ UNCHANGED <<system, paused, cancelled>>

Next == Batch \/ Recoveries \/ Clock \/ Stopped \/ User

(* The event loop runs every task that can go on, and time passes.         *)
Spec ==
  /\ Init /\ [][Next]_vars
  /\ WF_vars(Batch) /\ WF_vars(Clock)
  /\ \A c \in Callers :
       WF_vars(Recovery(c) /\ UNCHANGED <<system, paused, cancelled>>)

-----------------------------------------------------------------------------
(* Properties                                                              *)

(* Two recoveries never run on one window, and none on a window whose      *)
(* prompt was submitted: the lists that execute_run fills in four places   *)
(* put a window in one of them, once.                                      *)
FailedOnce ==
  /\ \A i, j \in DOMAIN early : early[i] = early[j] => i = j
  /\ phase \in {"submit", "poll"} => \A i \in DOMAIN early : early[i] \notin sent

(* A batch that ends although nobody stopped it has one result of every    *)
(* window for its prompt, and at most one for each later turn.             *)
OneResultEach ==
  phase = "complete" =>
    \A w \in Windows :
      /\ results[w][0] = 1
      /\ \A t \in Turns : results[w][t] <= 1

(* A batch that is not left paused ends, with its recoveries waiting for   *)
(* each other's submit slots and its user pausing and stopping it.         *)
BatchEnds == <>[]~paused => <>(phase \in Ends)
=============================================================================
