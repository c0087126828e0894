----------------------------- MODULE ArenaWorker -----------------------------
(***************************************************************************)
(* One browser worker (src/src/workers/arena_worker.py): the states it     *)
(* reports (src/src/core/state_machine.py) and the awaits its methods are  *)
(* suspended at, through navigation, challenges, the submission of a       *)
(* prompt, polling, and the restarts that each of them may begin.          *)
(*                                                                         *)
(* The methods call each other in tail position, so what the call stack    *)
(* still has to do is a few values: which method opened the window, what   *)
(* comes after it, and the retries left.  The Arena page is external: it   *)
(* loads or not, challenges, drops a click, answers or not.  Pausing and   *)
(* the choice of proxies are left out (RunOrchestrator and ProxyPool).     *)
(***************************************************************************)
EXTENDS Naturals

CONSTANTS
  RetryLimit,  \* CHALLENGE_RETRY_LIMIT
  Prompts,     \* prompts sent to one chat, one after the other
  MaxResets    \* bound: how often the orchestrator resets a failed worker

ASSUME WorkerAssumption ==
  /\ RetryLimit \in Nat \ {0}
  /\ Prompts \in Nat \ {0}
  /\ MaxResets \in Nat

WorkerState ==
  {"IDLE", "LAUNCHING", "NAVIGATING", "WAITING_FOR_CHALLENGE", "READY",
   "SELECTING_MODEL", "PASTING", "PREPARED", "SUBMITTING", "POLLING",
   "COMPLETE", "ERROR", "CANCELLED"}

(* TRANSITION_TABLE                                                        *)
Allowed ==
  [s \in WorkerState |->
     CASE s = "IDLE"       -> {"LAUNCHING", "CANCELLED"}
       [] s = "LAUNCHING"  -> {"NAVIGATING", "ERROR"}
       [] s = "NAVIGATING" -> {"WAITING_FOR_CHALLENGE", "READY", "ERROR"}
       [] s = "WAITING_FOR_CHALLENGE"
                           -> {"NAVIGATING", "READY", "ERROR", "CANCELLED"}
       [] s = "READY"      -> {"SELECTING_MODEL", "PASTING", "ERROR", "CANCELLED"}
       [] s = "SELECTING_MODEL" -> {"PASTING", "ERROR", "CANCELLED"}
       [] s = "PASTING"    -> {"PREPARED", "SUBMITTING", "ERROR", "CANCELLED"}
       [] s = "PREPARED"   -> {"SUBMITTING", "ERROR", "CANCELLED"}
       [] s = "SUBMITTING" -> {"WAITING_FOR_CHALLENGE", "POLLING", "ERROR", "CANCELLED"}
       [] s = "POLLING"    -> {"WAITING_FOR_CHALLENGE", "COMPLETE", "ERROR", "CANCELLED"}
       [] s = "COMPLETE"   -> {"IDLE", "READY"}
       [] s \in {"ERROR", "CANCELLED"} -> {"IDLE"}]

Terminal == {"COMPLETE", "ERROR", "CANCELLED"}

(* The awaits of the worker's methods, and how the last call ended.        *)
Opening == {"launching", "goto", "settling", "reopening", "replacing",
            "erroring", "resetting", "refreshing"}
Prompting == {"preparing", "selecting", "pasting", "typing", "prepared",
              "clicking", "accepting", "starting", "polling"}
InFlight == Opening \cup Prompting
Outcome == {"ready", "answered", "failed", "raised", "refused", "cancelled"}

VARIABLES
  state,   \* state_machine.state
  at,      \* the await the worker is suspended at, or its outcome
  flag,    \* _cancelled and _cancel_event
  asked,   \* cancel() has been called
  mode,    \* what follows the first prompt of the chat
  prompt,  \* number of the prompt in the chat
  chat,    \* the page of the current window
  result,  \* _result: the prompt whose answer it holds, 0: no answer
  baseline,\* baseline_responses: the prompt whose answer is no answer, or 0
  route,   \* which method opened the window
  caller,  \* what comes after it
  left,    \* retries left
  resets   \* calls of reset_with_fresh_context by the orchestrator

orchestrated == <<asked, mode, prompt, baseline, resets>>
vars == <<state, at, flag, orchestrated, chat, result, route, caller, left>>

(* The arguments that the methods count down.                              *)
Retries ==
  [goto : 0..3, challenge : 0..RetryLimit, prepare : 0..RetryLimit,
   submit : 0..RetryLimit, click : 0..3, poll : 0..RetryLimit, timeout : 0..1]

(* models: the requested models are chosen; sent: how often the prompt was *)
(* sent to this chat; earlier: the prompt whose answer it showed before.   *)
NewChat == [models |-> FALSE, sent |-> 0, earlier |-> 0]

(* mode: a user prompt after a system prompt, the turns of a conversation, *)
(* or the batches of a session.                                            *)
TypeOK ==
  /\ state \in WorkerState
  /\ at \in InFlight \cup Outcome \cup {"fresh"}
  /\ flag \in BOOLEAN
  /\ asked \in BOOLEAN
  /\ mode \in {"system", "turns", "batches"}
  /\ prompt \in 1..Prompts
  /\ chat \in [models : BOOLEAN, sent : Nat, earlier : 0..Prompts]
  /\ result \in 0..Prompts
  /\ baseline \in 0..Prompts
  /\ route \in {"navigate", "challenge", "poll"}
  /\ caller \in {"navigate", "prepare", "replay"}
  /\ left \in Retries
  /\ resets \in 0..MaxResets

-----------------------------------------------------------------------------
(* Transitions, errors, stops                                              *)

(* transition: an edge the table lacks raises InvalidTransitionError.      *)
Move(to, next) ==
  IF to \in Allowed[state]
    THEN state' = to /\ at' = next
    ELSE at' = "refused" /\ UNCHANGED state

(* An exception nobody handles leaves the state as it is.                  *)
Raise == at' = "raised" /\ UNCHANGED state

ForcedError == IF state \in Terminal THEN state ELSE "ERROR"

(* Mutant: cancel() forces the state.                                      *)
MutCancel ==
  /\ ~asked
  /\ asked' = TRUE
  /\ flag' = TRUE
  /\ state' = "CANCELLED"
  /\ UNCHANGED <<at, mode, prompt, baseline, resets, chat, result, route,
                 caller, left>>

(* cancel(), from the orchestrator, at any await of the worker.            *)
Cancel ==
  /\ ~asked
  /\ asked' = TRUE
  /\ flag' = TRUE
  /\ state' = IF state \notin Terminal /\ "CANCELLED" \in Allowed[state]
                THEN "CANCELLED" ELSE state
  /\ UNCHANGED <<at, mode, prompt, baseline, resets, chat, result, route,
                 caller, left>>

(* _ensure_active and the poller raise CancelledError.  Typing, the two    *)
(* publications of a reset and the recreation of a window do not look.     *)
NoticeStop ==
  /\ at \in InFlight \ {"typing", "erroring", "resetting", "refreshing", "replacing"}
  /\ flag
  /\ at' = "cancelled"
  /\ UNCHANGED <<state, flag, orchestrated, chat, result, route, caller, left>>

(* The handler of a stop request cancels the task after cancel().          *)
TaskCancel ==
  /\ asked /\ at \in InFlight
  /\ at' = "cancelled"
  /\ UNCHANGED <<state, flag, orchestrated, chat, result, route, caller, left>>

(* A method that looks at the flag and goes on has seen none; a stop after *)
(* that look has moved the state to CANCELLED, where there is such an edge.*)
Looked == ~flag \/ state = "CANCELLED"

(* A closed window, a failed call of the browser, a missing element, a     *)
(* challenge or a prompt that does not start when no retry is left.        *)
BrowserFails ==
  /\ at \in InFlight \ {"goto", "reopening", "erroring", "resetting", "pasting",
                       "prepared", "polling"}
  /\ Raise
  /\ UNCHANGED <<flag, orchestrated, chat, result, route, caller, left>>

-----------------------------------------------------------------------------
(* Opening a window and navigating                                         *)

(* navigate_to_arena on a new worker.                                      *)
Navigate ==
  /\ at = "fresh"
  /\ Move("LAUNCHING", "launching")
  /\ UNCHANGED <<flag, orchestrated, chat, result, route, caller, left>>

Launch ==
  /\ at = "launching"
  /\ Move("NAVIGATING", "goto")
  /\ left' = [left EXCEPT !.goto = 3]
  /\ UNCHANGED <<flag, orchestrated, chat, result, route, caller>>

GotoLoads ==
  /\ at = "goto"
  /\ at' = "settling"
  /\ UNCHANGED <<state, flag, orchestrated, chat, result, route, caller, left>>

(* The next attempt may be made in a recreated window (nothing was sent to *)
(* the old one), whose recreation may fail too.                            *)
GotoFails ==
  /\ at = "goto" /\ ~flag
  /\ \/ /\ left.goto > 1
        /\ left' = [left EXCEPT !.goto = @ - 1]
        /\ UNCHANGED <<state, at>>
     \/ left.goto > 1 /\ Raise /\ UNCHANGED left
     \/ left.goto = 1 /\ state' = ForcedError /\ at' = "raised" /\ UNCHANGED left
  /\ UNCHANGED <<flag, orchestrated, chat, result, route, caller>>

(* No challenge on the page, or, after a recovery while polling, nobody    *)
(* looked for one.                                                         *)
Settled ==
  /\ at = "settling"
  /\ Move("READY", IF caller = "navigate" THEN "ready" ELSE "preparing")
  /\ UNCHANGED <<flag, orchestrated, chat, result, route, caller, left>>

(* navigate_to_arena hands a challenge to _handle_challenge, whose loop    *)
(* gives up, still NAVIGATING, after its last window.                      *)
Challenged ==
  /\ at = "settling"
  /\ \/ /\ route = "navigate"
        /\ Move("WAITING_FOR_CHALLENGE", "reopening")
        /\ left' = [left EXCEPT !.challenge = RetryLimit]
     \/ /\ route = "challenge" /\ left.challenge > 0
        /\ Move("WAITING_FOR_CHALLENGE", "reopening")
        /\ UNCHANGED left
     \/ /\ route = "challenge" /\ left.challenge = 0
        /\ Raise
        /\ UNCHANGED left
  /\ route' = "challenge"
  /\ UNCHANGED <<flag, orchestrated, chat, result, caller>>

Reopen ==
  /\ at = "reopening" /\ ~flag
  /\ at' = "replacing"
  /\ left' = [left EXCEPT !.challenge = @ - 1]
  /\ UNCHANGED <<state, flag, orchestrated, chat, result, route, caller>>

(* context_recreator returns a fresh window.                               *)
Replace ==
  /\ at = "replacing"
  /\ Move("NAVIGATING", "goto")
  /\ chat' = NewChat
  /\ left' = [left EXCEPT !.goto = 2]
  /\ UNCHANGED <<flag, orchestrated, result, route, caller>>

-----------------------------------------------------------------------------
(* reset_with_fresh_context, with the publications of its transitions      *)

(* Mutant: a worker that is not in a terminal state is not forced to ERROR.*)
MutStartReset ==
  /\ route' = "navigate"
  /\ UNCHANGED state
  /\ at' = "resetting"

StartReset ==
  /\ route' = "navigate"
  /\ IF state \in Terminal \cup {"IDLE"}
       THEN state' = "IDLE" /\ at' = "resetting"
       ELSE state' = "ERROR" /\ at' = "erroring"

ResetToIdle ==
  /\ at = "erroring"
  /\ state' = "IDLE"
  /\ at' = "resetting"
  /\ UNCHANGED <<flag, orchestrated, chat, result, route, caller, left>>

(* The result is dropped and the flag cleared, whoever set it.             *)
ClearFlag ==
  /\ at = "resetting"
  /\ result' = 0
  /\ flag' = FALSE
  /\ at' = "refreshing"
  /\ UNCHANGED <<state, orchestrated, chat, route, caller, left>>

Refresh ==
  /\ at = "refreshing"
  /\ Move("LAUNCHING", "launching")
  /\ chat' = NewChat
  /\ UNCHANGED <<flag, orchestrated, result, route, caller, left>>

-----------------------------------------------------------------------------
(* prepare_prompt                                                          *)

(* The first prompt names the models; the window of a later one has them.  *)
WantsModels == prompt = 1

(* Mutant: nobody looks whether a retry is left.                           *)
MutPrepareAgain ==
  /\ StartReset
  /\ left' = [left EXCEPT !.prepare = @ - 1]

PrepareAgain ==
  /\ left.prepare > 0
  /\ StartReset
  /\ left' = [left EXCEPT !.prepare = @ - 1]

Prepare ==
  /\ at = "preparing" /\ Looked
  /\ IF WantsModels THEN Move("SELECTING_MODEL", "selecting")
                    ELSE Move("PASTING", "pasting")
  /\ UNCHANGED <<flag, orchestrated, chat, result, route, caller, left>>

(* _replay_last_prompt: submit_prompt with the arguments of the last       *)
(* prepare_prompt, n retries left.                                         *)
ReplayWith(n) ==
  /\ caller' = "replay"
  /\ left' = [left EXCEPT !.prepare = n, !.submit = n]

(* The terms dialog blocks the page: prepare_prompt retries, and then      *)
(* submit_prompt does.                                                     *)
TermsBlockPrepare ==
  /\ at = "preparing" /\ Looked
  /\ \/ PrepareAgain /\ UNCHANGED caller
     \/ /\ left.prepare = 0 /\ caller = "replay" /\ left.submit > 0
        /\ StartReset
        /\ ReplayWith(left.submit - 1)
  /\ UNCHANGED <<flag, orchestrated, chat, result>>

Select ==
  /\ at = "selecting" /\ Looked
  /\ chat' = [chat EXCEPT !.models = TRUE]
  /\ Move("PASTING", "pasting")
  /\ UNCHANGED <<flag, orchestrated, result, route, caller, left>>

(* ModelSelectionError, or no composer to type into.                       *)
PrepareFails ==
  /\ at \in {"selecting", "typing"} /\ Looked
  /\ PrepareAgain
  /\ UNCHANGED <<flag, orchestrated, chat, result, caller>>

Paste ==
  /\ at = "pasting" /\ ~flag
  /\ at' = "typing"
  /\ UNCHANGED <<state, flag, orchestrated, chat, result, route, caller, left>>

Type ==
  /\ at = "typing"
  /\ Move("PREPARED", "prepared")
  /\ UNCHANGED <<flag, orchestrated, chat, result, route, caller, left>>

-----------------------------------------------------------------------------
(* submit_prepared_prompt                                                  *)

(* Called by the orchestrator when the submit slot comes, or by            *)
(* submit_prompt in a replay, which counts its own retries.                *)
Submit ==
  /\ at = "prepared"
  /\ IF state = "PREPARED"
       THEN ~flag /\ Move("SUBMITTING", "clicking")
       ELSE Raise
  /\ left' = [left EXCEPT !.click = 3,
                          !.submit = IF caller = "prepare" THEN RetryLimit ELSE @]
  /\ UNCHANGED <<flag, orchestrated, chat, result, route, caller>>

(* One of the ways of _submit_prompt_form; the page may drop it.           *)
Click ==
  /\ at = "clicking" /\ Looked
  /\ \E fired \in {0, 1} : chat' = [chat EXCEPT !.sent = @ + fired]
  /\ left' = [left EXCEPT !.click = @ - 1]
  /\ at' = "accepting"
  /\ UNCHANGED <<state, flag, orchestrated, result, route, caller>>

(* The composer is empty or a stop button shows.                           *)
Accepted ==
  /\ at = "accepting" /\ Looked
  /\ at' = "starting"
  /\ UNCHANGED <<state, flag, orchestrated, chat, result, route, caller, left>>

(* Mutant: whatever is not accepted is clicked again.                      *)
MutShouldRetrySubmit == {TRUE, FALSE}

(* _should_retry_submit looks for an enabled button beside the prompt: a   *)
(* page that has taken the prompt does not show both (external).           *)
ShouldRetrySubmit == {FALSE} \cup (IF chat.sent = 0 THEN {TRUE} ELSE {})

NotAccepted ==
  /\ at = "accepting" /\ Looked
  /\ \/ left.click = 0 /\ Raise
     \/ /\ left.click > 0
        /\ \E again \in ShouldRetrySubmit :
             at' = IF again THEN "clicking" ELSE "starting"
        /\ UNCHANGED state
  /\ UNCHANGED <<flag, orchestrated, chat, result, route, caller, left>>

SubmitAgain ==
  /\ left.submit > 0
  /\ StartReset
  /\ ReplayWith(left.submit - 1)

TermsBlockSubmit ==
  /\ at = "accepting" /\ Looked
  /\ SubmitAgain
  /\ UNCHANGED <<flag, orchestrated, chat, result>>

(* _recover_submit_path_after_challenge                                    *)
ChallengeAfterSubmit ==
  /\ at \in {"accepting", "starting"} /\ Looked
  /\ left.submit > 0
  /\ Move("WAITING_FOR_CHALLENGE", "reopening")
  /\ route' = "challenge"
  /\ caller' = "replay"
  /\ left' = [left EXCEPT !.challenge = RetryLimit,
                          !.prepare = left.submit - 1, !.submit = @ - 1]
  /\ UNCHANGED <<flag, orchestrated, chat, result>>

(* The page of a chat with an earlier answer always looks generating.      *)
GenerationStarts ==
  /\ at = "starting" /\ Looked
  /\ chat.sent > 0 \/ chat.earlier # 0
  /\ Move("POLLING", "polling")
  /\ UNCHANGED <<flag, orchestrated, chat, result, route, caller, left>>

GenerationDoesNotStart ==
  /\ at = "starting" /\ Looked
  /\ chat.earlier = 0
  /\ SubmitAgain
  /\ UNCHANGED <<flag, orchestrated, chat, result>>

-----------------------------------------------------------------------------
(* poll_for_completion                                                     *)

(* The prompts whose answers the page may show: the current one, once it   *)
(* was sent, and the one before.                                           *)
Shown == {p \in {prompt} : chat.sent > 0} \cup ({chat.earlier} \ {0})

(* Both slides are stable, at texts that are not those of the baseline.    *)
(* The transition is inside the try: refused, it is an error like any      *)
(* other, and the result is replaced by a failed one.                      *)
Answered ==
  /\ at = "polling"
  /\ \E p \in Shown \ {baseline} :
       \/ state = "POLLING" /\ state' = "COMPLETE" /\ at' = "answered"
          /\ result' = p
       \/ state # "POLLING" /\ at' = "failed" /\ result' = 0
          /\ UNCHANGED state
  /\ UNCHANGED <<flag, orchestrated, chat, route, caller, left>>

(* The deadline passes: one more poll, then a failed result; any other     *)
(* error fails at once.                                                    *)
PollTimesOut ==
  /\ at = "polling" /\ left.timeout > 0
  /\ left' = [left EXCEPT !.timeout = @ - 1]
  /\ UNCHANGED <<state, at, flag, orchestrated, chat, result, route, caller>>

PollFails ==
  /\ at = "polling"
  /\ state' = ForcedError
  /\ at' = "failed"
  /\ result' = 0
  /\ UNCHANGED <<flag, orchestrated, chat, route, caller, left>>

(* Mutant: the recovery is not counted.                                    *)
MutRestart ==
  /\ at = "polling" /\ left.poll > 0
  /\ Move("WAITING_FOR_CHALLENGE", "replacing")
  /\ route' = "poll"
  /\ caller' = "replay"
  /\ left' = [left EXCEPT !.prepare = RetryLimit, !.submit = RetryLimit]
  /\ UNCHANGED <<flag, orchestrated, chat, result>>

(* _recover_from_polling_restart after a challenge, a rate limit, a login  *)
(* dialog, a generation error or an answer in the wrong format.            *)
Restart ==
  /\ at = "polling" /\ left.poll > 0
  /\ Move("WAITING_FOR_CHALLENGE", "replacing")
  /\ route' = "poll"
  /\ caller' = "replay"
  /\ left' = [left EXCEPT !.poll = @ - 1,
                          !.prepare = RetryLimit, !.submit = RetryLimit]
  /\ UNCHANGED <<flag, orchestrated, chat, result>>

(* The same without a retry left: raised, the worker stays POLLING.        *)
PollGivesUp ==
  /\ at = "polling" /\ left.poll = 0
  /\ Raise
  /\ UNCHANGED <<flag, orchestrated, chat, result, route, caller, left>>

-----------------------------------------------------------------------------
(* The orchestrator                                                        *)

(* The defaults of the three methods; submit and the counters of loops are *)
(* set when they begin.                                                    *)
FullBudget ==
  [goto |-> 0, challenge |-> 0, prepare |-> RetryLimit, submit |-> 0,
   click |-> 0, poll |-> RetryLimit, timeout |-> 1]

(* prepare_prompt for a worker that is ready; its answer has no baseline.  *)
Prompt ==
  /\ at = "ready"
  /\ at' = "preparing"
  /\ baseline' = 0
  /\ caller' = "prepare"
  /\ left' = FullBudget
  /\ UNCHANGED <<state, flag, asked, mode, prompt, resets, chat, result, route>>

(* The chat goes on: the answer it shows is now an earlier one.            *)
NextPrompt ==
  /\ Move("READY", "preparing")
  /\ prompt' = prompt + 1
  /\ chat' = [chat EXCEPT !.sent = 0,
                          !.earlier = IF chat.sent > 0 THEN prompt ELSE @]
  /\ caller' = "prepare"
  /\ left' = FullBudget

(* Mutant: the result is dropped before its texts are taken.               *)
MutFollowUp ==
  /\ at = "answered" /\ prompt < Prompts
  /\ NextPrompt
  /\ baseline' = 0
  /\ result' = 0
  /\ UNCHANGED <<flag, asked, mode, resets, route>>

(* prepare_for_followup_prompt, and the next prompt in the same chat: the  *)
(* next turn, or the prompt after a system prompt, is polled with the      *)
(* texts of the last result as its baseline; the next batch of a session   *)
(* ignores them.                                                           *)
FollowUp ==
  /\ at = "answered" /\ prompt < Prompts
  /\ NextPrompt
  /\ baseline' = IF mode = "batches" THEN 0 ELSE result
  /\ result' = 0
  /\ UNCHANGED <<flag, asked, mode, resets, route>>

(* _attempt_recovery: later turns get none, and a system prompt is sent    *)
(* again before the prompt it precedes.                                    *)
Recover ==
  /\ at \in {"failed", "raised", "refused"} /\ ~asked
  /\ resets < MaxResets
  /\ mode = "turns" => prompt = 1
  /\ StartReset
  /\ resets' = resets + 1
  /\ prompt' = IF mode = "system" THEN 1 ELSE prompt
  /\ caller' = "navigate"
  /\ UNCHANGED <<flag, asked, mode, baseline, chat, result, left>>

-----------------------------------------------------------------------------
Init ==
  /\ state = "IDLE"
  /\ at = "fresh"
  /\ flag = FALSE
  /\ asked = FALSE
  /\ mode \in {"system", "turns", "batches"}
  /\ prompt = 1
  /\ chat = NewChat
  /\ result = 0
  /\ baseline = 0
  /\ route = "navigate"
  /\ caller = "navigate"
  /\ left = [goto |-> 0, challenge |-> 0, prepare |-> 0, submit |-> 0,
             click |-> 0, poll |-> 0, timeout |-> 0]
  /\ resets = 0

Open ==
  \/ Launch \/ GotoLoads \/ GotoFails \/ Settled \/ Challenged \/ Reopen
  \/ Replace \/ ResetToIdle \/ ClearFlag \/ Refresh

PreparePrompt ==
  \/ Prepare \/ TermsBlockPrepare \/ Select \/ PrepareFails \/ Paste \/ Type

SubmitPrompt ==
  \/ Submit \/ Click \/ Accepted \/ NotAccepted \/ TermsBlockSubmit
  \/ ChallengeAfterSubmit \/ GenerationStarts \/ GenerationDoesNotStart

Poll == Answered \/ PollTimesOut \/ PollFails \/ Restart \/ PollGivesUp

Work == NoticeStop \/ BrowserFails \/ Open \/ PreparePrompt \/ SubmitPrompt \/ Poll

Orchestrate ==
  Navigate \/ Prompt \/ FollowUp \/ Recover \/ Cancel \/ TaskCancel

Next == Work \/ Orchestrate

(* Every await of the worker has a timeout or a deadline.                  *)
Fairness == WF_vars(Work)

Spec == Init /\ [][Next]_vars /\ Fairness

-----------------------------------------------------------------------------
(* Properties                                                              *)

(* An edge the table lacks is never tried, through all the restarts that   *)
(* navigation, preparation, submission and polling begin in one another's  *)
(* middle, but by a worker that a stop has moved to CANCELLED.             *)
RefusedOnlyWhenStopped == at = "refused" => asked /\ state = "CANCELLED"

(* What a method returns agrees with the state the worker then reports,    *)
(* which is what the orchestrator looks at (_await_worker_ready, the light *)
(* reset between batches): only a stop comes in between.                   *)
OutcomeMatchesState ==
  /\ at = "ready" => state = "READY" \/ (asked /\ state = "CANCELLED")
  /\ at = "answered" => state = "COMPLETE"
  /\ at = "failed" => state = "ERROR" \/ (asked /\ state = "CANCELLED")
  /\ at = "raised" => state # "COMPLETE"

(* submit_prepared_prompt: "avoid a duplicate send".  However often the    *)
(* submit button is clicked, one chat gets one prompt at most once.        *)
SentOnce == chat.sent <= 1

(* The result of a turn, or of the prompt after a system prompt, answers   *)
(* the prompt that is polled: the answer the chat showed before is not     *)
(* taken for it, in the same window or through a replay in a fresh one,    *)
(* even when the page has dropped the prompt.                              *)
AnswerIsOfThisPrompt ==
  at = "answered" /\ mode # "batches" => result = prompt

(* The retries that prepare_prompt, submit_prepared_prompt, the challenge  *)
(* loop and the poller pass to one another run out.                        *)
WorkEnds == at \in InFlight ~> at \notin InFlight

=============================================================================
