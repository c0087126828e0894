-------------------------- MODULE ArenaWorkerProofs --------------------------
(***************************************************************************)
(* What holds of ArenaWorker for every retry limit, number of prompts and  *)
(* number of resets.                                                       *)
(***************************************************************************)
EXTENDS ArenaWorker, TLAPS

(* The state a worker is in at each await and outcome.  Where the state    *)
(* has an edge to CANCELLED a stop may have taken it meanwhile.            *)
OrStopped(S) == state \in S \cup {"CANCELLED"}

Placed ==
  /\ at \in {"fresh", "resetting", "refreshing"} => OrStopped({"IDLE"})
  /\ at = "launching" => state = "LAUNCHING"
  /\ at \in {"goto", "settling"} => state = "NAVIGATING"
  /\ at \in {"reopening", "replacing"} => OrStopped({"WAITING_FOR_CHALLENGE"})
  /\ at = "erroring" => state = "ERROR"
  /\ at \in {"ready", "preparing"} => OrStopped({"READY"})
  /\ at = "selecting" => OrStopped({"SELECTING_MODEL"})
  /\ at \in {"pasting", "typing"} => OrStopped({"PASTING"})
  /\ at = "prepared" => OrStopped({"PREPARED"})
  /\ at \in {"clicking", "accepting", "starting"} => OrStopped({"SUBMITTING"})
  /\ at = "polling" => OrStopped({"POLLING"})
  /\ at = "answered" => state = "COMPLETE"
  /\ at = "failed" => OrStopped({"ERROR"})
  /\ at = "refused" => state = "CANCELLED"
  /\ at = "raised" => state # "COMPLETE"
  /\ state = "CANCELLED" => asked

(* A method that uses up a retry has one.                                  *)
Counted ==
  /\ at = "goto" => left.goto > 0
  /\ at = "reopening" => left.challenge > 0
  /\ at = "clicking" => left.click > 0

(* Up to the click the chat has not got the prompt, and a click follows    *)
(* another only if it still has not.                                       *)
Unsent ==
  /\ at \in {"fresh", "launching", "goto", "settling", "ready", "preparing",
             "selecting", "pasting", "typing", "prepared", "clicking"}
       => chat.sent = 0
  /\ chat.sent \in 0..1

(* Where a baseline is compared with, the only earlier answer a chat shows *)
(* is the baseline's, and a window that has just been opened shows none.   *)
Compared ==
  /\ at \in {"fresh", "launching", "goto", "settling", "ready"}
       => chat.earlier = 0
  /\ mode # "batches" => chat.earlier \in {0, baseline}
  /\ at = "answered" /\ mode # "batches" => chat.sent > 0

WorkerInv ==
  TypeOK /\ Placed /\ Counted /\ Unsent /\ Compared /\ AnswerIsOfThisPrompt

-----------------------------------------------------------------------------
(* The rows of TRANSITION_TABLE, one by one.                               *)
LEMMA Edges ==
  /\ Allowed["IDLE"] = {"LAUNCHING", "CANCELLED"}
  /\ Allowed["LAUNCHING"] = {"NAVIGATING", "ERROR"}
  /\ Allowed["NAVIGATING"] = {"WAITING_FOR_CHALLENGE", "READY", "ERROR"}
  /\ Allowed["WAITING_FOR_CHALLENGE"] = {"NAVIGATING", "READY", "ERROR", "CANCELLED"}
  /\ Allowed["READY"] = {"SELECTING_MODEL", "PASTING", "ERROR", "CANCELLED"}
  /\ Allowed["SELECTING_MODEL"] = {"PASTING", "ERROR", "CANCELLED"}
  /\ Allowed["PASTING"] = {"PREPARED", "SUBMITTING", "ERROR", "CANCELLED"}
  /\ Allowed["PREPARED"] = {"SUBMITTING", "ERROR", "CANCELLED"}
  /\ Allowed["SUBMITTING"] = {"WAITING_FOR_CHALLENGE", "POLLING", "ERROR", "CANCELLED"}
  /\ Allowed["POLLING"] = {"WAITING_FOR_CHALLENGE", "COMPLETE", "ERROR", "CANCELLED"}
  /\ Allowed["COMPLETE"] = {"IDLE", "READY"}
  /\ Allowed["ERROR"] = {"IDLE"}
  /\ Allowed["CANCELLED"] = {"IDLE"}
<1> USE DEF Allowed, WorkerState
<1>1. Allowed["IDLE"] = {"LAUNCHING", "CANCELLED"}
  OBVIOUS
<1>2. Allowed["LAUNCHING"] = {"NAVIGATING", "ERROR"}
  OBVIOUS
<1>3. Allowed["NAVIGATING"] = {"WAITING_FOR_CHALLENGE", "READY", "ERROR"}
  OBVIOUS
<1>4. Allowed["WAITING_FOR_CHALLENGE"] = {"NAVIGATING", "READY", "ERROR", "CANCELLED"}
  OBVIOUS
<1>5. Allowed["READY"] = {"SELECTING_MODEL", "PASTING", "ERROR", "CANCELLED"}
  OBVIOUS
<1>6. Allowed["SELECTING_MODEL"] = {"PASTING", "ERROR", "CANCELLED"}
  OBVIOUS
<1>7. Allowed["PASTING"] = {"PREPARED", "SUBMITTING", "ERROR", "CANCELLED"}
  OBVIOUS
<1>8. Allowed["PREPARED"] = {"SUBMITTING", "ERROR", "CANCELLED"}
  OBVIOUS
<1>9. Allowed["SUBMITTING"] = {"WAITING_FOR_CHALLENGE", "POLLING", "ERROR", "CANCELLED"}
  OBVIOUS
<1>10. Allowed["POLLING"] = {"WAITING_FOR_CHALLENGE", "COMPLETE", "ERROR", "CANCELLED"}
  OBVIOUS
<1>11. Allowed["COMPLETE"] = {"IDLE", "READY"}
  OBVIOUS
<1>12. Allowed["ERROR"] = {"IDLE"}
  OBVIOUS
<1>13. Allowed["CANCELLED"] = {"IDLE"}
  OBVIOUS
<1> QED
  BY <1>1, <1>2, <1>3, <1>4, <1>5, <1>6, <1>7, <1>8, <1>9, <1>10, <1>11, <1>12, <1>13

(* Replays and restarts leave every counter in its range.                  *)
LEMMA ReplayKeepsRetries ==
  ASSUME left \in Retries, NEW n \in 0..RetryLimit,
         left' = [left EXCEPT !.prepare = n, !.submit = n]
  PROVE  left' \in Retries
BY DEF Retries

LEMMA ChallengeKeepsRetries ==
  ASSUME left \in Retries, NEW n \in 0..RetryLimit, NEW k \in 0..RetryLimit,
         left' = [left EXCEPT !.challenge = k, !.prepare = n, !.submit = n]
  PROVE  left' \in Retries
BY DEF Retries

LEMMA RestartKeepsRetries ==
  ASSUME left \in Retries, NEW n \in 0..RetryLimit, NEW k \in 0..RetryLimit,
         left' = [left EXCEPT !.poll = n, !.prepare = k, !.submit = k]
  PROVE  left' \in Retries
BY DEF Retries

LEMMA SubmitKeepsRetries ==
  ASSUME left \in Retries, NEW n \in 0..RetryLimit, NEW c \in 0..3,
         left' = [left EXCEPT !.click = c, !.submit = n]
  PROVE  left' \in Retries
BY DEF Retries

LEMMA CountersKept ==
  ASSUME left \in Retries,
         \/ Submit \/ TermsBlockPrepare \/ TermsBlockSubmit
         \/ ChallengeAfterSubmit \/ GenerationDoesNotStart \/ Restart
  PROVE  left' \in Retries
<1>1. /\ left.submit \in 0..RetryLimit
      /\ left.prepare \in 0..RetryLimit
      /\ left.poll \in 0..RetryLimit
      /\ RetryLimit \in 0..RetryLimit
  BY WorkerAssumption DEF Retries
<1>2. \A n \in 0..RetryLimit : n > 0 => n - 1 \in 0..RetryLimit
  BY WorkerAssumption
<1>3. CASE Submit
  <2>1. PICK n \in 0..RetryLimit : left' = [left EXCEPT !.click = 3, !.submit = n]
    BY <1>1, <1>3 DEF Submit
  <2> QED
    BY <2>1, 3 \in 0..3, SubmitKeepsRetries
<1>4. ASSUME left.submit > 0, ReplayWith(left.submit - 1)
      PROVE  left' \in Retries
  <2>1. PICK n \in 0..RetryLimit : left' = [left EXCEPT !.prepare = n, !.submit = n]
    BY <1>1, <1>2, <1>4 DEF ReplayWith
  <2> QED
    BY <2>1, ReplayKeepsRetries
<1>5. CASE TermsBlockPrepare
  <2>1. CASE PrepareAgain
    BY <2>1, WorkerAssumption DEF PrepareAgain, Retries
  <2> QED
    BY <1>4, <1>5, <2>1 DEF TermsBlockPrepare
<1>6. CASE TermsBlockSubmit \/ GenerationDoesNotStart
  BY <1>4, <1>6 DEF TermsBlockSubmit, GenerationDoesNotStart, SubmitAgain
<1>7. CASE ChallengeAfterSubmit
  <2>1. PICK n \in 0..RetryLimit :
          left' = [left EXCEPT !.challenge = RetryLimit, !.prepare = n, !.submit = n]
    BY <1>1, <1>2, <1>7 DEF ChallengeAfterSubmit
  <2> QED
    BY <1>1, <2>1, ChallengeKeepsRetries
<1>8. CASE Restart
  <2>1. PICK n \in 0..RetryLimit :
          left' = [left EXCEPT !.poll = n, !.prepare = RetryLimit, !.submit = RetryLimit]
    BY <1>1, <1>2, <1>8 DEF Restart
  <2> QED
    BY <1>1, <2>1, RestartKeepsRetries
<1> QED
  BY <1>3, <1>5, <1>6, <1>7, <1>8

LEMMA InvInitially == Init => WorkerInv
<1> SUFFICES ASSUME Init PROVE WorkerInv
  OBVIOUS
<1> USE WorkerAssumption DEF Init
<1>1. left \in Retries
  BY DEF Retries
<1>2. chat \in [models : BOOLEAN, sent : Nat, earlier : 0..Prompts] 
      /\ chat.sent = 0 /\ chat.earlier = 0
  BY DEF NewChat
<1>3. TypeOK
  <2>1. state \in WorkerState /\ prompt \in 1..Prompts /\ resets \in 0..MaxResets
    BY DEF WorkerState
  <2> QED
    BY <1>1, <1>2, <2>1 DEF TypeOK
<1>4. Placed
  BY DEF Placed, OrStopped
<1>5. Counted /\ Unsent /\ Compared /\ AnswerIsOfThisPrompt
  BY <1>2 DEF Counted, Unsent, Compared, AnswerIsOfThisPrompt
<1> QED
  BY <1>3, <1>4, <1>5 DEF WorkerInv

LEMMA InvKept == WorkerInv /\ [Next]_vars => WorkerInv'
<1> SUFFICES ASSUME WorkerInv, [Next]_vars PROVE WorkerInv'
  OBVIOUS
<1> USE WorkerAssumption, Edges
     DEF orchestrated, WorkerInv, TypeOK, Retries, WorkerState, InFlight, Opening, Prompting,
         Outcome, Placed, OrStopped, Counted, Unsent, Compared, AnswerIsOfThisPrompt
<1>1. CASE NoticeStop
  BY <1>1 DEF NoticeStop
<1>2. CASE BrowserFails
  BY <1>2 DEF BrowserFails, Raise
<1>3. CASE Launch
  BY <1>3 DEF Launch, Move
<1>4. CASE GotoLoads
  BY <1>4 DEF GotoLoads
<1>5. CASE GotoFails
  BY <1>5 DEF GotoFails, Raise, ForcedError, Terminal
<1>6. CASE Settled
  BY <1>6 DEF Settled, Move
<1>7. CASE Challenged
  BY <1>7 DEF Challenged, Move, Raise
<1>8. CASE Reopen
  BY <1>8 DEF Reopen
<1>9. CASE Replace
  BY <1>9 DEF Replace, Move, NewChat
<1>10. CASE ResetToIdle
  BY <1>10 DEF ResetToIdle
<1>11. CASE ClearFlag
  <2> USE <1>11 DEF ClearFlag
  <2>1. TypeOK'
    <3>1. result' \in 0..Prompts
      OBVIOUS
    <3>2. at' \in InFlight /\ flag' \in BOOLEAN
      OBVIOUS
    <3> QED
      BY <3>1, <3>2
  <2>2. Placed'
    OBVIOUS
  <2>3. Counted' /\ Unsent' /\ Compared' /\ AnswerIsOfThisPrompt'
    OBVIOUS
  <2> QED
    BY <2>1, <2>2, <2>3
<1>12. CASE Refresh
  BY <1>12 DEF Refresh, Move, NewChat
<1>13. CASE Prepare
  BY <1>13 DEF Prepare, Looked, Move, WantsModels
<1>14. CASE TermsBlockPrepare
  <2>1. left' \in Retries
    BY <1>14, TypeOK, CountersKept DEF TypeOK
  <2> USE <1>14 DEF TermsBlockPrepare, Looked, PrepareAgain, StartReset, ReplayWith, Terminal
  <2>2. TypeOK'
    BY <2>1
  <2>3. Placed'
    OBVIOUS
  <2>4. Counted' /\ Unsent' /\ Compared' /\ AnswerIsOfThisPrompt'
    OBVIOUS
  <2> QED
    BY <2>2, <2>3, <2>4
<1>15. CASE Select
  BY <1>15 DEF Select, Looked, Move
<1>16. CASE PrepareFails
  BY <1>16 DEF PrepareFails, Looked, PrepareAgain, StartReset, Terminal
<1>17. CASE Paste
  BY <1>17 DEF Paste
<1>18. CASE Type
  BY <1>18 DEF Type, Move
<1>19. CASE Submit
  <2>1. left' \in Retries
    BY <1>19, TypeOK, CountersKept DEF TypeOK
  <2> USE <1>19 DEF Submit, Move, Raise
  <2>2. TypeOK'
    <3>1. state' \in WorkerState /\ at' \in InFlight \cup Outcome
      OBVIOUS
    <3> QED
      BY <2>1, <3>1
  <2>3. Placed'
    OBVIOUS
  <2>4. Counted' /\ Unsent' /\ Compared' /\ AnswerIsOfThisPrompt'
    OBVIOUS
  <2> QED
    BY <2>2, <2>3, <2>4
<1>20. CASE Click
  BY <1>20 DEF Click, Looked
<1>21. CASE Accepted
  BY <1>21 DEF Accepted, Looked
<1>22. CASE NotAccepted
  <2> USE <1>22 DEF NotAccepted, Looked, Raise, ShouldRetrySubmit
  <2>1. left' \in Retries
    OBVIOUS
  <2>2. TypeOK'
    <3>1. state' = state /\ at' \in {"raised", "clicking", "starting"}
      OBVIOUS
    <3> QED
      BY <2>1, <3>1
  <2>3. Placed'
    OBVIOUS
  <2>4. Counted' /\ Unsent' /\ Compared' /\ AnswerIsOfThisPrompt'
    OBVIOUS
  <2> QED
    BY <2>2, <2>3, <2>4
<1>23. CASE TermsBlockSubmit
  <2>1. left' \in Retries
    BY <1>23, TypeOK, CountersKept DEF TypeOK
  <2> USE <1>23 DEF TermsBlockSubmit, Looked, SubmitAgain, StartReset, ReplayWith, Terminal
  <2>2. TypeOK'
    BY <2>1
  <2>3. Placed'
    OBVIOUS
  <2>4. Counted' /\ Unsent' /\ Compared' /\ AnswerIsOfThisPrompt'
    OBVIOUS
  <2> QED
    BY <2>2, <2>3, <2>4
<1>24. CASE ChallengeAfterSubmit
  <2>1. left' \in Retries
    BY <1>24, TypeOK, CountersKept DEF TypeOK
  <2> USE <1>24 DEF ChallengeAfterSubmit, Looked, Move
  <2>2. TypeOK'
    BY <2>1
  <2>3. Placed'
    OBVIOUS
  <2>4. Counted' /\ Unsent' /\ Compared' /\ AnswerIsOfThisPrompt'
    OBVIOUS
  <2> QED
    BY <2>2, <2>3, <2>4
<1>25. CASE GenerationStarts
  BY <1>25 DEF GenerationStarts, Looked, Move
<1>26. CASE GenerationDoesNotStart
  <2>1. left' \in Retries
    BY <1>26, TypeOK, CountersKept DEF TypeOK
  <2> USE <1>26 DEF GenerationDoesNotStart, Looked, SubmitAgain, StartReset, ReplayWith, Terminal
  <2>2. TypeOK'
    BY <2>1
  <2>3. Placed'
    OBVIOUS
  <2>4. Counted' /\ Unsent' /\ Compared' /\ AnswerIsOfThisPrompt'
    OBVIOUS
  <2> QED
    BY <2>2, <2>3, <2>4
<1>27. CASE Answered
  <2>1. PICK p \in Shown \ {baseline} :
          \/ state = "POLLING" /\ state' = "COMPLETE" /\ at' = "answered"
             /\ result' = p
          \/ state # "POLLING" /\ at' = "failed" /\ result' = 0
             /\ UNCHANGED state
    BY <1>27 DEF Answered
  <2>2. p \in 0..Prompts
    BY <2>1 DEF Shown
  <2>3. mode # "batches" => p = prompt /\ chat.sent > 0
    BY <2>1 DEF Shown
  <2> QED
    BY <1>27, <2>1, <2>2, <2>3 DEF Answered
<1>28. CASE PollTimesOut
  BY <1>28 DEF PollTimesOut
<1>29. CASE PollFails
  BY <1>29 DEF PollFails, ForcedError, Terminal
<1>30. CASE Restart
  <2>1. left' \in Retries
    BY <1>30, TypeOK, CountersKept DEF TypeOK
  <2> USE <1>30 DEF Restart, Move
  <2>2. TypeOK'
    BY <2>1
  <2>3. Placed'
    OBVIOUS
  <2>4. Counted' /\ Unsent' /\ Compared' /\ AnswerIsOfThisPrompt'
    OBVIOUS
  <2> QED
    BY <2>2, <2>3, <2>4
<1>31. CASE PollGivesUp
  BY <1>31 DEF PollGivesUp, Raise
<1>32. CASE Navigate
  BY <1>32 DEF Navigate, Move
<1>33. CASE Prompt
  BY <1>33 DEF Prompt, FullBudget
<1>34. CASE FollowUp
  <2> USE <1>34 DEF FollowUp, NextPrompt, Move, FullBudget
  <2>1. left' \in Retries
    OBVIOUS
  <2>2. TypeOK'
    <3>1. prompt' \in 1..Prompts
      OBVIOUS
    <3>2. chat' \in [models : BOOLEAN, sent : Nat, earlier : 0..Prompts]
      <4>1. (IF chat.sent > 0 THEN prompt ELSE chat.earlier) \in 0..Prompts
        OBVIOUS
      <4> QED
        BY <4>1
    <3>3. state' \in WorkerState /\ at' \in InFlight
      OBVIOUS
    <3> QED
      BY <2>1, <3>1, <3>2, <3>3
  <2>3. Placed'
    OBVIOUS
  <2>4. Counted' /\ Unsent' /\ Compared' /\ AnswerIsOfThisPrompt'
    OBVIOUS
  <2> QED
    BY <2>2, <2>3, <2>4
<1>35. CASE Recover
  BY <1>35 DEF Recover, StartReset, Terminal
<1>36. CASE Cancel
  BY <1>36 DEF Cancel, Terminal
<1>37. CASE TaskCancel
  BY <1>37 DEF TaskCancel
<1>38. CASE UNCHANGED vars
  BY <1>38 DEF vars
<1> QED
  BY <1>1, <1>2, <1>3, <1>4, <1>5, <1>6, <1>7, <1>8, <1>9, <1>10, <1>11, <1>12, <1>13, <1>14, <1>15, <1>16, <1>17, <1>18, <1>19, <1>20, <1>21, <1>22, <1>23, <1>24, <1>25, <1>26, <1>27, <1>28, <1>29, <1>30, <1>31, <1>32, <1>33, <1>34, <1>35, <1>36, <1>37, <1>38
     DEF Next, Work, Open, PreparePrompt, SubmitPrompt, Poll, Orchestrate

-----------------------------------------------------------------------------
LEMMA InvHolds == Spec => []WorkerInv
<1>1. Init => WorkerInv
  BY InvInitially
<1>2. WorkerInv /\ [Next]_vars => WorkerInv'
  BY InvKept
<1> QED
  BY <1>1, <1>2, PTL DEF Spec

(* Every await, outcome, window and counter of the worker is well typed:   *)
(* no method uses a retry it does not have.                                *)
THEOREM TypeCorrect == Spec => []TypeOK
<1>1. WorkerInv => TypeOK
  BY DEF WorkerInv
<1> QED
  BY <1>1, InvHolds, PTL

(* WorkerStateMachine.transition raises InvalidTransitionError only in a   *)
(* worker that a stop has moved to CANCELLED.                              *)
THEOREM TransitionsLegal == Spec => []RefusedOnlyWhenStopped
<1>1. WorkerInv => RefusedOnlyWhenStopped
  BY DEF WorkerInv, Placed, RefusedOnlyWhenStopped
<1> QED
  BY <1>1, InvHolds, PTL

(* The state the orchestrator reads after a call is the one the call's     *)
(* outcome promises.                                                       *)
THEOREM OutcomesAgree == Spec => []OutcomeMatchesState
<1>1. WorkerInv => OutcomeMatchesState
  BY DEF WorkerInv, Placed, OrStopped, OutcomeMatchesState
<1> QED
  BY <1>1, InvHolds, PTL

(* submit_prepared_prompt sends a prompt at most once to one chat.         *)
THEOREM NoDuplicateSend == Spec => []SentOnce
<1>1. WorkerInv => SentOnce
  BY DEF WorkerInv, Unsent, SentOnce
<1> QED
  BY <1>1, InvHolds, PTL

(* The result of a turn, or of the prompt after a system prompt, answers   *)
(* the current prompt: prepare_for_followup_prompt takes the baseline      *)
(* before it drops the result, so that it is the answer the chat shows.    *)
THEOREM AnswersFresh == Spec => []AnswerIsOfThisPrompt
<1>1. WorkerInv => AnswerIsOfThisPrompt
  BY DEF WorkerInv
<1> QED
  BY <1>1, InvHolds, PTL

=============================================================================
