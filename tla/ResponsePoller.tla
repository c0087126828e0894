---------------------------- MODULE ResponsePoller ----------------------------
(***************************************************************************)
(* ResponsePoller.poll (src/src/workers/response_poller.py): one call that *)
(* watches the two answers of a page until both are stable, while the page *)
(* generates, fails and regenerates them, and the run is paused, resumed   *)
(* or cancelled.                                                           *)
(*                                                                         *)
(* A text is the number of its parts, 0 the empty one.  One poll interval  *)
(* is one unit of time.  The page is the site's: what its slides show is   *)
(* modelled from the elements that poll() looks for.                       *)
(***************************************************************************)
EXTENDS Naturals

CONSTANTS
  Slides,      \* the two response cards
  Required,    \* stable_polls_required
  MaxRetries,  \* retry clicks per slide: the 2 in retry_counts[idx] >= 2
  Timeout,     \* timeout_seconds, in poll intervals
  MaxParts     \* parts of the longest answer (bound of the model)

ASSUME PollerAssumption ==
  /\ Required \in Nat \ {0}
  /\ MaxRetries \in Nat
  /\ Timeout \in Nat \ {0}
  /\ MaxParts \in Nat \ {0}

None == MaxParts + 1  \* no baseline, no partial result: not a text

VARIABLES
  page,       \* what the site does on each slide
  old,        \* the text of the answers of the turn before, 0 if there is none
  baseline,   \* baseline_responses: the old text, or None
  prev,       \* prev_text_a, prev_text_b
  count,      \* stable_count_a, stable_count_b
  both,       \* stable_count
  retries,    \* retry_counts
  partial,    \* the text emitted for a slide (emitted_a, emitted_b), or None
  left,       \* time to the deadline
  pc,         \* "first" poll, "next" poll, or how the call ended
  answer,     \* the texts returned
  same,       \* history: reads in a row that showed this text and no error
  paused,     \* the run is paused: pause_event is cleared
  hidden      \* history: slides that hid the indicator of the answer they write

poller == <<prev, count, both, retries, partial, left, pc, answer, same>>
vars == <<page, old, baseline, poller, paused, hidden>>

Zero == [s \in Slides |-> 0]
Ends == {"answered", "timed_out", "raised", "cancelled"}
Texts == 0..MaxParts

TypeOK ==
  /\ page \in [Slides -> [phase  : {"waiting", "thinking", "writing",
                                    "finished", "failed"},
                          parts  : Texts,
                          marked : BOOLEAN]]
  /\ old \in Texts
  /\ baseline \in {old, None}
  /\ prev \in [Slides -> Texts]
  /\ count \in [Slides -> 0..Required]  \* no matter how many more
  /\ both \in 0..Required
  /\ retries \in [Slides -> 0..MaxRetries]
  /\ partial \in [Slides -> Texts \cup {None}]
  /\ left \in 0..Timeout
  /\ pc \in {"first", "next"} \cup Ends
  /\ answer \in [Slides -> Texts]
  /\ same \in [Slides -> 0..(2 * Required)]
  /\ paused \in BOOLEAN
  /\ hidden \in SUBSET Slides

-----------------------------------------------------------------------------
(* The page                                                                *)

Running == pc \in {"first", "next"}

Generating(s) == page[s].phase \in {"thinking", "writing"}

(* response_text: the old answer until the new one begins, and nothing for *)
(* a reasoning summary.                                                    *)
Shown(s) ==
  CASE page[s].phase = "waiting" -> old
    [] page[s].phase = "thinking" -> 0
    [] OTHER -> page[s].parts

HasCopyButton(s) ==
  page[s].phase = "finished" \/ (page[s].phase = "waiting" /\ old # 0)

HasIndicator(s) == Generating(s) /\ page[s].marked

Show(s, phase, parts, marked) ==
  page' = [page EXCEPT
             ![s] = [phase |-> phase, parts |-> parts, marked |-> marked]]

Begins(s) ==
  /\ page[s].phase = "waiting"
  /\ Show(s, "thinking", 0, TRUE)
  /\ UNCHANGED hidden

Writes(s) ==
  /\ Generating(s) /\ page[s].parts < MaxParts
  /\ Show(s, "writing", page[s].parts + 1, page[s].marked)
  /\ UNCHANGED hidden

(* The indicator disappears although the answer is not finished.           *)
HidesIndicator(s) ==
  /\ page[s].phase = "writing" /\ page[s].marked
  /\ Show(s, page[s].phase, page[s].parts, FALSE)
  /\ hidden' = hidden \cup {s}

Finishes(s) ==
  /\ page[s].phase = "writing"
  /\ Show(s, "finished", page[s].parts, FALSE)
  /\ UNCHANGED hidden

Fails(s) ==
  /\ Generating(s)
  /\ Show(s, "failed", 0, FALSE)
  /\ UNCHANGED hidden

Page ==
  /\ Running
  /\ \E s \in Slides :
       Begins(s) \/ Writes(s) \/ HidesIndicator(s) \/ Finishes(s) \/ Fails(s)
  /\ UNCHANGED <<old, baseline, poller, paused>>

-----------------------------------------------------------------------------
(* One poll                                                                *)

(* The call's variables die with it.                                       *)
End(how) ==
  /\ pc' = how
  /\ prev' = Zero /\ count' = Zero /\ both' = 0 /\ retries' = Zero
  /\ partial' = [s \in Slides |-> None] /\ same' = Zero
  /\ UNCHANGED <<page, left, answer>>

(* The deadline is looked at after each sleep, which a pause prolongs.     *)
TimesOut ==
  /\ pc = "next" /\ left = 0 /\ ~paused
  /\ End("timed_out")
  /\ UNCHANGED hidden

(* cancel_event is set: noticed while the call sleeps, is paused, or       *)
(* before it goes on to look at the page or to judge what it has read.     *)
Stops ==
  /\ Running
  /\ End("cancelled")
  /\ UNCHANGED <<old, baseline, paused, hidden>>

(* An interval of a pause, however long it is: no poll, and no later       *)
(* deadline.  A call that is not in its sleep any more has looked at the   *)
(* deadline before it waits, and polls once the run is resumed.            *)
Waits ==
  /\ Running /\ paused /\ left > 0
  /\ left' = left - 1
  /\ pc' \in {pc, "first"}
  /\ UNCHANGED <<page, prev, count, both, retries, partial, answer, same,
                 hidden>>

(* pause_event is cleared and set by the handlers of the run.              *)
PauseOrResume ==
  /\ Running
  /\ paused' = ~paused
  /\ UNCHANGED <<page, old, baseline, poller, hidden>>

Polling == ~paused /\ (pc = "first" \/ (pc = "next" /\ left > 0))

(* _sleep_with_controls, on to the next poll                               *)
Sleeps ==
  /\ pc' = "next"
  /\ left' = IF left > 0 THEN left - 1 ELSE 0

(* A login dialog, a rate limit, a challenge or the generation-failed      *)
(* banner ends the call.                                                   *)
Raises == Polling /\ End("raised") /\ UNCHANGED hidden

(* The retry button of a failed slide is clicked while it has retries; the *)
(* click may find no button.  All progress is forgotten.                   *)
Failed == {s \in Slides : page[s].phase = "failed"}

MutRetryable == {s \in Failed : retries[s] <= MaxRetries}

Retryable == {s \in Failed : retries[s] < MaxRetries}

ClicksRetry ==
  \E clicked \in SUBSET Retryable :
    /\ retries' = [s \in Slides |->
                     IF s \in clicked THEN retries[s] + 1 ELSE retries[s]]
    /\ page' = [s \in Slides |->
                  IF s \in clicked
                  THEN [phase |-> "thinking", parts |-> 0, marked |-> TRUE]
                  ELSE page[s]]
    /\ hidden' = hidden \ clicked

(* Mutant: what was published for a slide stays published.                 *)
MutPollsFailure ==
  /\ Polling /\ Failed # {}
  /\ ClicksRetry
  /\ prev' = Zero
  /\ count' = Zero
  /\ both' = 0
  /\ same' = Zero
  /\ Sleeps
  /\ UNCHANGED <<partial, answer>>

PollsFailure ==
  /\ Polling /\ Failed # {}
  /\ ClicksRetry
  /\ prev' = Zero
  /\ count' = Zero
  /\ both' = 0
  /\ partial' = [s \in Slides |-> None]
  /\ same' = Zero
  /\ Sleeps
  /\ UNCHANGED answer

(* The slides cannot be read (_extract_slide_payloads returns nothing).    *)
PollsNothing ==
  /\ Polling
  /\ prev' = Zero
  /\ count' = Zero
  /\ both' = 0
  /\ same' = Zero
  /\ Sleeps
  /\ UNCHANGED <<page, retries, partial, answer, hidden>>

Quiet(s) == HasCopyButton(s) \/ ~HasIndicator(s)

(* stable_count_a, stable_count_b without the comparison to prev_text      *)
MutCounts(s) ==
  /\ Shown(s) # 0
  /\ Shown(s) # baseline
  /\ Quiet(s)

(* and without the one to the baseline                                     *)
MutCountsOld(s) ==
  /\ Shown(s) # 0
  /\ Shown(s) = prev[s]
  /\ Quiet(s)

Counts(s) ==
  /\ Shown(s) # 0
  /\ Shown(s) # baseline
  /\ Shown(s) = prev[s]
  /\ Quiet(s)

(* The stop button is looked for after the slides were read, and the look  *)
(* may fail: while something is still to come it is there or not.          *)
StopButtons ==
  IF \A s \in Slides : page[s].phase = "finished" THEN {FALSE} ELSE BOOLEAN

Capped(n, bound) == IF n < bound THEN n + 1 ELSE bound

(* emitted_x is set once between two failures.                             *)
Emits(s) == count'[s] >= Required /\ partial[s] = None

PollsText ==
  /\ Polling /\ Failed = {}
  /\ count' = [s \in Slides |->
                 IF Counts(s) THEN Capped(count[s], Required) ELSE 0]
  /\ partial' = [s \in Slides |-> IF Emits(s) THEN Shown(s) ELSE partial[s]]
  /\ \E stopping \in StopButtons :
       both' = IF /\ \A s \in Slides : count'[s] >= Required
                  /\ \/ \A s \in Slides : HasCopyButton(s)
                     \/ ~stopping /\ \A s \in Slides : ~HasIndicator(s)
               THEN both + 1 ELSE 0
  /\ prev' = [s \in Slides |-> Shown(s)]
  /\ same' = [s \in Slides |->
                IF Shown(s) = prev[s] THEN Capped(same[s], 2 * Required) ELSE 1]
  /\ IF both' >= Required
     THEN /\ pc' = "answered"
          /\ answer' = [s \in Slides |-> Shown(s)]
          /\ UNCHANGED left
     ELSE Sleeps /\ UNCHANGED answer
  /\ UNCHANGED <<page, retries, hidden>>

Poll ==
  /\ \/ TimesOut \/ Waits
     \/ Raises \/ PollsFailure \/ PollsNothing \/ PollsText
  /\ UNCHANGED <<old, baseline, paused>>

-----------------------------------------------------------------------------
Init ==
  /\ old \in {0, MaxParts}
  /\ baseline \in {old, None}
  /\ page = [s \in Slides |->
               [phase |-> "waiting", parts |-> 0, marked |-> FALSE]]
  /\ prev = Zero
  /\ count = Zero
  /\ both = 0
  /\ retries = Zero
  /\ partial = [s \in Slides |-> None]
  /\ left = Timeout
  /\ pc = "first"
  /\ answer = Zero
  /\ same = Zero
  /\ paused = FALSE
  /\ hidden = {}

Next == Page \/ Poll \/ Stops \/ PauseOrResume

Spec == Init /\ [][Next]_vars

-----------------------------------------------------------------------------
(* Properties                                                              *)

(* What poll() returns was on the page, unchanged and with no failure in   *)
(* between, for twice stable_polls_required reads: a slide is stable once  *)
(* that many reads have repeated its text, and both have to stay so for as *)
(* many more, the first of which is the read that made the later stable.   *)
StableWhenReturned ==
  pc = "answered" =>
    \A s \in Slides : same[s] >= 2 * Required /\ answer[s] # 0

(* An answer whose indicator showed while it was written is complete, and  *)
(* of this turn and not of the one before, when poll() was told the old    *)
(* texts (prepare_for_followup_prompt) or there were none.                 *)
AnswerIsFinished ==
  pc = "answered" /\ baseline = old =>
    \A s \in Slides \ hidden :
      page[s].phase = "finished" /\ answer[s] = page[s].parts

(* WORKER_PARTIAL_RESULT and the final result of a slide agree under the   *)
(* same conditions: the slide was published once after the last failure,   *)
(* with the text that is returned, whatever was published before it failed *)
(* and was written anew.  Where the baseline is dropped (the batches of a  *)
(* session) the partial result can be the previous answer and the final    *)
(* one the new.                                                            *)
PartialIsFinal ==
  pc = "answered" /\ baseline = old =>
    \A s \in Slides \ hidden : partial[s] = answer[s]

=============================================================================
