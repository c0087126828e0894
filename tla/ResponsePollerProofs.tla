------------------------- MODULE ResponsePollerProofs -------------------------
(***************************************************************************)
(* Proofs about ResponsePoller, for any number of slides, polls required,  *)
(* retries, any timeout and any length of the answers.                     *)
(***************************************************************************)
EXTENDS ResponsePoller, TLAPS

-----------------------------------------------------------------------------
(***************************************************************************)
(* The inductive invariant.                                                *)
(***************************************************************************)

(* The call ends with the read that completes the count.                   *)
Unfinished == Running => both < Required

(* A counted read repeated the text of the one before it, so the reads in  *)
(* a row are one more than the count of a slide, and go on with the count  *)
(* of both.                                                                *)
CountsAreReads ==
  \A s \in Slides :
    /\ prev[s] # 0 => same[s] >= 1
    /\ count[s] > 0 => same[s] >= count[s] + 1
    /\ both > 0 => same[s] >= Required + both

(* A slide that hides no indicator shows one while it generates.           *)
Honest == \A s \in Slides \ hidden : Generating(s) => page[s].marked

(* What was published is a finished answer: a slide that has one does not  *)
(* generate again before a failure withdraws what was published.           *)
PublishedIsFinished ==
  baseline = old =>
    \A s \in Slides \ hidden :
      partial[s] # None =>
        page[s].phase = "finished" /\ partial[s] = page[s].parts

Answered == StableWhenReturned /\ AnswerIsFinished /\ PartialIsFinal

PollInv ==
  /\ TypeOK
  /\ Unfinished
  /\ CountsAreReads
  /\ Honest
  /\ PublishedIsFinished
  /\ Answered
-----------------------------------------------------------------------------
(***************************************************************************)
(* The initial states and the steps of the page.                           *)
(***************************************************************************)
LEMMA PollInitially == Init => PollInv
<1> SUFFICES ASSUME Init PROVE PollInv
  OBVIOUS
<1> USE PollerAssumption DEF Init, Zero, Ends
<1>1. TypeOK
  <2>1. old \in Texts /\ baseline \in {old, None} /\ 0 \in Texts
    BY DEF Texts
  <2>2. /\ Zero \in [Slides -> Texts] /\ Zero \in [Slides -> 0..Required]
        /\ Zero \in [Slides -> 0..MaxRetries]
        /\ Zero \in [Slides -> 0..(2 * Required)]
    BY <2>1
  <2>3. page \in [Slides -> [phase  : {"waiting", "thinking", "writing",
                                       "finished", "failed"},
                             parts  : Texts,
                             marked : BOOLEAN]]
    BY <2>1
  <2>4. both \in 0..Required
    OBVIOUS
  <2>5. left \in 0..Timeout
    OBVIOUS
  <2>6. paused \in BOOLEAN /\ hidden \in SUBSET Slides
    OBVIOUS
  <2>7. pc \in {"first", "next"} \cup Ends
    OBVIOUS
  <2>8. partial \in [Slides -> Texts \cup {None}]
    OBVIOUS
  <2> QED BY <2>1, <2>2, <2>3, <2>4, <2>5, <2>6, <2>7, <2>8 DEF TypeOK
<1>2. Unfinished /\ CountsAreReads
  BY DEF Unfinished, Running, CountsAreReads
<1>3. Honest /\ PublishedIsFinished
  BY DEF Honest, Generating, PublishedIsFinished
<1>4. Answered
  BY DEF Answered, StableWhenReturned, AnswerIsFinished, PartialIsFinal
<1> QED BY <1>1, <1>2, <1>3, <1>4 DEF PollInv

PageOK ==
  page \in [Slides -> [phase  : {"waiting", "thinking", "writing", "finished",
                                 "failed"},
                       parts  : Texts,
                       marked : BOOLEAN]]

Elsewhere(s) == \A t \in Slides \ {s} : page'[t] = page[t]

(* A slide shows something else, and the others what they did.             *)
LEMMA ShowType ==
  ASSUME TypeOK, NEW s \in Slides,
         NEW phase \in {"waiting", "thinking", "writing", "finished", "failed"},
         NEW parts \in Texts, NEW marked \in BOOLEAN,
         Show(s, phase, parts, marked)
  PROVE  /\ PageOK' /\ Elsewhere(s)
         /\ page'[s] = [phase |-> phase, parts |-> parts, marked |-> marked]
BY DEF Show, TypeOK, PageOK, Elsewhere

LEMMA PageStep ==
  ASSUME TypeOK, Honest, NEW s \in Slides,
         Begins(s) \/ Writes(s) \/ HidesIndicator(s) \/ Finishes(s) \/ Fails(s)
  PROVE  /\ PageOK' /\ Elsewhere(s)
         /\ hidden' \in SUBSET Slides /\ hidden \subseteq hidden'
         /\ page[s].phase # "finished"
         /\ s \notin hidden' /\ Generating(s)' => page'[s].marked
<1> USE PollerAssumption DEF Generating
<1>1. /\ page[s].parts \in Texts /\ page[s].marked \in BOOLEAN
      /\ hidden \in SUBSET Slides
  BY DEF TypeOK
<1>2. CASE Begins(s)
  <2>1. Show(s, "thinking", 0, TRUE) /\ 0 \in Texts
    BY <1>2 DEF Begins, Show, Texts
  <2>2. /\ PageOK' /\ Elsewhere(s)
        /\ page'[s] = [phase |-> "thinking", parts |-> 0, marked |-> TRUE]
    BY <2>1, ShowType
  <2> QED BY <1>1, <1>2, <2>2 DEF Begins
<1>3. CASE Writes(s)
  <2> DEFINE n == page[s].parts + 1
  <2>1. Show(s, "writing", n, page[s].marked) /\ n \in Texts
    BY <1>1, <1>3 DEF Writes, Texts
  <2>2. /\ PageOK' /\ Elsewhere(s)
        /\ page'[s] = [phase |-> "writing", parts |-> n, marked |-> page[s].marked]
    BY <1>1, <2>1, ShowType
  <2>3. hidden' = hidden /\ Generating(s)
    BY <1>3 DEF Writes
  <2>4. s \notin hidden' => page'[s].marked
    BY <2>2, <2>3 DEF Honest
  <2> QED BY <1>1, <2>2, <2>3, <2>4
<1>4. CASE HidesIndicator(s)
  <2>1. Show(s, "writing", page[s].parts, FALSE)
    BY <1>4 DEF HidesIndicator
  <2>2. PageOK' /\ Elsewhere(s)
    BY <1>1, <2>1, ShowType
  <2> QED BY <1>1, <1>4, <2>2 DEF HidesIndicator
<1>5. CASE Finishes(s)
  <2>1. Show(s, "finished", page[s].parts, FALSE)
    BY <1>5 DEF Finishes
  <2>2. /\ PageOK' /\ Elsewhere(s)
        /\ page'[s] = [phase |-> "finished", parts |-> page[s].parts, marked |-> FALSE]
    BY <1>1, <2>1, ShowType
  <2> QED BY <1>1, <1>5, <2>2 DEF Finishes
<1>6. CASE Fails(s)
  <2>1. Show(s, "failed", 0, FALSE) /\ 0 \in Texts
    BY <1>6 DEF Fails, Show, Texts
  <2>2. /\ PageOK' /\ Elsewhere(s)
        /\ page'[s] = [phase |-> "failed", parts |-> 0, marked |-> FALSE]
    BY <2>1, ShowType
  <2> QED BY <1>1, <1>6, <2>2 DEF Fails
<1> QED BY <1>2, <1>3, <1>4, <1>5, <1>6

LEMMA PageKeeps ==
  ASSUME PollInv, Page
  PROVE  PollInv'
<1> USE DEF poller
<1>1. /\ TypeOK /\ Running
      /\ UNCHANGED <<old, baseline, prev, count, both, retries, partial, left,
                     pc, answer, same, paused>>
  BY DEF PollInv, Page
<1>2. PICK s \in Slides :
        Begins(s) \/ Writes(s) \/ HidesIndicator(s) \/ Finishes(s) \/ Fails(s)
  BY DEF Page
<1>3. /\ PageOK' /\ Elsewhere(s)
      /\ hidden' \in SUBSET Slides /\ hidden \subseteq hidden'
      /\ page[s].phase # "finished"
      /\ s \notin hidden' /\ Generating(s)' => page'[s].marked
  BY <1>1, <1>2, PageStep DEF PollInv
<1>4. TypeOK'
  BY <1>1, <1>3 DEF TypeOK, PageOK
<1>5. Unfinished' /\ CountsAreReads'
  BY <1>1 DEF PollInv, Unfinished, Running, CountsAreReads
<1>6. Honest'
  BY <1>3 DEF PollInv, Honest, Generating, Elsewhere
<1>7. PublishedIsFinished'
  BY <1>1, <1>3 DEF PollInv, PublishedIsFinished, Elsewhere
<1>8. Answered'
  BY <1>1 DEF Running, Answered, StableWhenReturned, AnswerIsFinished, PartialIsFinal
<1> QED BY <1>4, <1>5, <1>6, <1>7, <1>8 DEF PollInv

-----------------------------------------------------------------------------
(***************************************************************************)
(* The steps of the call.                                                  *)
(***************************************************************************)

(* The deadline, the cancellation or an exception.                         *)
LEMMA EndKeeps ==
  ASSUME PollInv, UNCHANGED <<old, baseline, paused, hidden>>,
         NEW how \in {"timed_out", "raised", "cancelled"}, End(how)
  PROVE  PollInv'
<1> USE PollerAssumption DEF PollInv, End, Zero
<1>1. TypeOK'
  BY DEF TypeOK, Texts, None, Ends
<1>2. Unfinished' /\ CountsAreReads'
  BY DEF Unfinished, Running, CountsAreReads
<1>3. Honest' /\ PublishedIsFinished'
  BY DEF Honest, Generating, PublishedIsFinished
<1>4. Answered'
  BY DEF Answered, StableWhenReturned, AnswerIsFinished, PartialIsFinal
<1> QED BY <1>1, <1>2, <1>3, <1>4

LEMMA WaitsKeeps ==
  ASSUME PollInv, UNCHANGED <<old, baseline, paused>>, Waits
  PROVE  PollInv'
<1> USE DEF PollInv, Waits
<1>1. TypeOK'
  BY PollerAssumption DEF TypeOK
<1>2. Unfinished' /\ CountsAreReads' /\ Honest' /\ PublishedIsFinished'
  BY DEF Unfinished, Running, CountsAreReads, Honest, Generating,
         PublishedIsFinished
<1>3. Answered'
  BY DEF Running, Answered, StableWhenReturned, AnswerIsFinished, PartialIsFinal
<1> QED BY <1>1, <1>2, <1>3

LEMMA PauseKeeps ==
  ASSUME PollInv, PauseOrResume
  PROVE  PollInv'
<1> USE DEF PollInv, PauseOrResume, poller
<1>1. TypeOK'
  BY DEF TypeOK
<1>2. Unfinished' /\ CountsAreReads' /\ Honest' /\ PublishedIsFinished'
  BY DEF Unfinished, Running, CountsAreReads, Honest, Generating,
         PublishedIsFinished
<1>3. Answered'
  BY DEF Running, Answered, StableWhenReturned, AnswerIsFinished, PartialIsFinal
<1> QED BY <1>1, <1>2, <1>3

LEMMA SleepsType ==
  ASSUME TypeOK, Sleeps
  PROVE  left' \in 0..Timeout /\ pc' = "next"
BY PollerAssumption DEF TypeOK, Sleeps

LEMMA PollsFailureKeeps ==
  ASSUME PollInv, UNCHANGED <<old, baseline, paused>>, PollsFailure
  PROVE  PollInv'
<1> USE PollerAssumption DEF PollInv, Zero
<1>1. PICK clicked \in SUBSET Retryable :
        /\ retries' = [s \in Slides |->
                         IF s \in clicked THEN retries[s] + 1 ELSE retries[s]]
        /\ page' = [s \in Slides |->
                      IF s \in clicked
                      THEN [phase |-> "thinking", parts |-> 0, marked |-> TRUE]
                      ELSE page[s]]
        /\ hidden' = hidden \ clicked
  BY DEF PollsFailure, ClicksRetry
<1>2. /\ prev' = Zero /\ count' = Zero /\ both' = 0 /\ same' = Zero
      /\ partial' = [s \in Slides |-> None]
      /\ answer' = answer /\ Sleeps
  BY DEF PollsFailure
<1>3. left' \in 0..Timeout /\ pc' = "next"
  BY <1>2, SleepsType
<1>4. TypeOK'
  <2>1. retries' \in [Slides -> 0..MaxRetries]
    BY <1>1 DEF Retryable, TypeOK
  <2>2. page' \in [Slides -> [phase  : {"waiting", "thinking", "writing",
                                        "finished", "failed"},
                              parts  : Texts,
                              marked : BOOLEAN]]
    BY <1>1 DEF TypeOK, Texts
  <2>3. hidden' \in SUBSET Slides
    BY <1>1 DEF TypeOK
  <2> QED BY <1>2, <1>3, <2>1, <2>2, <2>3 DEF TypeOK, Texts, None
<1>5. Unfinished' /\ CountsAreReads' /\ PublishedIsFinished'
  BY <1>2 DEF Unfinished, CountsAreReads, PublishedIsFinished
<1>6. Honest'
  BY <1>1 DEF Honest, Generating
<1>7. Answered'
  BY <1>3 DEF Answered, StableWhenReturned, AnswerIsFinished, PartialIsFinal
<1> QED BY <1>4, <1>5, <1>6, <1>7

LEMMA PollsNothingKeeps ==
  ASSUME PollInv, UNCHANGED <<old, baseline, paused>>, PollsNothing
  PROVE  PollInv'
<1> USE PollerAssumption DEF PollInv, PollsNothing, Zero
<1>1. left' \in 0..Timeout /\ pc' = "next"
  BY SleepsType
<1>2. TypeOK'
  BY <1>1 DEF TypeOK, Texts
<1>3. Unfinished' /\ CountsAreReads'
  BY DEF Unfinished, CountsAreReads
<1>4. Honest' /\ PublishedIsFinished'
  BY DEF Honest, Generating, PublishedIsFinished
<1>5. Answered'
  BY <1>1 DEF Answered, StableWhenReturned, AnswerIsFinished, PartialIsFinal
<1> QED BY <1>2, <1>3, <1>4, <1>5

-----------------------------------------------------------------------------
(***************************************************************************)
(* A read of the two texts.                                                *)
(***************************************************************************)
LEMMA ShownType ==
  ASSUME TypeOK, NEW s \in Slides
  PROVE  Shown(s) \in Texts
BY PollerAssumption DEF TypeOK, Shown, Texts

LEMMA CappedType ==
  ASSUME NEW bound \in Nat \ {0}, NEW n \in 0..bound
  PROVE  /\ Capped(n, bound) \in 1..bound
         /\ Capped(n, bound) >= n
         /\ Capped(n, bound) = n + 1 \/ Capped(n, bound) = bound
BY DEF Capped

(* A slide whose read counts, and that hid no indicator, is finished: the  *)
(* old answer is excluded by the baseline, and one that is being written   *)
(* by its indicator.                                                       *)
LEMMA CountedIsFinished ==
  ASSUME TypeOK, Honest, baseline = old, Failed = {},
         NEW s \in Slides \ hidden, Counts(s)
  PROVE  page[s].phase = "finished" /\ Shown(s) = page[s].parts
<1>1. page[s].phase \in {"waiting", "thinking", "writing", "finished", "failed"}
  BY DEF TypeOK
<1>2. page[s].phase # "failed"
  BY DEF Failed
<1>3. page[s].phase # "waiting" /\ page[s].phase # "thinking"
  BY DEF Counts, Shown
<1>4. page[s].phase # "writing"
  BY DEF Counts, Quiet, HasCopyButton, HasIndicator, Generating, Honest
<1> QED BY <1>1, <1>2, <1>3, <1>4 DEF Shown

LEMMA PollsTextKeeps ==
  ASSUME PollInv, UNCHANGED <<old, baseline, paused>>, PollsText
  PROVE  PollInv'
<1> USE PollerAssumption
<1>1. TypeOK /\ Running /\ both < Required /\ Failed = {}
  BY DEF PollInv, Unfinished, PollsText, Polling, Running
<1>2. /\ prev' = [s \in Slides |-> Shown(s)]
      /\ count' = [s \in Slides |->
                     IF Counts(s) THEN Capped(count[s], Required) ELSE 0]
      /\ partial' = [s \in Slides |-> IF Emits(s) THEN Shown(s) ELSE partial[s]]
      /\ same' = [s \in Slides |->
                    IF Shown(s) = prev[s] THEN Capped(same[s], 2 * Required) ELSE 1]
      /\ page' = page /\ retries' = retries /\ hidden' = hidden
  BY DEF PollsText
<1>3. \/ both' = 0
      \/ both' = both + 1 /\ \A s \in Slides : count'[s] >= Required
  BY DEF PollsText
<1>4. \/ both' >= Required /\ pc' = "answered"
         /\ answer' = [s \in Slides |-> Shown(s)] /\ left' = left
      \/ ~(both' >= Required) /\ Sleeps /\ answer' = answer
  BY DEF PollsText
<1>5. \A s \in Slides : Shown(s) \in Texts
  BY <1>1, ShownType
<1>6. ASSUME NEW s \in Slides
      PROVE  /\ count'[s] \in 0..Required
             /\ same'[s] \in 1..(2 * Required)
             /\ count'[s] > 0 => Counts(s) /\ count'[s] <= count[s] + 1
             /\ Shown(s) = prev[s] =>
                  same'[s] = same[s] + 1 \/ same'[s] = 2 * Required
  <2>1. count[s] \in 0..Required /\ same[s] \in 0..(2 * Required)
    BY <1>1 DEF TypeOK
  <2>2. /\ Capped(count[s], Required) \in 1..Required
        /\ Capped(count[s], Required) <= count[s] + 1
    BY <2>1 DEF Capped
  <2>3. /\ Capped(same[s], 2 * Required) \in 1..(2 * Required)
        /\ \/ Capped(same[s], 2 * Required) = same[s] + 1
           \/ Capped(same[s], 2 * Required) = 2 * Required
    BY <2>1 DEF Capped
  <2> QED BY <1>2, <2>2, <2>3
<1>7. TypeOK'
  <2>1. both' \in 0..Required
    BY <1>1, <1>3 DEF TypeOK
  <2>2. /\ count' \in [Slides -> 0..Required]
        /\ same' \in [Slides -> 0..(2 * Required)]
    BY <1>2, <1>6
  <2>3. prev' \in [Slides -> Texts] /\ partial' \in [Slides -> Texts \cup {None}]
    BY <1>1, <1>2, <1>5 DEF TypeOK
  <2>4. /\ left' \in 0..Timeout /\ pc' \in {"first", "next"} \cup Ends
        /\ answer' \in [Slides -> Texts]
    BY <1>1, <1>4, <1>5, SleepsType DEF TypeOK, Ends
  <2> QED BY <1>1, <1>2, <2>1, <2>2, <2>3, <2>4 DEF TypeOK
<1>8. CountsAreReads'
  <2> SUFFICES ASSUME NEW s \in Slides
               PROVE  /\ same'[s] >= 1
                      /\ count'[s] > 0 => same'[s] >= count'[s] + 1
                      /\ both' > 0 => same'[s] >= Required + both'
    BY DEF CountsAreReads
  <2>1. same'[s] \in 1..(2 * Required) /\ count'[s] \in 0..Required
    BY <1>6
  <2>2. count[s] \in 0..Required /\ same[s] \in 0..(2 * Required) /\ both \in 0..Required
    BY <1>1 DEF TypeOK
  <2>3. /\ prev[s] # 0 => same[s] >= 1
        /\ count[s] > 0 => same[s] >= count[s] + 1
        /\ both > 0 => same[s] >= Required + both
    BY DEF PollInv, CountsAreReads
  <2>4. ASSUME count'[s] > 0
        PROVE  /\ same'[s] = same[s] + 1 \/ same'[s] = 2 * Required
               /\ count'[s] <= count[s] + 1
               /\ same[s] >= count[s] + 1
    <3>1. Shown(s) = prev[s] /\ prev[s] # 0
      BY <1>6, <2>4 DEF Counts
    <3> QED BY <1>6, <2>2, <2>3, <2>4, <3>1
  <2>5. count'[s] > 0 => same'[s] >= count'[s] + 1
    BY <2>1, <2>2, <2>4
  <2>6. ASSUME both' > 0
        PROVE  same'[s] >= Required + both'
    <3>1. both' = both + 1 /\ count'[s] = Required /\ count'[s] > 0
      BY <1>3, <2>1, <2>6
    <3>2. CASE both = 0
      BY <2>1, <2>2, <2>5, <3>1, <3>2
    <3>3. CASE both > 0
      BY <1>1, <2>1, <2>2, <2>3, <2>4, <3>1, <3>3
    <3> QED BY <2>2, <3>2, <3>3
  <2> QED BY <2>1, <2>5, <2>6
<1>9. Unfinished'
  <2>1. both' \in 0..Required
    BY <1>7 DEF TypeOK
  <2> QED BY <1>4, <2>1 DEF Unfinished, Running
<1>10. Honest'
  BY <1>2 DEF PollInv, Honest, Generating
<1>11. PublishedIsFinished'
  <2> SUFFICES ASSUME baseline = old, NEW s \in Slides \ hidden,
                      partial'[s] # None
               PROVE  page[s].phase = "finished" /\ partial'[s] = page[s].parts
    BY <1>2 DEF PublishedIsFinished
  <2>1. CASE Emits(s)
    <3>1. Counts(s)
      BY <1>6, <2>1 DEF Emits
    <3> QED BY <1>1, <1>2, <2>1, <3>1, CountedIsFinished DEF PollInv
  <2>2. CASE ~Emits(s)
    BY <1>2, <2>2 DEF PollInv, PublishedIsFinished
  <2> QED BY <2>1, <2>2
<1>12. Answered'
  <2> SUFFICES ASSUME pc' = "answered", NEW s \in Slides
               PROVE  /\ same'[s] >= 2 * Required /\ answer'[s] # 0
                      /\ baseline = old /\ s \notin hidden =>
                           /\ page[s].phase = "finished"
                           /\ answer'[s] = page[s].parts
                           /\ partial'[s] = answer'[s]
    BY <1>2 DEF Answered, StableWhenReturned, AnswerIsFinished, PartialIsFinal
  <2>1. both' = Required /\ answer'[s] = Shown(s)
    <3>1. pc' # "next" /\ both' \in 0..Required
      BY <1>7 DEF TypeOK
    <3> QED BY <1>1, <1>4, <3>1, SleepsType
  <2>2. count'[s] >= Required /\ Counts(s)
    BY <1>3, <1>6, <2>1
  <2>3. same'[s] >= 2 * Required
    BY <1>8, <2>1 DEF CountsAreReads
  <2>4. ASSUME baseline = old, s \notin hidden
        PROVE  /\ page[s].phase = "finished"
               /\ answer'[s] = page[s].parts
               /\ partial'[s] = answer'[s]
    <3>1. page[s].phase = "finished" /\ answer'[s] = page[s].parts
      BY <1>1, <2>1, <2>2, <2>4, CountedIsFinished DEF PollInv
    <3>2. partial'[s] # None
      <4>1. Shown(s) # None
        BY <1>5 DEF Texts, None
      <4> QED BY <1>2, <2>2, <4>1 DEF Emits
    <3>3. partial'[s] = page[s].parts
      BY <1>2, <1>11, <2>4, <3>2 DEF PublishedIsFinished
    <3> QED BY <3>1, <3>3
  <2> QED BY <2>1, <2>2, <2>3, <2>4 DEF Counts
<1> QED BY <1>7, <1>8, <1>9, <1>10, <1>11, <1>12 DEF PollInv

-----------------------------------------------------------------------------
LEMMA PollKept == PollInv /\ [Next]_vars => PollInv'
<1> SUFFICES ASSUME PollInv, [Next]_vars
             PROVE  PollInv'
  OBVIOUS
<1>1. CASE Page
  BY <1>1, PageKeeps
<1>2. CASE Poll
  <2>1. UNCHANGED <<old, baseline, paused>>
    BY <1>2 DEF Poll
  <2>2. CASE TimesOut \/ Raises
    BY <2>1, <2>2, EndKeeps DEF TimesOut, Raises
  <2>3. CASE Waits
    BY <2>1, <2>3, WaitsKeeps
  <2>4. CASE PollsFailure
    BY <2>1, <2>4, PollsFailureKeeps
  <2>5. CASE PollsNothing
    BY <2>1, <2>5, PollsNothingKeeps
  <2>6. CASE PollsText
    BY <2>1, <2>6, PollsTextKeeps
  <2> QED BY <1>2, <2>2, <2>3, <2>4, <2>5, <2>6 DEF Poll
<1>3. CASE Stops
  BY <1>3, EndKeeps DEF Stops
<1>4. CASE PauseOrResume
  BY <1>4, PauseKeeps
<1>5. CASE UNCHANGED vars
  BY <1>5
  DEF vars, poller, PollInv, TypeOK, Unfinished, Running, CountsAreReads, Honest,
      Generating, PublishedIsFinished, Answered, StableWhenReturned,
      AnswerIsFinished, PartialIsFinal
<1> QED BY <1>1, <1>2, <1>3, <1>4, <1>5 DEF Next

LEMMA PollHolds == Spec => []PollInv
BY PollInitially, PollKept, PTL DEF Spec

(* Every variable keeps its type; in particular no slide is retried more   *)
(* often than retry_counts allows and the count of both never passes       *)
(* stable_polls_required, since the read that reaches it ends the call.    *)
THEOREM TypeCorrect == Spec => []TypeOK
<1>1. PollInv => TypeOK
  BY DEF PollInv
<1> QED BY <1>1, PollHolds, PTL

(* Whatever the page does, poll() returns texts that it has read twice     *)
(* stable_polls_required times in a row.                                   *)
THEOREM ReturnedStable == Spec => []StableWhenReturned
<1>1. PollInv => StableWhenReturned
  BY DEF PollInv, Answered
<1> QED BY <1>1, PollHolds, PTL

(* With the baseline, poll() returns finished answers of this turn, except *)
(* of a slide that hid the indicator of the answer while it wrote it.      *)
THEOREM ReturnedFinished == Spec => []AnswerIsFinished
<1>1. PollInv => AnswerIsFinished
  BY DEF PollInv, Answered
<1> QED BY <1>1, PollHolds, PTL

(* Under the same conditions WORKER_PARTIAL_RESULT and the final result of *)
(* a slide agree, whatever failed and was retried before.                  *)
THEOREM PartialAgrees == Spec => []PartialIsFinal
<1>1. PollInv => PartialIsFinal
  BY DEF PollInv, Answered
<1> QED BY <1>1, PollHolds, PTL

=============================================================================
