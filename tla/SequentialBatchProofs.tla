------------------------ MODULE SequentialBatchProofs ------------------------
(***************************************************************************)
(* Proofs about SubmitSlots and SequentialBatch, for any number of         *)
(* windows, groups, turns and resets and any set of gaps.                  *)
(***************************************************************************)
EXTENDS SequentialBatch, TLAPS, FiniteSetTheorems

-----------------------------------------------------------------------------
(***************************************************************************)
(* The invariant of the submit slots.                                      *)
(***************************************************************************)

(* Who waits for or holds a group's lock is in its queue, once, and nobody *)
(* else is.                                                                *)
QueuesFit ==
  /\ \A g \in Groups : \A i, j \in 1..Len(queue[g]) :
       queue[g][i] = queue[g][j] => i = j
  /\ \A g \in Groups : \A i \in 1..Len(queue[g]) :
       slot[queue[g][i]].at # "away" /\ slot[queue[g][i]].group = g
  /\ \A c \in Callers : slot[c].at # "away" =>
       \E i \in 1..Len(queue[slot[c].group]) : queue[slot[c].group][i] = c

(* Only the holder sleeps, and neither a new holder nor the sleeping one   *)
(* can be through before the gap drawn last is over.                       *)
GapAhead ==
  /\ \A g \in Groups : readyIn[g] + since[g] >= gap[g]
  /\ \A c \in Callers : slot[c].at = "sleeping" =>
       /\ queue[slot[c].group][1] = c
       /\ slot[c].left + since[slot[c].group] >= gap[slot[c].group]

SlotInv == SlotTypeOK /\ QueuesFit /\ GapAhead /\ SlotsApart

-----------------------------------------------------------------------------
(***************************************************************************)
(* The invariant of the batch.                                             *)
(***************************************************************************)
Early == {early[i] : i \in DOMAIN early}

Below(n) == 1..(n - 1)

(* Where the loops are: they index a window, the phases of the system      *)
(* prompt have one, a recovery has its entry of early_failures.            *)
InRange ==
  /\ phase \in {"system", "collect", "submit"} => at \in Windows
  /\ phase \in {"system", "poll_system", "collect"} => system
  /\ \A c \in Callers : task[c].step # "none" => c \in DOMAIN early

Distinct == \A i, j \in DOMAIN early : early[i] = early[j] => i = j

(* In each loop the windows before `at` were sent a prompt or failed, not  *)
(* both, and those after it did not fail in this loop: with a system       *)
(* prompt, the ones that are to be skipped failed before.                  *)
Sorted ==
  /\ phase = "system" =>
       Early \cup sent = Below(at) /\ Early \cap sent = {} /\ baseline = {}
  /\ phase = "poll_system" =>
       Early \cup sent = Windows /\ Early \cap sent = {} /\ baseline = {}
  /\ phase = "collect" =>
       /\ Early \cup sent = Windows
       /\ Early \cap sent \subseteq Below(at)
       /\ baseline = (sent \cap Below(at)) \ Early
  /\ phase = "submit" =>
       /\ sent \subseteq Below(at) /\ Below(at) \subseteq Early \cup sent
       /\ Early \cap sent = {}
       /\ \A w \in Windows : Skips(w) => w \in Early
       /\ \A w \in Early : w < at \/ Skips(w)
  /\ phase = "poll" => Early \cup sent = Windows /\ Early \cap sent = {}
  /\ phase = "recover" => Early = Windows

(* Results are recorded once: a window that goes on with the conversation  *)
(* has none from this turn on.                                             *)
RecordedOnce ==
  /\ phase \in {"system", "poll_system", "collect", "submit", "poll", "recover"}
       => results = [w \in Windows |-> [t \in Turns |-> 0]]
  /\ phase \in {"prepare_turn", "submit_turn"} =>
       /\ turn > 0
       /\ \A w \in Windows :
            /\ results[w][0] = 1
            /\ \A t \in Turns : results[w][t] <= 1
       /\ \A w \in surviving : \A t \in Turns : t >= turn => results[w][t] = 0

BatchInv ==
  /\ TypeOK
  /\ InRange
  /\ Distinct
  /\ Sorted
  /\ RecordedOnce
  /\ OneResultEach
-----------------------------------------------------------------------------
(***************************************************************************)
(* The steps of the slots.                                                 *)
(***************************************************************************)
LEMMA LongestType ==
  /\ Longest \in Gaps /\ Longest \in Nat
  /\ \A g \in Gaps : g <= Longest
BY SlotAssumption DEF Longest

LEMMA AwayType ==
  Away \in [at : {"away", "queued", "sleeping"}, group : Groups, left : 0..Longest]
BY SlotAssumption, LongestType DEF Away

LEMMA SlotInitially == SlotInit => SlotInv
<1> SUFFICES ASSUME SlotInit PROVE SlotInv
  OBVIOUS
<1> USE DEF SlotInit
<1>1. SlotTypeOK
  BY LongestType, AwayType DEF SlotTypeOK
<1>2. \A c \in Callers : slot[c].at = "away"
  BY DEF Away
<1>3. QueuesFit
  BY <1>2 DEF QueuesFit
<1>4. GapAhead
  BY <1>2, LongestType DEF GapAhead
<1> QED BY <1>1, <1>3, <1>4 DEF SlotInv, SlotsApart

(* A caller joins the queue of its group.                                  *)
LEMMA AskKeeps ==
  ASSUME SlotInv, NEW c \in Callers, NEW g \in Groups, AskSlot(c, g)
  PROVE  SlotInv'
<1> USE DEF SlotInv
<1> DEFINE n == Len(queue[g])
<1>1. /\ slot[c].at = "away"
      /\ slot' = [slot EXCEPT ![c] = Waiting(g)]
      /\ queue' = [queue EXCEPT ![g] = Append(queue[g], c)]
      /\ UNCHANGED <<readyIn, since, gap, tooSoon>>
  BY DEF AskSlot
<1>2. queue[g] \in Seq(Callers) /\ n \in Nat
  BY DEF SlotTypeOK
<1>3. /\ queue'[g] \in Seq(Callers)
      /\ Len(queue'[g]) = n + 1
      /\ \A i \in 1..n : queue'[g][i] = queue[g][i]
      /\ queue'[g][n + 1] = c
      /\ \A h \in Groups \ {g} : queue'[h] = queue[h]
  BY <1>1, <1>2 DEF SlotTypeOK
<1>4. /\ slot'[c] = Waiting(g)
      /\ \A d \in Callers \ {c} : slot'[d] = slot[d]
  BY <1>1 DEF SlotTypeOK
<1>5. SlotTypeOK'
  <2>1. Waiting(g) \in [at : {"away", "queued", "sleeping"}, group : Groups,
                        left : 0..Longest]
    BY LongestType DEF Waiting
  <2>2. queue' \in [Groups -> Seq(Callers)]
    BY <1>1, <1>3 DEF SlotTypeOK
  <2> QED BY <1>1, <2>1, <2>2 DEF SlotTypeOK
<1>6. \A h \in Groups : \A i \in 1..Len(queue[h]) :
        queue[h][i] # c /\ queue[h][i] \in Callers
  <2>1. \A h \in Groups : queue[h] \in Seq(Callers)
    BY DEF SlotTypeOK
  <2>2. \A h \in Groups : \A i \in 1..Len(queue[h]) : queue[h][i] \in Callers
    BY <2>1
  <2> QED BY <1>1, <2>2 DEF QueuesFit
<1>7. QueuesFit'
  <2>1. ASSUME NEW h \in Groups, NEW i \in 1..Len(queue'[h]),
               NEW j \in 1..Len(queue'[h]), queue'[h][i] = queue'[h][j]
        PROVE  i = j
    <3>1. CASE h = g
      <4>1. i \in 1..n \/ i = n + 1
        BY <1>2, <1>3, <3>1
      <4>2. j \in 1..n \/ j = n + 1
        BY <1>2, <1>3, <3>1
      <4> QED BY <1>3, <1>6, <2>1, <3>1, <4>1, <4>2 DEF QueuesFit
    <3>2. CASE h # g
      BY <1>3, <2>1, <3>2 DEF QueuesFit
    <3> QED BY <3>1, <3>2
  <2>2. ASSUME NEW h \in Groups, NEW i \in 1..Len(queue'[h])
        PROVE  slot'[queue'[h][i]].at # "away" /\ slot'[queue'[h][i]].group = h
    <3>1. CASE h = g /\ i = n + 1
      BY <1>3, <1>4, <3>1 DEF Waiting
    <3>2. CASE ~(h = g /\ i = n + 1)
      <4>1. i \in 1..Len(queue[h]) /\ queue'[h][i] = queue[h][i]
        BY <1>2, <1>3, <3>2
      <4> QED BY <1>4, <1>6, <4>1 DEF QueuesFit
    <3> QED BY <3>1, <3>2
  <2>3. ASSUME NEW d \in Callers, slot'[d].at # "away"
        PROVE  \E i \in 1..Len(queue'[slot'[d].group]) : queue'[slot'[d].group][i] = d
    <3>1. CASE d = c
      <4>1. slot'[d].group = g /\ n + 1 \in 1..Len(queue'[g])
        BY <1>2, <1>3, <1>4, <3>1 DEF Waiting
      <4> QED BY <1>3, <3>1, <4>1
    <3>2. CASE d # c
      <4>1. slot'[d] = slot[d] /\ slot[d].group \in Groups
        BY <1>4, <3>2 DEF SlotTypeOK
      <4>2. PICK i \in 1..Len(queue[slot[d].group]) : queue[slot[d].group][i] = d
        BY <2>3, <4>1 DEF QueuesFit
      <4>3. i \in 1..Len(queue'[slot[d].group]) /\ queue'[slot[d].group][i] = d
        BY <1>2, <1>3, <4>1, <4>2
      <4> QED BY <4>1, <4>3
    <3> QED BY <3>1, <3>2
  <2> QED BY <2>1, <2>2, <2>3 DEF QueuesFit
<1>8. GapAhead'
  <2> SUFFICES ASSUME NEW d \in Callers, slot'[d].at = "sleeping"
               PROVE  /\ queue'[slot'[d].group][1] = d
                      /\ slot'[d].left + since[slot'[d].group] >= gap[slot'[d].group]
    BY <1>1 DEF GapAhead
  <2>1. d # c /\ slot'[d] = slot[d] /\ slot[d].group \in Groups
    BY <1>4 DEF Waiting, SlotTypeOK
  <2>2. 1 \in 1..Len(queue[slot[d].group])
    <3>1. queue[slot[d].group] \in Seq(Callers)
      BY <2>1 DEF SlotTypeOK
    <3>2. PICK i \in 1..Len(queue[slot[d].group]) : queue[slot[d].group][i] = d
      BY <2>1 DEF QueuesFit
    <3> QED BY <3>1, <3>2
  <2>3. queue'[slot[d].group][1] = queue[slot[d].group][1]
    BY <1>3, <2>1, <2>2
  <2> QED BY <2>1, <2>3 DEF GapAhead
<1> QED BY <1>1, <1>5, <1>7, <1>8 DEF SlotsApart

(* The holder of a lock is at the head of a queue that is not empty.       *)
LEMMA HeadHolds ==
  ASSUME SlotInv, NEW c \in Callers, slot[c].at # "away",
         slot[c].at = "sleeping" \/ First(c)
  PROVE  /\ slot[c].group \in Groups
         /\ queue[slot[c].group] \in Seq(Callers)
         /\ Len(queue[slot[c].group]) >= 1
         /\ queue[slot[c].group][1] = c
<1> USE DEF SlotInv
<1>1. slot[c].group \in Groups /\ queue[slot[c].group] \in Seq(Callers)
  BY DEF SlotTypeOK
<1>2. PICK i \in 1..Len(queue[slot[c].group]) : queue[slot[c].group][i] = c
  BY DEF QueuesFit
<1>3. Len(queue[slot[c].group]) >= 1
  BY <1>1, <1>2
<1>4. Head(queue[slot[c].group]) = queue[slot[c].group][1]
  BY <1>1, <1>3
<1> QED BY <1>1, <1>3, <1>4 DEF First, GapAhead

LEMMA ReadKeeps ==
  ASSUME SlotInv, NEW c \in Callers, ReadSlot(c)
  PROVE  SlotInv'
<1> USE DEF SlotInv
<1> DEFINE g == slot[c].group
<1>1. /\ slot[c].at = "queued" /\ First(c)
      /\ slot' = [slot EXCEPT ![c] = Asleep(g, readyIn[g])]
      /\ UNCHANGED <<queue, readyIn, since, gap, tooSoon>>
  BY DEF ReadSlot
<1>2. g \in Groups /\ queue[g][1] = c
  BY <1>1, HeadHolds
<1>3. /\ slot'[c] = Asleep(g, readyIn[g])
      /\ \A d \in Callers \ {c} : slot'[d] = slot[d]
  BY <1>1 DEF SlotTypeOK
<1>4. SlotTypeOK'
  <2>1. Asleep(g, readyIn[g]) \in [at : {"away", "queued", "sleeping"},
                                   group : Groups, left : 0..Longest]
    BY <1>2 DEF SlotTypeOK, Asleep
  <2> QED BY <1>1, <2>1 DEF SlotTypeOK
<1>5. \A d \in Callers : /\ slot'[d].group = slot[d].group
                         /\ slot'[d].at = "away" <=> slot[d].at = "away"
  BY <1>1, <1>3 DEF Asleep
<1>6. QueuesFit'
  <2>1. \A h \in Groups : \A i \in 1..Len(queue[h]) : queue[h][i] \in Callers
    BY DEF SlotTypeOK
  <2> QED BY <1>1, <1>5, <2>1 DEF QueuesFit
<1>7. GapAhead'
  <2>1. slot'[c].left = readyIn[g] /\ slot'[c].group = g
    BY <1>3 DEF Asleep
  <2> QED BY <1>1, <1>2, <1>3, <2>1 DEF GapAhead
<1> QED BY <1>1, <1>4, <1>6, <1>7 DEF SlotsApart

(* The holder leaves: the others keep their places, one further.           *)
LEMMA LeaveKeeps ==
  ASSUME SlotInv, NEW c \in Callers, slot[c].at # "away",
         slot[c].at = "sleeping" \/ First(c), LeaveLock(c)
  PROVE  /\ queue' \in [Groups -> Seq(Callers)]
         /\ slot' \in [Callers -> [at    : {"away", "queued", "sleeping"},
                                   group : Groups,
                                   left  : 0..Longest]]
         /\ QueuesFit'
         /\ \A d \in Callers : slot'[d].at = "sleeping" =>
              /\ slot'[d] = slot[d] /\ slot[d].group # slot[c].group
              /\ queue'[slot[d].group][1] = d
<1> USE DEF SlotInv
<1> DEFINE g == slot[c].group
           q == queue[g]
<1>1. /\ g \in Groups /\ q \in Seq(Callers) /\ Len(q) >= 1 /\ q[1] = c
  BY HeadHolds
<1>2. /\ queue' = [queue EXCEPT ![g] = Tail(q)]
      /\ slot' = [slot EXCEPT ![c] = Away]
  BY DEF LeaveLock
<1>3. /\ Tail(q) \in Seq(Callers)
      /\ Len(Tail(q)) = Len(q) - 1
      /\ \A i \in 1..(Len(q) - 1) : Tail(q)[i] = q[i + 1]
  BY <1>1
<1>4. /\ queue'[g] = Tail(q)
      /\ \A h \in Groups \ {g} : queue'[h] = queue[h]
      /\ slot'[c] = Away
      /\ \A d \in Callers \ {c} : slot'[d] = slot[d]
  BY <1>1, <1>2 DEF SlotTypeOK
<1>5. queue' \in [Groups -> Seq(Callers)]
  BY <1>2, <1>3 DEF SlotTypeOK
<1>6. slot' \in [Callers -> [at    : {"away", "queued", "sleeping"},
                             group : Groups,
                             left  : 0..Longest]]
  BY <1>2, AwayType DEF SlotTypeOK
<1> HIDE DEF q
<1>7. ASSUME NEW h \in Groups, NEW i \in 1..Len(queue'[h])
      PROVE  /\ queue'[h][i] \in Callers \ {c}
             /\ queue'[h][i] = queue[h][IF h = g THEN i + 1 ELSE i]
             /\ (IF h = g THEN i + 1 ELSE i) \in 1..Len(queue[h])
  <2>1. CASE h = g
    <3>1. i + 1 \in 1..Len(q) /\ queue'[h][i] = q[i + 1]
      BY <1>1, <1>3, <1>4, <2>1
    <3>2. q[i + 1] \in Callers
      BY <1>1, <3>1
    <3>3. q[i + 1] # q[1]
      BY <1>1, <3>1 DEF QueuesFit, q
    <3> QED BY <1>1, <2>1, <3>1, <3>2, <3>3 DEF q
  <2>2. CASE h # g
    <3>1. queue'[h] = queue[h] /\ queue[h] \in Seq(Callers)
      BY <1>4, <2>2 DEF SlotTypeOK
    <3>2. queue[h][i] \in Callers /\ slot[queue[h][i]].group = h
      BY <3>1 DEF QueuesFit
    <3> QED BY <2>2, <3>1, <3>2
  <2> QED BY <2>1, <2>2
<1>8. QueuesFit'
  <2>1. ASSUME NEW h \in Groups, NEW i \in 1..Len(queue'[h]),
               NEW j \in 1..Len(queue'[h]), queue'[h][i] = queue'[h][j]
        PROVE  i = j
    <3> DEFINE a == IF h = g THEN i + 1 ELSE i
               b == IF h = g THEN j + 1 ELSE j
    <3>1. a \in 1..Len(queue[h]) /\ b \in 1..Len(queue[h]) /\ queue[h][a] = queue[h][b]
      BY <1>7, <2>1
    <3>2. a = b
      BY <3>1 DEF QueuesFit
    <3> QED BY <3>2
  <2>2. ASSUME NEW h \in Groups, NEW i \in 1..Len(queue'[h])
        PROVE  slot'[queue'[h][i]].at # "away" /\ slot'[queue'[h][i]].group = h
    <3> DEFINE a == IF h = g THEN i + 1 ELSE i
    <3>1. a \in 1..Len(queue[h]) /\ queue'[h][i] = queue[h][a]
      BY <1>7
    <3>2. slot'[queue'[h][i]] = slot[queue'[h][i]]
      BY <1>4, <1>7
    <3>3. slot[queue[h][a]].at # "away" /\ slot[queue[h][a]].group = h
      BY <3>1 DEF QueuesFit
    <3> QED BY <3>1, <3>2, <3>3
  <2>3. ASSUME NEW d \in Callers, slot'[d].at # "away"
        PROVE  \E i \in 1..Len(queue'[slot'[d].group]) : queue'[slot'[d].group][i] = d
    <3>1. d # c /\ slot'[d] = slot[d] /\ slot[d].group \in Groups
      BY <1>4, <2>3 DEF Away, SlotTypeOK
    <3>2. PICK i \in 1..Len(queue[slot[d].group]) : queue[slot[d].group][i] = d
      BY <2>3, <3>1 DEF QueuesFit
    <3>3. CASE slot[d].group = g
      <4>1. i # 1 /\ i - 1 \in 1..(Len(q) - 1)
        BY <1>1, <3>1, <3>2, <3>3 DEF q
      <4>2. queue'[g][i - 1] = d /\ i - 1 \in 1..Len(queue'[g])
        BY <1>1, <1>3, <1>4, <3>2, <3>3, <4>1 DEF q
      <4> QED BY <3>1, <3>3, <4>2
    <3>4. CASE slot[d].group # g
      BY <1>4, <3>1, <3>2, <3>4
    <3> QED BY <3>3, <3>4
  <2> QED BY <2>1, <2>2, <2>3 DEF QueuesFit
<1>9. ASSUME NEW d \in Callers, slot'[d].at = "sleeping"
      PROVE  /\ slot'[d] = slot[d] /\ slot[d].group # g
             /\ queue'[slot[d].group][1] = d
  <2>1. d # c /\ slot'[d] = slot[d] /\ slot[d].group \in Groups
    BY <1>4, <1>9 DEF Away, SlotTypeOK
  <2>2. queue[slot[d].group][1] = d
    BY <1>9, <2>1 DEF GapAhead
  <2>3. slot[d].group # g
    BY <1>1, <2>1, <2>2 DEF q
  <2> QED BY <1>4, <2>1, <2>2, <2>3
<1> QED BY <1>5, <1>6, <1>8, <1>9

LEMMA TakeKeeps ==
  ASSUME SlotInv, NEW c \in Callers, TakeSlot(c)
  PROVE  SlotInv'
<1> USE DEF SlotInv
<1> DEFINE g == slot[c].group
<1>1. /\ slot[c].at = "sleeping" /\ slot[c].left = 0 /\ LeaveLock(c)
      /\ since' = [since EXCEPT ![g] = 0]
      /\ tooSoon' = IF since[g] < gap[g] THEN tooSoon \cup {g} ELSE tooSoon
  BY DEF TakeSlot
<1>2. PICK wait \in Gaps : /\ readyIn' = [readyIn EXCEPT ![g] = wait]
                           /\ gap' = [gap EXCEPT ![g] = wait]
  BY DEF TakeSlot
<1>3. wait \in Nat /\ wait \in 0..Longest
  BY LongestType, SlotAssumption
<1>4. g \in Groups
  BY DEF SlotTypeOK
<1>5. /\ queue' \in [Groups -> Seq(Callers)]
      /\ slot' \in [Callers -> [at    : {"away", "queued", "sleeping"},
                                group : Groups,
                                left  : 0..Longest]]
      /\ QueuesFit'
      /\ \A d \in Callers : slot'[d].at = "sleeping" =>
           /\ slot'[d] = slot[d] /\ slot[d].group # g
           /\ queue'[slot[d].group][1] = d
  BY <1>1, LeaveKeeps
<1>6. /\ readyIn'[g] = wait /\ gap'[g] = wait /\ since'[g] = 0
      /\ \A h \in Groups \ {g} : /\ readyIn'[h] = readyIn[h]
                                 /\ gap'[h] = gap[h] /\ since'[h] = since[h]
  BY <1>1, <1>2, <1>4 DEF SlotTypeOK
<1>7. since[g] >= gap[g]
  <2>1. since[g] \in Nat /\ 0 + since[g] >= gap[g]
    BY <1>1, <1>4 DEF GapAhead, SlotTypeOK
  <2> QED BY <2>1
<1>8. SlotsApart'
  <2>1. since[g] \in Nat
    BY <1>4, LongestType DEF SlotTypeOK
  <2>2. gap[g] \in Nat
    <3>1. gap[g] \in Gaps \cup {0}
      BY <1>4 DEF SlotTypeOK
    <3>2. Gaps \subseteq Nat /\ 0 \in Nat
      BY SlotAssumption
    <3> QED BY <3>1, <3>2
  <2>3. ~(since[g] < gap[g])
    BY <1>7, <2>1, <2>2
  <2> QED BY <1>1, <2>3 DEF SlotsApart
<1>9. SlotTypeOK'
  <2>1. /\ readyIn' \in [Groups -> 0..Longest]
        /\ since' \in [Groups -> 0..Longest]
        /\ gap' \in [Groups -> Gaps \cup {0}]
    BY <1>1, <1>2, <1>3, <1>4, LongestType DEF SlotTypeOK
  <2> QED BY <1>5, <1>8, <2>1 DEF SlotTypeOK, SlotsApart
<1>10. GapAhead'
  <2>1. ASSUME NEW h \in Groups
        PROVE  readyIn'[h] + since'[h] >= gap'[h]
    BY <1>3, <1>6 DEF GapAhead
  <2>2. ASSUME NEW d \in Callers, slot'[d].at = "sleeping"
        PROVE  /\ queue'[slot'[d].group][1] = d
               /\ slot'[d].left + since'[slot'[d].group] >= gap'[slot'[d].group]
    <3>1. slot[d].group \in Groups \ {g}
      BY <1>5, <2>2 DEF SlotTypeOK
    <3>2. slot'[d] = slot[d] /\ slot[d].at = "sleeping" /\ queue'[slot[d].group][1] = d
      BY <1>5, <2>2
    <3>3. slot[d].left + since[slot[d].group] >= gap[slot[d].group]
      BY <3>2 DEF GapAhead
    <3>4. since'[slot[d].group] = since[slot[d].group] /\ gap'[slot[d].group] = gap[slot[d].group]
      BY <1>6, <3>1
    <3> QED BY <3>2, <3>3, <3>4
  <2> QED BY <2>1, <2>2 DEF GapAhead
<1> QED BY <1>5, <1>8, <1>9, <1>10

LEMMA SkipKeeps ==
  ASSUME SlotInv, NEW c \in Callers, SkipSlot(c)
  PROVE  SlotInv'
<1> USE DEF SlotInv
<1>1. /\ LeaveLock(c) /\ slot[c].at # "away"
      /\ slot[c].at = "sleeping" \/ First(c)
      /\ UNCHANGED <<readyIn, since, gap, tooSoon>>
  BY DEF SkipSlot
<1>2. /\ queue' \in [Groups -> Seq(Callers)]
      /\ slot' \in [Callers -> [at    : {"away", "queued", "sleeping"},
                                group : Groups,
                                left  : 0..Longest]]
      /\ QueuesFit'
      /\ \A d \in Callers : slot'[d].at = "sleeping" =>
           /\ slot'[d] = slot[d]
           /\ queue'[slot[d].group][1] = d
  BY <1>1, LeaveKeeps
<1>3. SlotTypeOK'
  BY <1>1, <1>2 DEF SlotTypeOK
<1>4. GapAhead'
  BY <1>1, <1>2 DEF GapAhead
<1> QED BY <1>1, <1>2, <1>3, <1>4 DEF SlotsApart

(* Time passes: what is waited for shrinks by no more than what was waited *)
(* grows, unless that is already longer than any gap.                      *)
LEMMA SoonerType ==
  ASSUME NEW n \in 0..Longest
  PROVE  Sooner(n) \in 0..Longest /\ (n > 0 => Sooner(n) = n - 1) /\ n <= Sooner(n) + 1
BY LongestType DEF Sooner

LEMMA TickKeeps ==
  ASSUME SlotInv, Tick
  PROVE  SlotInv'
<1> USE DEF SlotInv
<1>1. /\ readyIn' = [g \in Groups |-> Sooner(readyIn[g])]
      /\ slot' = [c \in Callers |-> [slot[c] EXCEPT !.left = Sooner(@)]]
      /\ since' = [g \in Groups |->
                     IF since[g] < Longest THEN since[g] + 1 ELSE Longest]
      /\ UNCHANGED <<queue, gap, tooSoon>>
  BY DEF Tick
<1>2. ASSUME NEW g \in Groups
      PROVE  /\ readyIn[g] \in 0..Longest /\ since[g] \in 0..Longest
             /\ gap[g] \in 0..Longest
             /\ since'[g] = since[g] + 1 \/ since'[g] = Longest
             /\ since'[g] \in 0..Longest /\ readyIn'[g] \in 0..Longest
             /\ readyIn'[g] = Sooner(readyIn[g])
  BY <1>1, LongestType, SlotAssumption, SoonerType DEF SlotTypeOK
<1>3. ASSUME NEW c \in Callers
      PROVE  /\ slot[c].group \in Groups /\ slot[c].left \in 0..Longest
             /\ slot'[c].at = slot[c].at /\ slot'[c].group = slot[c].group
             /\ slot'[c].left = Sooner(slot[c].left)
             /\ slot'[c] \in [at    : {"away", "queued", "sleeping"},
                              group : Groups,
                              left  : 0..Longest]
  <2>1. slot[c] \in [at : {"away", "queued", "sleeping"}, group : Groups,
                     left : 0..Longest]
    BY DEF SlotTypeOK
  <2>2. slot'[c] = [slot[c] EXCEPT !.left = Sooner(slot[c].left)]
    BY <1>1
  <2>3. Sooner(slot[c].left) \in 0..Longest
    BY <2>1, SoonerType
  <2> QED BY <2>1, <2>2, <2>3
<1>4. SlotTypeOK'
  <2>1. readyIn' \in [Groups -> 0..Longest] /\ since' \in [Groups -> 0..Longest]
    BY <1>1, <1>2
  <2>2. slot' \in [Callers -> [at    : {"away", "queued", "sleeping"},
                               group : Groups,
                               left  : 0..Longest]]
    BY <1>1, <1>3
  <2> QED BY <1>1, <2>1, <2>2 DEF SlotTypeOK
<1>5. QueuesFit'
  <2>1. \A h \in Groups : \A i \in 1..Len(queue[h]) : queue[h][i] \in Callers
    BY DEF SlotTypeOK
  <2> QED BY <1>1, <1>3, <2>1 DEF QueuesFit
<1>6. GapAhead'
  <2>1. ASSUME NEW g \in Groups
        PROVE  readyIn'[g] + since'[g] >= gap[g]
    <3>1. readyIn[g] + since[g] >= gap[g]
      BY DEF GapAhead
    <3>2. readyIn[g] <= Sooner(readyIn[g]) + 1
      BY <1>2, SoonerType
    <3> QED BY <1>2, <3>1, <3>2, LongestType
  <2>2. ASSUME NEW c \in Callers, slot'[c].at = "sleeping"
        PROVE  /\ queue[slot[c].group][1] = c
               /\ slot'[c].left + since'[slot[c].group] >= gap[slot[c].group]
    <3> DEFINE g == slot[c].group
    <3>1. slot[c].left + since[g] >= gap[g] /\ queue[g][1] = c
      BY <1>3, <2>2 DEF GapAhead
    <3>2. slot[c].left <= Sooner(slot[c].left) + 1
      BY <1>3, SoonerType
    <3>3. /\ slot[c].left \in Nat /\ slot'[c].left \in Nat /\ since[g] \in Nat
          /\ since'[g] \in Nat /\ gap[g] \in 0..Longest
          /\ since'[g] = since[g] + 1 \/ since'[g] = Longest
          /\ slot'[c].left = Sooner(slot[c].left)
      BY <1>2, <1>3
    <3> QED BY <3>1, <3>2, <3>3, LongestType
  <2> QED BY <1>1, <1>3, <2>1, <2>2 DEF GapAhead
<1> QED BY <1>1, <1>4, <1>5, <1>6 DEF SlotsApart

LEMMA SlotsUnchanged ==
  ASSUME SlotInv, UNCHANGED slots
  PROVE  SlotInv'
BY DEF slots, SlotInv, SlotTypeOK, QueuesFit, GapAhead, SlotsApart
-----------------------------------------------------------------------------
(***************************************************************************)
(* The batch: its beginning, and steps that change little of it.           *)
(***************************************************************************)
Tasks ==
  [Callers -> [step   : {"none", "reset", "prepare", "slot", "submit", "poll",
                         "done"},
               part   : {"system", "actual"},
               resets : 0..MaxResets]]

Phases ==
  {"system", "poll_system", "collect", "submit", "poll", "recover",
   "prepare_turn", "submit_turn"} \cup Ends

LEMMA IdleType == [c \in Callers |-> Idle] \in Tasks
BY BatchAssumption DEF Tasks, Idle

LEMMA BatchInitially == Init => BatchInv
<1> SUFFICES ASSUME Init PROVE BatchInv
  OBVIOUS
<1> USE BatchAssumption DEF Init, Windows, Turns
<1>1. SlotTypeOK
  BY SlotInitially DEF SlotInv
<1>2. TypeOK
  <2>1. task \in Tasks
    BY IdleType
  <2>2. at \in 1..(Width + 1) /\ turn \in 0..(LastTurn + 1)
    OBVIOUS
  <2>3. phase \in Phases
    BY DEF Phases
  <2>4. results \in [Windows -> [Turns -> Nat]]
    OBVIOUS
  <2>5. early \in Seq(Windows) /\ ready \subseteq Windows
    OBVIOUS
  <2>6. paused \in BOOLEAN /\ cancelled \in BOOLEAN /\ system \in BOOLEAN
    OBVIOUS
  <2> QED BY <1>1, <2>1, <2>2, <2>3, <2>4, <2>5, <2>6 DEF TypeOK, Tasks, Phases
<1>3. Early = {}
  BY DEF Early
<1>4. InRange /\ Distinct
  BY DEF InRange, Distinct, Idle
<1>5. Sorted
  BY <1>3 DEF Sorted, Below, Skips
<1>6. RecordedOnce /\ OneResultEach
  BY DEF RecordedOnce, OneResultEach
<1> QED BY <1>2, <1>4, <1>5, <1>6 DEF BatchInv

(* Another window fails.                                                   *)
LEMMA FailureAdded ==
  ASSUME early \in Seq(Windows), Distinct, NEW w \in Windows, w \notin Early,
         early' = Append(early, w)
  PROVE  /\ early' \in Seq(Windows)
         /\ Early' = Early \cup {w}
         /\ Distinct'
         /\ DOMAIN early \subseteq DOMAIN early'
<1> DEFINE n == Len(early)
<1>1. /\ early' \in Seq(Windows) /\ n \in Nat
      /\ DOMAIN early = 1..n /\ DOMAIN early' = 1..(n + 1)
      /\ \A i \in 1..n : early'[i] = early[i]
      /\ early'[n + 1] = w
  OBVIOUS
<1>2. 1..(n + 1) = (1..n) \cup {n + 1}
  BY <1>1
<1> HIDE DEF n
<1>3. Early' = Early \cup {w}
  BY <1>1, <1>2 DEF Early
<1>4. Distinct'
  <2> SUFFICES ASSUME NEW i \in (1..n) \cup {n + 1}, NEW j \in (1..n) \cup {n + 1},
                      early'[i] = early'[j]
               PROVE  i = j
    BY <1>1, <1>2 DEF Distinct
  <2>1. \A k \in 1..n : early[k] # w
    BY <1>1 DEF Early
  <2> QED BY <1>1, <2>1 DEF Distinct
<1> QED BY <1>1, <1>2, <1>3, <1>4

(* Ended other than with all results.                                      *)
LEMMA EndsKeep ==
  ASSUME BatchInv, SlotTypeOK', phase' \in Ends \ {"complete"},
         at' \in 1..(Width + 1),
         UNCHANGED <<system, ready, lists, task, turn, paused, cancelled>>
  PROVE  BatchInv'
<1> USE DEF BatchInv, lists, Ends
<1>1. TypeOK'
  BY DEF TypeOK
<1>2. InRange' /\ Distinct'
  BY DEF InRange, Distinct
<1>3. Sorted' /\ RecordedOnce' /\ OneResultEach'
  BY DEF Sorted, RecordedOnce, OneResultEach
<1> QED BY <1>1, <1>2, <1>3

(* The user, the clock and a stuttering step change nothing of it.         *)
LEMMA BatchUnchanged ==
  ASSUME BatchInv, SlotTypeOK', UNCHANGED <<system, batch>>,
         paused' \in BOOLEAN, cancelled' \in BOOLEAN
  PROVE  BatchInv'
<1> USE DEF BatchInv, batch, lists
<1>1. TypeOK'
  BY DEF TypeOK
<1>2. InRange' /\ Distinct' /\ RecordedOnce' /\ OneResultEach'
  BY DEF InRange, Distinct, RecordedOnce, OneResultEach
<1>3. Sorted'
  BY DEF Sorted, Skips, Early
<1> QED BY <1>1, <1>2, <1>3

(* A step of a recovery changes its task, and answered.                    *)
LEMMA RecoveryFrame ==
  ASSUME BatchInv, SlotTypeOK', phase = "recover", NEW c \in Callers,
         task[c].step # "none", task' \in Tasks,
         \A d \in Callers \ {c} : task'[d] = task[d],
         answered' \in SUBSET Windows,
         UNCHANGED <<Unrecorded, system, paused, cancelled>>
  PROVE  BatchInv'
<1> USE DEF BatchInv, Unrecorded
<1>1. TypeOK'
  BY DEF TypeOK, Tasks
<1>2. InRange' /\ Distinct' /\ RecordedOnce' /\ OneResultEach'
  BY DEF InRange, Distinct, RecordedOnce, OneResultEach
<1>3. Sorted'
  BY DEF Sorted, Early
<1> QED BY <1>1, <1>2, <1>3

LEMMA StepType ==
  ASSUME task \in Tasks, NEW c \in Callers,
         NEW step \in {"none", "reset", "prepare", "slot", "submit", "poll",
                       "done"},
         Step(c, step)
  PROVE  task' \in Tasks /\ \A d \in Callers \ {c} : task'[d] = task[d]
BY DEF Step, Tasks

LEMMA RecoveryKeeps ==
  ASSUME BatchInv, SlotTypeOK', NEW c \in Callers, Recovery(c),
         UNCHANGED <<system, paused, cancelled>>
  PROVE  BatchInv'
<1> USE DEF Unrecorded
<1>1. task \in Tasks /\ answered \in SUBSET Windows /\ early \in Seq(Windows)
  BY DEF BatchInv, TypeOK, Tasks
<1>2. CASE ResetWindow(c)
  <2>1. phase = "recover" /\ task[c].step # "none"
        /\ UNCHANGED <<Unrecorded, answered>>
    BY <1>2 DEF ResetWindow, Recovering
  <2>2. task[c].resets \in 0..MaxResets
    BY <1>1 DEF Tasks
  <2>3. task' \in Tasks /\ \A d \in Callers \ {c} : task'[d] = task[d]
    <3>1. CASE task' = [task EXCEPT ![c] =
                         [step |-> "prepare", resets |-> @.resets,
                          part |-> IF system THEN "system" ELSE "actual"]]
      BY <1>1, <2>2, <3>1 DEF Tasks
    <3>2. CASE ResetAgain(c) /\ task' = [task EXCEPT ![c].resets = @ + 1]
      <4>1. task[c].resets + 1 \in 0..MaxResets
        BY <2>2, <3>2, BatchAssumption DEF ResetAgain
      <4> QED BY <1>1, <3>2, <4>1 DEF Tasks
    <3>3. CASE Step(c, "done")
      BY <1>1, <3>3, StepType
    <3> QED BY <1>2, <3>1, <3>2, <3>3 DEF ResetWindow
  <2> QED BY <1>1, <2>1, <2>3, RecoveryFrame
<1>3. CASE PreparePrompt(c)
  <2>1. phase = "recover" /\ task[c].step # "none" /\ answered' = answered
        /\ UNCHANGED Unrecorded
    BY <1>3 DEF PreparePrompt, Recovering, RecoveryFails
  <2>2. Step(c, "slot") \/ Step(c, "done")
    BY <1>3 DEF PreparePrompt, RecoveryFails
  <2> QED BY <1>1, <2>1, <2>2, StepType, RecoveryFrame
<1>4. CASE HoldSlot(c)
  BY <1>1, <1>4, RecoveryFrame DEF HoldSlot, Recovering
<1>5. CASE GetSlot(c)
  <2>1. phase = "recover" /\ task[c].step # "none" /\ answered' = answered
        /\ UNCHANGED Unrecorded /\ Step(c, "submit")
    BY <1>5 DEF GetSlot, Recovering
  <2> QED BY <1>1, <2>1, StepType, RecoveryFrame
<1>6. CASE SubmitReplay(c)
  <2>1. phase = "recover" /\ task[c].step # "none" /\ answered' = answered
        /\ UNCHANGED Unrecorded
    BY <1>6 DEF SubmitReplay, Recovering, RecoveryFails
  <2>2. Step(c, "poll") \/ Step(c, "done")
    BY <1>6 DEF SubmitReplay, RecoveryFails
  <2> QED BY <1>1, <2>1, <2>2, StepType, RecoveryFrame
<1>7. CASE PollReplay(c)
  <2>1. phase = "recover" /\ task[c].step # "none" /\ UNCHANGED Unrecorded
    BY <1>7 DEF PollReplay, Recovering
  <2>2. c \in DOMAIN early
    BY <2>1 DEF BatchInv, InRange
  <2>3. early[c] \in Windows
    BY <1>1, <2>2
  <2>4. answered' \in SUBSET Windows
    BY <1>1, <1>7, <2>3 DEF PollReplay, RecoveryFails
  <2>5. \/ Step(c, "done")
        \/ task' = [task EXCEPT ![c].step = "prepare", ![c].part = "actual"]
    BY <1>7 DEF PollReplay, RecoveryFails
  <2>6. task' \in Tasks /\ \A d \in Callers \ {c} : task'[d] = task[d]
    <3>1. CASE Step(c, "done")
      BY <1>1, <3>1, StepType
    <3>2. CASE task' = [task EXCEPT ![c].step = "prepare", ![c].part = "actual"]
      BY <1>1, <3>2 DEF Tasks
    <3> QED BY <2>5, <3>1, <3>2
  <2> QED BY <2>1, <2>4, <2>6, RecoveryFrame
<1>8. CASE RecoveryCancelled(c)
  <2>1. phase = "recover" /\ task[c].step # "none" /\ answered' = answered
        /\ UNCHANGED Unrecorded /\ Step(c, "done")
    BY <1>8 DEF RecoveryCancelled, Recovering, RecoveryFails
  <2> QED BY <1>1, <2>1, StepType, RecoveryFrame
<1> QED BY <1>2, <1>3, <1>4, <1>5, <1>6, <1>7, <1>8 DEF Recovery

-----------------------------------------------------------------------------
(***************************************************************************)
(* The loops up to the recoveries.                                         *)
(***************************************************************************)
LEMMA NextWindowType ==
  ASSUME at \in Windows, NEW then, NextWindow(then)
  PROVE  \/ at < Width /\ at' = at + 1 /\ phase' = phase /\ at' \in Windows
         \/ at = Width /\ at' = 1 /\ phase' = then
BY BatchAssumption DEF NextWindow, Goto, Windows

LEMMA SendSystemPromptKeeps ==
  ASSUME BatchInv, SlotTypeOK', SendSystemPrompt,
         UNCHANGED <<system, paused, cancelled>>
  PROVE  BatchInv'
<1> USE BatchAssumption
<1>1. /\ TypeOK /\ InRange /\ Distinct /\ Sorted /\ RecordedOnce /\ OneResultEach
      /\ phase = "system" /\ system /\ at \in Windows
      /\ SystemFails \/ SystemSent
      /\ UNCHANGED <<system, paused, cancelled, baseline, surviving, results,
                     answered, task, turn>>
  BY DEF BatchInv, InRange, SendSystemPrompt
<1>2. \/ at < Width /\ at' = at + 1 /\ phase' = "system" /\ at' \in Windows
      \/ at = Width /\ at' = 1 /\ phase' = "poll_system"
  BY <1>1, NextWindowType DEF SendSystemPrompt
<1>3. Early \cup sent = Below(at) /\ Early \cap sent = {} /\ baseline = {}
  BY <1>1 DEF Sorted
<1>4. at \notin Early /\ at \notin sent
  BY <1>1, <1>3 DEF Below, Windows
<1>5. /\ early' \in Seq(Windows) /\ Distinct' /\ DOMAIN early \subseteq DOMAIN early'
      /\ sent' \subseteq Windows /\ ready' \subseteq Windows
      /\ Early' \cup sent' = Below(at) \cup {at} /\ Early' \cap sent' = {}
  <2>1. CASE SystemFails
    <3>1. early' = Append(early, at) /\ sent' = sent /\ ready' = ready \ {at}
      BY <2>1 DEF SystemFails
    <3>2. /\ early' \in Seq(Windows) /\ Early' = Early \cup {at} /\ Distinct'
          /\ DOMAIN early \subseteq DOMAIN early'
      BY <1>1, <1>4, <3>1, FailureAdded DEF TypeOK
    <3> QED BY <1>1, <1>3, <1>4, <3>1, <3>2 DEF TypeOK
  <2>2. CASE SystemSent
    <3>1. early' = early /\ sent' = sent \cup {at} /\ ready' = ready \ {at}
      BY <2>2 DEF SystemSent
    <3>2. Early' = Early /\ Distinct'
      BY <1>1, <3>1 DEF Early, Distinct
    <3> QED BY <1>1, <1>3, <1>4, <3>1, <3>2 DEF TypeOK
  <2> QED BY <1>1, <2>1, <2>2
<1>6. Below(at) \cup {at} = 1..at
  BY <1>1 DEF Below, Windows
<1>7. TypeOK'
  BY <1>1, <1>2, <1>5 DEF TypeOK, Windows
<1>8. InRange'
  BY <1>1, <1>2, <1>5 DEF InRange
<1>9. Sorted'
  BY <1>1, <1>2, <1>3, <1>5, <1>6 DEF Sorted, Below, Windows
<1>10. RecordedOnce' /\ OneResultEach'
  BY <1>1, <1>2 DEF RecordedOnce, OneResultEach
<1> QED BY <1>5, <1>7, <1>8, <1>9, <1>10 DEF BatchInv

LEMMA PollSystemPromptsKeeps ==
  ASSUME BatchInv, SlotTypeOK', PollSystemPrompts,
         UNCHANGED <<system, paused, cancelled>>
  PROVE  BatchInv'
<1> USE BatchAssumption DEF BatchInv, lists
<1>1. /\ phase = "poll_system" /\ phase' = "collect" /\ at' = 1
      /\ UNCHANGED <<system, paused, cancelled, ready, lists, task, turn>>
  BY DEF PollSystemPrompts, Goto
<1>2. TypeOK'
  BY <1>1 DEF TypeOK
<1>3. InRange' /\ Distinct' /\ RecordedOnce' /\ OneResultEach'
  BY <1>1 DEF InRange, Windows, Distinct, RecordedOnce, OneResultEach
<1>4. Sorted'
  BY <1>1 DEF Sorted, Early, Below
<1> QED BY <1>2, <1>3, <1>4

LEMMA CollectSystemAnswerKeeps ==
  ASSUME BatchInv, SlotTypeOK', CollectSystemAnswer,
         UNCHANGED <<system, paused, cancelled>>
  PROVE  BatchInv'
<1> USE BatchAssumption
<1>1. /\ TypeOK /\ InRange /\ Distinct /\ Sorted /\ RecordedOnce /\ OneResultEach
      /\ phase = "collect" /\ system /\ at \in Windows
      /\ sent' = IF at < Width THEN sent ELSE {}
      /\ UNCHANGED <<system, paused, cancelled, surviving, results, answered,
                     task, turn>>
  BY DEF BatchInv, InRange, CollectSystemAnswer
<1>2. \/ at < Width /\ at' = at + 1 /\ phase' = "collect" /\ at' \in Windows
      \/ at = Width /\ at' = 1 /\ phase' = "submit"
  BY <1>1, NextWindowType DEF CollectSystemAnswer
<1>3. /\ Early \cup sent = Windows
      /\ Early \cap sent \subseteq Below(at)
      /\ baseline = (sent \cap Below(at)) \ Early
  BY <1>1 DEF Sorted
<1>4. at \notin Below(at) /\ Below(at) \cup {at} = 1..at
  BY <1>1 DEF Below, Windows
<1>5. /\ early' \in Seq(Windows) /\ Distinct' /\ DOMAIN early \subseteq DOMAIN early'
      /\ baseline' \subseteq Windows /\ ready' \subseteq Windows
      /\ Early' \cup sent = Windows
      /\ Early' \cap sent \subseteq 1..at
      /\ baseline' = (sent \cap (1..at)) \ Early'
  <2>1. CASE at \in sent /\ early' = Append(early, at) /\ UNCHANGED <<baseline, ready>>
    <3>1. at \notin Early
      BY <1>3, <1>4, <2>1
    <3>2. /\ early' \in Seq(Windows) /\ Early' = Early \cup {at} /\ Distinct'
          /\ DOMAIN early \subseteq DOMAIN early'
      BY <1>1, <2>1, <3>1, FailureAdded DEF TypeOK
    <3> QED BY <1>1, <1>3, <1>4, <2>1, <3>2 DEF TypeOK
  <2>2. CASE /\ at \in sent /\ UNCHANGED early
             /\ baseline' = baseline \cup {at} /\ ready' = ready \cup {at}
    <3>1. Early' = Early /\ Distinct'
      BY <1>1, <2>2 DEF Early, Distinct
    <3>2. at \notin Early
      BY <1>3, <1>4, <2>2
    <3> QED BY <1>1, <1>3, <1>4, <2>2, <3>1, <3>2 DEF TypeOK
  <2>3. CASE at \notin sent /\ UNCHANGED <<early, baseline, ready>>
    <3>1. Early' = Early /\ Distinct'
      BY <1>1, <2>3 DEF Early, Distinct
    <3> QED BY <1>1, <1>3, <1>4, <2>3, <3>1 DEF TypeOK
  <2> QED BY <2>1, <2>2, <2>3 DEF CollectSystemAnswer
<1>6. TypeOK'
  <2>1. sent' \subseteq Windows /\ baseline' \subseteq Windows
    BY <1>1, <1>5 DEF TypeOK
  <2>2. at' \in 1..(Width + 1) /\ phase' \in Phases
    BY <1>2 DEF Phases, Windows
  <2> QED BY <1>1, <1>5, <2>1, <2>2 DEF TypeOK, Phases
<1>7. InRange'
  BY <1>1, <1>2, <1>5 DEF InRange, Windows
<1>8. Sorted'
  <2>1. CASE at < Width
    BY <1>1, <1>2, <1>5, <2>1 DEF Sorted, Below, Windows
  <2>2. CASE at = Width
    <3>1. sent' = {} /\ at' = 1 /\ phase' = "submit" /\ 1..at = Windows
      BY <1>1, <1>2, <2>2 DEF Windows
    <3>2. \A w \in Windows : Skips(w)' <=> w \in Early'
      <4>1. \A w \in Windows : w \notin baseline' <=> w \in Early'
        BY <1>5, <3>1
      <4> QED BY <1>1, <4>1 DEF Skips
    <3>3. Early' \subseteq Windows /\ Below(at') = {}
      BY <1>5, <3>1 DEF Below
    <3> QED BY <3>1, <3>2, <3>3 DEF Sorted
  <2> QED BY <1>2, <2>1, <2>2
<1>9. RecordedOnce' /\ OneResultEach'
  BY <1>1, <1>2 DEF RecordedOnce, OneResultEach
<1> QED BY <1>5, <1>6, <1>7, <1>8, <1>9 DEF BatchInv

LEMMA SubmitPromptKeeps ==
  ASSUME BatchInv, SlotTypeOK', SubmitPrompt,
         UNCHANGED <<system, paused, cancelled>>
  PROVE  BatchInv'
<1> USE BatchAssumption
<1>1. /\ TypeOK /\ InRange /\ Distinct /\ Sorted /\ RecordedOnce /\ OneResultEach
      /\ phase = "submit" /\ at \in Windows
      /\ UNCHANGED <<system, paused, cancelled, baseline, surviving, results,
                     answered, task, turn>>
  BY DEF BatchInv, InRange, SubmitPrompt
<1>2. \/ at < Width /\ at' = at + 1 /\ phase' = "submit" /\ at' \in Windows
      \/ at = Width /\ at' = 1 /\ phase' = "poll"
  BY <1>1, NextWindowType DEF SubmitPrompt
<1>3. /\ sent \subseteq Below(at) /\ Below(at) \subseteq Early \cup sent
      /\ Early \cap sent = {}
      /\ \A w \in Windows : Skips(w) => w \in Early
      /\ \A w \in Early : w < at \/ Skips(w)
  BY <1>1 DEF Sorted
<1>4. at \notin sent /\ Below(at) \cup {at} = 1..at /\ ~(at < at)
  BY <1>1, <1>3 DEF Below, Windows
<1>5. \A w \in Windows : Skips(w)' <=> Skips(w)
  BY <1>1 DEF Skips
<1>6. /\ early' \in Seq(Windows) /\ Distinct' /\ DOMAIN early \subseteq DOMAIN early'
      /\ sent' \subseteq 1..at /\ ready' \subseteq Windows
      /\ 1..at \subseteq Early' \cup sent' /\ Early' \cap sent' = {}
      /\ Early \subseteq Early' /\ Early' \subseteq Early \cup {at}
  <2>1. CASE Skips(at) /\ UNCHANGED <<early, sent, ready>>
    <3>1. Early' = Early /\ Distinct' /\ at \in Early
      BY <1>1, <1>3, <2>1 DEF Early, Distinct
    <3> QED BY <1>1, <1>3, <1>4, <2>1, <3>1 DEF TypeOK
  <2>2. CASE /\ ~Skips(at) /\ early' = Append(early, at)
             /\ ready' = ready \ {at} /\ UNCHANGED sent
    <3>1. at \notin Early
      BY <1>3, <1>4, <2>2
    <3>2. /\ early' \in Seq(Windows) /\ Early' = Early \cup {at} /\ Distinct'
          /\ DOMAIN early \subseteq DOMAIN early'
      BY <1>1, <2>2, <3>1, FailureAdded DEF TypeOK
    <3> QED BY <1>1, <1>3, <1>4, <2>2, <3>2 DEF TypeOK
  <2>3. CASE /\ ~Skips(at) /\ sent' = sent \cup {at}
             /\ ready' = ready \ {at} /\ UNCHANGED early
    <3>1. at \notin Early
      BY <1>3, <1>4, <2>3
    <3>2. Early' = Early /\ Distinct'
      BY <1>1, <2>3 DEF Early, Distinct
    <3>3. early' \in Seq(Windows) /\ ready' \subseteq Windows
      BY <1>1, <2>3 DEF TypeOK
    <3>4. sent' \subseteq 1..at /\ 1..at \subseteq Early' \cup sent'
      BY <1>3, <1>4, <2>3, <3>2
    <3>5. Early' \cap sent' = {}
      BY <1>3, <2>3, <3>1, <3>2
    <3> QED BY <2>3, <3>2, <3>3, <3>4, <3>5
  <2> QED BY <2>1, <2>2, <2>3 DEF SubmitPrompt
<1>7. 1..at \subseteq Windows
  BY <1>1 DEF Windows
<1>8. TypeOK'
  BY <1>1, <1>2, <1>6, <1>7 DEF TypeOK, Windows
<1>9. InRange'
  BY <1>1, <1>2, <1>6 DEF InRange
<1>10. Early' \subseteq Windows
  BY <1>6 DEF Early
<1>11. Sorted'
  <2>1. CASE at < Width
    <3>1. Below(at') = 1..at /\ at' = at + 1 /\ phase' = "submit"
      BY <1>1, <1>2, <2>1 DEF Below, Windows
    <3>2. \A w \in Early' : w < at' \/ Skips(w)'
      <4> SUFFICES ASSUME NEW w \in Early' PROVE w < at + 1 \/ Skips(w)
        BY <1>5, <1>10, <3>1
      <4>1. w \in Windows /\ (w = at \/ w < at \/ Skips(w))
        BY <1>3, <1>6, <1>10
      <4> QED BY <1>1, <4>1 DEF Windows
    <3>3. \A w \in Windows : Skips(w)' => w \in Early'
      BY <1>3, <1>5, <1>6
    <3> QED BY <1>6, <3>1, <3>2, <3>3 DEF Sorted
  <2>2. CASE at = Width
    <3>1. phase' = "poll" /\ 1..at = Windows
      BY <1>1, <1>2, <2>2 DEF Windows
    <3>2. Early' \cup sent' = Windows
      BY <1>6, <1>7, <1>10, <3>1
    <3> QED BY <1>6, <3>1, <3>2 DEF Sorted
  <2> QED BY <1>2, <2>1, <2>2
<1>12. RecordedOnce' /\ OneResultEach'
  BY <1>1, <1>2 DEF RecordedOnce, OneResultEach
<1> QED BY <1>6, <1>8, <1>9, <1>11, <1>12 DEF BatchInv

LEMMA PollNobodyKeeps ==
  ASSUME BatchInv, SlotTypeOK', PollNobody,
         UNCHANGED <<system, paused, cancelled>>
  PROVE  BatchInv'
<1> USE BatchAssumption DEF BatchInv, lists
<1>1. /\ phase = "poll" /\ phase' = "recover" /\ at' = 1 /\ sent = {}
      /\ UNCHANGED <<system, paused, cancelled, ready, lists, turn>>
  BY DEF PollNobody, Goto
<1>2. /\ task' \in Tasks
      /\ \A c \in Callers : task'[c].step # "none" => c \in DOMAIN early
  BY DEF PollNobody, Tasks, Idle
<1>3. TypeOK'
  BY <1>1, <1>2 DEF TypeOK, Tasks
<1>4. InRange'
  BY <1>1, <1>2 DEF InRange
<1>5. Distinct' /\ RecordedOnce' /\ OneResultEach'
  BY <1>1 DEF Distinct, RecordedOnce, OneResultEach
<1>6. Sorted'
  BY <1>1 DEF Sorted, Early
<1> QED BY <1>3, <1>4, <1>5, <1>6

-----------------------------------------------------------------------------
(***************************************************************************)
(* The results, and the turns.                                             *)
(***************************************************************************)
(* Every window failed once, so that its recovery has one result.          *)
LEMMA OneEntryEach ==
  ASSUME Distinct, NEW w \in Early
  PROVE  Cardinality({c \in DOMAIN early : early[c] = w}) = 1
<1>1. PICK i \in DOMAIN early : early[i] = w
  BY DEF Early
<1>2. {c \in DOMAIN early : early[c] = w} = {i}
  BY <1>1 DEF Distinct
<1> QED BY <1>2, FS_Singleton

LEMMA RecordResultsKeeps ==
  ASSUME BatchInv, SlotTypeOK', RecordResults,
         UNCHANGED <<system, paused, cancelled>>
  PROVE  BatchInv'
<1> USE BatchAssumption DEF lists
<1>1. /\ TypeOK /\ InRange /\ Distinct /\ Sorted /\ RecordedOnce /\ OneResultEach
      /\ phase = "recover"
      /\ UNCHANGED <<system, paused, cancelled, at, ready, sent, baseline, early,
                     answered>>
  BY DEF BatchInv, RecordResults
<1>2. Early = Windows /\ results = [w \in Windows |-> [t \in Turns |-> 0]]
  BY <1>1 DEF Sorted, RecordedOnce
<1>3. 0 \in Turns
  BY DEF Turns
<1>4. results' = [w \in Windows |-> [results[w] EXCEPT ![0] = @ + 1]]
  BY <1>1, <1>2, OneEntryEach DEF RecordResults
<1>5. /\ results' \in [Windows -> [Turns -> Nat]]
      /\ \A w \in Windows :
           results'[w][0] = 1 /\ \A t \in Turns \ {0} : results'[w][t] = 0
  BY <1>2, <1>3, <1>4
<1>6. \/ /\ phase' = "prepare_turn" /\ surviving' = answered /\ turn' = 1
         /\ LastTurn > 0
      \/ phase' = "complete" /\ UNCHANGED <<surviving, turn>>
  BY DEF RecordResults
<1>7. task' = [c \in Callers |-> Idle] /\ task' \in Tasks
  BY IdleType DEF RecordResults
<1>8. TypeOK'
  <2>1. phase' \in Phases /\ turn' \in 0..(LastTurn + 1) /\ surviving' \subseteq Windows
    BY <1>1, <1>6 DEF TypeOK, Phases, Ends
  <2> QED BY <1>1, <1>5, <1>7, <2>1 DEF TypeOK, Tasks, Phases
<1>9. InRange' /\ Distinct' /\ Sorted'
  BY <1>1, <1>6, <1>7 DEF InRange, Idle, Distinct, Sorted
<1>10. \A w \in Windows : \A t \in Turns : results'[w][t] <= 1
  BY <1>5
<1>11. OneResultEach'
  BY <1>5, <1>10 DEF OneResultEach
<1>12. RecordedOnce'
  <2> SUFFICES ASSUME phase' = "prepare_turn"
               PROVE  \A w \in surviving' : \A t \in Turns :
                        t >= turn' => results'[w][t] = 0
    BY <1>5, <1>6, <1>10 DEF RecordedOnce
  <2>1. surviving' \subseteq Windows /\ turn' = 1
    BY <1>1, <1>6 DEF TypeOK
  <2> QED BY <1>5, <2>1 DEF Turns
<1> QED BY <1>8, <1>9, <1>11, <1>12 DEF BatchInv

(* Who has no result from this turn on gets one of it and goes on no more. *)
LEMMA RecordKeeps ==
  ASSUME BatchInv, phase \in {"prepare_turn", "submit_turn"},
         NEW failed, failed \subseteq surviving,
         results' = Record(results, failed, turn)
  PROVE  /\ turn > 0
         /\ results' \in [Windows -> [Turns -> Nat]]
         /\ \A w \in Windows :
              /\ results'[w][0] = 1
              /\ \A t \in Turns : results'[w][t] <= 1
         /\ \A w \in surviving \ failed : \A t \in Turns :
              t >= turn => results'[w][t] = 0
<1> USE BatchAssumption
<1>1. /\ turn > 0 /\ turn \in Nat /\ surviving \subseteq Windows
      /\ results \in [Windows -> [Turns -> Nat]]
      /\ \A w \in Windows :
           results[w][0] = 1 /\ \A t \in Turns : results[w][t] <= 1
      /\ \A w \in surviving : \A t \in Turns : t >= turn => results[w][t] = 0
      /\ 0 \in Turns /\ \A t \in Turns : t \in Nat
  BY DEF BatchInv, RecordedOnce, TypeOK, Turns
<1>2. ASSUME NEW w \in Windows
      PROVE  /\ results'[w] \in [Turns -> Nat]
             /\ w \notin failed => results'[w] = results[w]
             /\ w \in failed => results'[w] = [results[w] EXCEPT ![turn] = @ + 1]
  <2>1. results[w] \in [Turns -> Nat]
    BY <1>1
  <2>2. results'[w] = IF w \in failed THEN [results[w] EXCEPT ![turn] = @ + 1]
                      ELSE results[w]
    BY DEF Record
  <2>3. [results[w] EXCEPT ![turn] = @ + 1] \in [Turns -> Nat]
    <3>1. CASE turn \in Turns
      <4>1. results[w][turn] + 1 \in Nat
        BY <2>1, <3>1
      <4> QED BY <2>1, <4>1
    <3>2. CASE turn \notin Turns
      BY <2>1, <3>2
    <3> QED BY <3>1, <3>2
  <2> QED BY <2>1, <2>2, <2>3
<1>3. ASSUME NEW w \in Windows
      PROVE  results'[w][0] = 1 /\ \A t \in Turns : results'[w][t] <= 1
  <2>1. CASE w \in failed
    <3>1. /\ results[w] \in [Turns -> Nat]
          /\ results'[w] = [results[w] EXCEPT ![turn] = @ + 1]
          /\ \A t \in Turns : t >= turn => results[w][t] = 0
      BY <1>1, <1>2, <2>1
    <3>2. results'[w][0] = 1
      BY <1>1, <3>1
    <3>3. \A t \in Turns : results'[w][t] <= 1
      BY <1>1, <3>1
    <3> QED BY <3>2, <3>3
  <2>2. CASE w \notin failed
    BY <1>1, <1>2, <2>2
  <2> QED BY <2>1, <2>2
<1>4. results' \in [Windows -> [Turns -> Nat]]
  <2>1. results' = [w \in Windows |-> results'[w]]
    BY DEF Record
  <2> QED BY <1>2, <2>1
<1>5. \A w \in surviving \ failed : \A t \in Turns :
        t >= turn => results'[w][t] = 0
  <2> SUFFICES ASSUME NEW w \in surviving \ failed
               PROVE  \A t \in Turns : t >= turn => results'[w][t] = 0
    OBVIOUS
  <2>1. results'[w] = results[w] /\ w \in surviving
    BY <1>1, <1>2
  <2> QED BY <1>1, <2>1
<1> QED BY <1>1, <1>3, <1>4, <1>5

(* What every step of a turn leaves alone, and what it keeps.              *)
LEMMA TurnFrame ==
  ASSUME BatchInv, SlotTypeOK', phase \in {"prepare_turn", "submit_turn"},
         phase' \in {"submit_turn", "complete"},
         at' \in 1..(Width + 1), ready' \subseteq Windows, sent' \subseteq Windows,
         surviving' \subseteq Windows, turn > 0,
         results' \in [Windows -> [Turns -> Nat]],
         \A w \in Windows :
           results'[w][0] = 1 /\ \A t \in Turns : results'[w][t] <= 1,
         phase' = "submit_turn" => \A w \in surviving' : \A t \in Turns :
           t >= turn => results'[w][t] = 0,
         UNCHANGED <<system, paused, cancelled, baseline, early, answered, task,
                     turn>>
  PROVE  BatchInv'
<1> USE DEF BatchInv
<1>1. TypeOK'
  <2>1. phase' \in Phases
    BY DEF Phases, Ends
  <2> QED BY <2>1 DEF TypeOK, Phases
<1>2. InRange' /\ Distinct' /\ Sorted'
  BY DEF InRange, Distinct, Sorted
<1>3. RecordedOnce' /\ OneResultEach'
  BY DEF RecordedOnce, OneResultEach
<1> QED BY <1>1, <1>2, <1>3

LEMMA PrepareTurnKeeps ==
  ASSUME BatchInv, SlotTypeOK', PrepareTurn,
         UNCHANGED <<system, paused, cancelled>>
  PROVE  BatchInv'
<1>1. PICK failed \in SUBSET surviving :
        /\ surviving' = surviving \ failed
        /\ results' = Record(results, failed, turn)
        /\ ready' = surviving \ failed
  BY DEF PrepareTurn
<1>2. /\ phase = "prepare_turn" /\ phase' \in {"submit_turn", "complete"}
      /\ at' = 1 /\ UNCHANGED <<sent, baseline, early, answered, task, turn>>
  BY DEF PrepareTurn
<1>3. surviving \subseteq Windows /\ sent \subseteq Windows
  BY DEF BatchInv, TypeOK
<1>4. at' \in 1..(Width + 1)
  BY <1>2, BatchAssumption
<1> QED BY <1>1, <1>2, <1>3, <1>4, RecordKeeps, TurnFrame

LEMMA SubmitTurnKeeps ==
  ASSUME BatchInv, SlotTypeOK', SubmitTurn,
         UNCHANGED <<system, paused, cancelled>>
  PROVE  BatchInv'
<1>1. /\ phase = "submit_turn" /\ phase' = "submit_turn"
      /\ at <= Width /\ at' = at + 1
      /\ UNCHANGED <<ready, baseline, early, answered, task, turn>>
  BY DEF SubmitTurn
<1>2. /\ surviving \subseteq Windows /\ sent \subseteq Windows
      /\ ready \subseteq Windows /\ at \in 1..(Width + 1)
  BY DEF BatchInv, TypeOK
<1>3. at' \in 1..(Width + 1)
  BY <1>1, <1>2, BatchAssumption
<1>4. CASE UNCHANGED <<surviving, results>>
           /\ (UNCHANGED sent \/ (at \in surviving /\ sent' = sent \cup {at}))
  <2>1. /\ turn > 0 /\ results \in [Windows -> [Turns -> Nat]]
        /\ \A w \in Windows :
             results[w][0] = 1 /\ \A t \in Turns : results[w][t] <= 1
        /\ \A w \in surviving : \A t \in Turns : t >= turn => results[w][t] = 0
    BY <1>1 DEF BatchInv, RecordedOnce, TypeOK
  <2>2. sent' \subseteq Windows
    BY <1>2, <1>4
  <2> QED BY <1>1, <1>2, <1>3, <1>4, <2>1, <2>2, TurnFrame
<1>5. CASE /\ at \in surviving /\ surviving' = surviving \ {at}
           /\ results' = Record(results, {at}, turn) /\ UNCHANGED sent
  <2>1. {at} \subseteq surviving /\ surviving' \subseteq Windows
    BY <1>2, <1>5
  <2> QED BY <1>1, <1>2, <1>3, <1>5, <2>1, RecordKeeps, TurnFrame
<1> QED BY <1>4, <1>5 DEF SubmitTurn

(* The turns that are skipped were not recorded before.                    *)
LEMMA SkipTurnsKeeps ==
  ASSUME BatchInv, SlotTypeOK', SkipTurns,
         UNCHANGED <<system, paused, cancelled>>
  PROVE  BatchInv'
<1> USE BatchAssumption
<1>1. /\ phase = "submit_turn" /\ phase' = "complete" /\ at' = 1
      /\ UNCHANGED <<ready, sent, baseline, early, surviving, answered, task,
                     turn>>
  BY DEF SkipTurns, Goto
<1>2. /\ turn > 0 /\ turn \in Nat /\ results \in [Windows -> [Turns -> Nat]]
      /\ \A w \in Windows :
           results[w][0] = 1 /\ \A t \in Turns : results[w][t] <= 1
      /\ \A w \in surviving : \A t \in Turns : t >= turn => results[w][t] = 0
      /\ surviving \subseteq Windows /\ sent \subseteq Windows
      /\ ready \subseteq Windows /\ at' \in 1..(Width + 1)
      /\ 0 \in Turns /\ \A t \in Turns : t \in Nat
  BY <1>1 DEF BatchInv, RecordedOnce, TypeOK, Turns
<1>3. \A t \in Left : t >= turn
  BY <1>2 DEF Left
<1>4. ASSUME NEW w \in Windows
      PROVE  /\ results'[w] \in [Turns -> Nat]
             /\ results'[w][0] = 1 /\ \A t \in Turns : results'[w][t] <= 1
  <2>1. CASE w \in surviving
    <3>1. results'[w] = [t \in Turns |->
                           results[w][t] + (IF t \in Left THEN 1 ELSE 0)]
      BY <2>1 DEF SkipTurns
    <3>2. \A t \in Turns : results[w][t] \in Nat
      BY <1>2
    <3>3. \A t \in Turns : results'[w][t] \in Nat /\ results'[w][t] <= 1
      BY <1>2, <1>3, <2>1, <3>1, <3>2
    <3>4. 0 \notin Left
      BY <1>2, <1>3
    <3>5. results'[w][0] = 1
      BY <1>2, <3>1, <3>4
    <3> QED BY <3>1, <3>3, <3>5
  <2>2. CASE w \notin surviving
    BY <1>2, <2>2 DEF SkipTurns
  <2> QED BY <2>1, <2>2
<1>5. results' \in [Windows -> [Turns -> Nat]]
  <2>1. results' = [w \in Windows |-> results'[w]]
    BY DEF SkipTurns
  <2> QED BY <1>4, <2>1
<1> QED BY <1>1, <1>2, <1>4, <1>5, TurnFrame

LEMMA EndStepsKeep ==
  ASSUME BatchInv, SlotTypeOK',
         BreakCancelled \/ PollRaises \/ PollTurnRaises \/ Killed,
         UNCHANGED <<system, paused, cancelled>>
  PROVE  BatchInv'
<1>1. phase' \in Ends \ {"complete"} /\ UNCHANGED <<ready, lists, task, turn>>
  BY DEF BreakCancelled, PollRaises, PollTurnRaises, Killed, Goto, Ends
<1>2. at' \in 1..(Width + 1)
  <2>1. at' = at \/ at' = 1
    BY DEF BreakCancelled, PollRaises, PollTurnRaises, Killed, Goto
  <2> QED BY <2>1, BatchAssumption DEF BatchInv, TypeOK
<1> QED BY <1>1, <1>2, EndsKeep

-----------------------------------------------------------------------------
(***************************************************************************)
(* Every step.                                                             *)
(***************************************************************************)
(* The slots are touched by the recoveries and by time.                    *)
LEMMA SlotsKept == SlotInv /\ [Next]_vars => SlotInv'
<1> SUFFICES ASSUME SlotInv, [Next]_vars PROVE SlotInv'
  OBVIOUS
<1>1. CASE Batch
  <2>1. UNCHANGED slots
    BY <1>1 DEF Batch, BreakCancelled, SendSystemPrompt, PollSystemPrompts,
       CollectSystemAnswer, SubmitPrompt, PollRaises, PollNobody, RecordResults,
       PrepareTurn, SubmitTurn, SkipTurns, PollTurnRaises
  <2> QED BY <2>1, SlotsUnchanged
<1>2. ASSUME NEW c \in Callers, Recovery(c) PROVE SlotInv'
  <2>1. CASE UNCHANGED slots
    BY <2>1, SlotsUnchanged
  <2>2. CASE PreparePrompt(c)
    BY <2>1, <2>2, AskKeeps DEF PreparePrompt
  <2>3. CASE HoldSlot(c)
    BY <2>3, ReadKeeps DEF HoldSlot
  <2>4. CASE GetSlot(c)
    BY <2>4, TakeKeeps, SkipKeeps DEF GetSlot
  <2>5. CASE ResetWindow(c) \/ SubmitReplay(c) \/ PollReplay(c)
             \/ RecoveryCancelled(c)
    BY <2>1, <2>5 DEF ResetWindow, SubmitReplay, PollReplay, RecoveryCancelled
  <2> QED BY <1>2, <2>2, <2>3, <2>4, <2>5 DEF Recovery
<1>3. CASE Clock
  BY <1>3, TickKeeps DEF Clock
<1>4. CASE Stopped \/ User \/ UNCHANGED vars
  BY <1>4, SlotsUnchanged DEF Stopped, Killed, User, vars
<1> QED BY <1>1, <1>2, <1>3, <1>4 DEF Next, Recoveries

LEMMA BatchKept == SlotInv /\ BatchInv /\ [Next]_vars => BatchInv'
<1> SUFFICES ASSUME SlotInv, BatchInv, [Next]_vars PROVE BatchInv'
  OBVIOUS
<1>1. SlotTypeOK'
  BY SlotsKept DEF SlotInv
<1>2. CASE Batch
  <2>1. UNCHANGED <<system, paused, cancelled>>
    BY <1>2 DEF Batch
  <2>2. CASE BreakCancelled \/ PollRaises \/ PollTurnRaises
    BY <1>1, <2>1, <2>2, EndStepsKeep
  <2>3. CASE SendSystemPrompt
    BY <1>1, <2>1, <2>3, SendSystemPromptKeeps
  <2>4. CASE PollSystemPrompts
    BY <1>1, <2>1, <2>4, PollSystemPromptsKeeps
  <2>5. CASE CollectSystemAnswer
    BY <1>1, <2>1, <2>5, CollectSystemAnswerKeeps
  <2>6. CASE SubmitPrompt
    BY <1>1, <2>1, <2>6, SubmitPromptKeeps
  <2>7. CASE PollNobody
    BY <1>1, <2>1, <2>7, PollNobodyKeeps
  <2>8. CASE RecordResults
    BY <1>1, <2>1, <2>8, RecordResultsKeeps
  <2>9. CASE PrepareTurn
    BY <1>1, <2>1, <2>9, PrepareTurnKeeps
  <2>10. CASE SubmitTurn
    BY <1>1, <2>1, <2>10, SubmitTurnKeeps
  <2>11. CASE SkipTurns
    BY <1>1, <2>1, <2>11, SkipTurnsKeeps
  <2> QED BY <1>2, <2>2, <2>3, <2>4, <2>5, <2>6, <2>7, <2>8, <2>9, <2>10, <2>11
          DEF Batch
<1>3. CASE Recoveries
  BY <1>1, <1>3, RecoveryKeeps DEF Recoveries
<1>4. CASE Stopped
  BY <1>1, <1>4, EndStepsKeep DEF Stopped
<1>5. CASE Clock \/ User \/ UNCHANGED vars
  <2>1. paused \in BOOLEAN /\ cancelled \in BOOLEAN
    BY DEF BatchInv, TypeOK
  <2>2. /\ UNCHANGED <<system, batch>>
        /\ paused' \in BOOLEAN /\ cancelled' \in BOOLEAN
    BY <1>5, <2>1 DEF Clock, User, Pause, Resume, StopRun, vars
  <2> QED BY <1>1, <2>2, BatchUnchanged
<1> QED BY <1>2, <1>3, <1>4, <1>5 DEF Next

LEMMA BothInvariant == Spec => [](SlotInv /\ BatchInv)
<1>1. Init => SlotInv /\ BatchInv
  BY SlotInitially, BatchInitially DEF Init
<1>2. SlotInv /\ BatchInv /\ [Next]_vars => (SlotInv /\ BatchInv)'
  BY SlotsKept, BatchKept
<1> QED BY <1>1, <1>2, PTL DEF Spec

(* A batch keeps the types of its state: its loops index windows, and its  *)
(* tasks stay within their resets.                                         *)
THEOREM TypeCorrect == Spec => []TypeOK
<1>1. BatchInv => TypeOK
  BY DEF BatchInv
<1> QED BY <1>1, BothInvariant, PTL

(* _await_submit_slot keeps the drawn gap between two submissions of a     *)
(* group, for any number of recoveries, groups and gaps.                   *)
THEOREM GapsKept == Spec => []SlotsApart
<1>1. SlotInv => SlotsApart
  BY DEF SlotInv
<1> QED BY <1>1, BothInvariant, PTL

(* The four places of execute_run that fill early_failures put a window in *)
(* it once, and never one whose prompt was submitted.                      *)
THEOREM OneRecoveryEach == Spec => []FailedOnce
<1>1. BatchInv => FailedOnce
  <2> SUFFICES ASSUME BatchInv, phase \in {"submit", "poll"}
               PROVE  \A i \in DOMAIN early : early[i] \notin sent
    BY DEF FailedOnce, BatchInv, Distinct
  <2>1. Early \cap sent = {}
    BY DEF BatchInv, Sorted
  <2> QED BY <2>1 DEF Early
<1> QED BY <1>1, BothInvariant, PTL

(* A batch that completes has one result of every window for its prompt,   *)
(* and at most one for each turn.                                          *)
THEOREM OneResultRecorded == Spec => []OneResultEach
<1>1. BatchInv => OneResultEach
  BY DEF BatchInv
<1> QED BY <1>1, BothInvariant, PTL
=============================================================================
