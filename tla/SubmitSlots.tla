----------------------------- MODULE SubmitSlots -----------------------------
(***************************************************************************)
(* _await_submit_slot (src/src/orchestrator/run_orchestrator.py): windows  *)
(* behind one proxy take turns to submit.  A group of windows has a lock   *)
(* and the time its next submission is allowed at; a caller reads that     *)
(* time once it holds the lock, sleeps, and sets the next one when it      *)
(* leaves.                                                                 *)
(*                                                                         *)
(* Times are counted from now: readyIn is _submit_group_next_ready_at less *)
(* the clock, so that a Tick lowers it.  These are the steps of the        *)
(* callers; the module that extends this one says who calls and when.      *)
(***************************************************************************)
EXTENDS Naturals, Sequences

CONSTANTS
  Callers,  \* tasks that submit: the recoveries of a batch
  Groups,   \* proxies, or the bare IP
  Gaps      \* the submission gap with its jitter, in ticks

ASSUME SlotAssumption ==
  /\ Groups # {}
  /\ Gaps \subseteq Nat /\ Gaps # {}
  /\ \E g \in Gaps : \A h \in Gaps : h <= g

VARIABLES
  queue,    \* per group: its lock, the holder first, then who waits for it
  readyIn,  \* per group: time until the next submission is allowed
  slot,     \* per caller: where it is, its group and how long it sleeps
  since,    \* history, per group: time since the last submission was granted
  gap,      \* history, per group: the gap drawn then
  tooSoon   \* history: groups granted two submissions within the gap

slots == <<queue, readyIn, slot, since, gap, tooSoon>>

Longest == CHOOSE g \in Gaps : \A h \in Gaps : h <= g

Asleep(g, left) == [at |-> "sleeping", group |-> g, left |-> left]
Waiting(g) == [at |-> "queued", group |-> g, left |-> 0]
Away == [at |-> "away", group |-> CHOOSE g \in Groups : TRUE, left |-> 0]

SlotTypeOK ==
  /\ queue \in [Groups -> Seq(Callers)]
  /\ readyIn \in [Groups -> 0..Longest]
  /\ slot \in [Callers -> [at    : {"away", "queued", "sleeping"},
                           group : Groups,
                           left  : 0..Longest]]
  /\ since \in [Groups -> 0..Longest]
  /\ gap \in [Groups -> Gaps \cup {0}]
  /\ tooSoon \subseteq Groups

SlotInit ==
  /\ queue = [g \in Groups |-> <<>>]
  /\ readyIn = [g \in Groups |-> 0]
  /\ slot = [c \in Callers |-> Away]
  /\ since = [g \in Groups |-> Longest]
  /\ gap = [g \in Groups |-> 0]
  /\ tooSoon = {}

(* The key is read, then the lock awaited.                                 *)
AskSlot(c, g) ==
  /\ slot[c].at = "away"
  /\ slot' = [slot EXCEPT ![c] = Waiting(g)]
  /\ queue' = [queue EXCEPT ![g] = Append(@, c)]
  /\ UNCHANGED <<readyIn, since, gap, tooSoon>>

MutFirst(c) == TRUE  \* no lock

First(c) == Head(queue[slot[c].group]) = c

(* The group's time is read under the lock, and slept until.               *)
ReadSlot(c) ==
  /\ slot[c].at = "queued" /\ First(c)
  /\ slot' = [slot EXCEPT ![c] = Asleep(@.group, readyIn[@.group])]
  /\ UNCHANGED <<queue, readyIn, since, gap, tooSoon>>

LeaveLock(c) ==
  /\ queue' = [queue EXCEPT ![slot[c].group] = Tail(@)]
  /\ slot' = [slot EXCEPT ![c] = Away]

(* The submission is granted when the sleep is over, and the next one is   *)
(* put off by a new gap.                                                   *)
TakeSlot(c) ==
  LET g == slot[c].group IN
  /\ slot[c].at = "sleeping" /\ slot[c].left = 0
  /\ LeaveLock(c)
  /\ \E wait \in Gaps :
       /\ readyIn' = [readyIn EXCEPT ![g] = wait]
       /\ gap' = [gap EXCEPT ![g] = wait]
  /\ since' = [since EXCEPT ![g] = 0]
  /\ tooSoon' = IF since[g] < gap[g] THEN tooSoon \cup {g} ELSE tooSoon

(* returns with the lock held                                              *)
MutSkipSlot(c) ==
  /\ slot[c].at = "sleeping" \/ (slot[c].at = "queued" /\ First(c))
  /\ slot' = [slot EXCEPT ![c] = Away]
  /\ UNCHANGED <<queue, readyIn, since, gap, tooSoon>>

(* A cancelled run leaves the lock without touching the group's time.      *)
SkipSlot(c) ==
  /\ slot[c].at = "sleeping" \/ (slot[c].at = "queued" /\ First(c))
  /\ LeaveLock(c)
  /\ UNCHANGED <<readyIn, since, gap, tooSoon>>

Sooner(n) == IF n > 0 THEN n - 1 ELSE 0

Tick ==
  /\ readyIn' = [g \in Groups |-> Sooner(readyIn[g])]
  /\ slot' = [c \in Callers |-> [slot[c] EXCEPT !.left = Sooner(@)]]
  /\ since' = [g \in Groups |->
                 IF since[g] < Longest THEN since[g] + 1 ELSE Longest]
  /\ UNCHANGED <<queue, gap, tooSoon>>

-----------------------------------------------------------------------------
(* A submission is granted no sooner after the last one of its group than  *)
(* the gap that was drawn then, however many windows wait for the slot and *)
(* whenever they read the group's time.                                    *)
SlotsApart == tooSoon = {}
=============================================================================
