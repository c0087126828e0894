----------------------------- MODULE ServerProofs -----------------------------
(***************************************************************************)
(* Proofs about BrowserManager and Server, for any number of executions,   *)
(* run ids, layouts and monitors and any requests: how groups of windows   *)
(* come and go under the layout lock, what close-all leaves of them, and   *)
(* that the tiles they are given do not overlap.                           *)
(***************************************************************************)
EXTENDS Server, TilingProofs, SequenceTheorems, FiniteSetTheorems

-----------------------------------------------------------------------------
(***************************************************************************)
(* Sequences.                                                              *)
(***************************************************************************)
(* RemoveAt closes the gap it makes.                                       *)
LEMMA RemoveAtGap ==
  ASSUME NEW S, NEW s \in Seq(S), NEW i \in 1..Len(s)
  PROVE  /\ RemoveAt(s, i) \in Seq(S)
         /\ Len(RemoveAt(s, i)) = Len(s) - 1
         /\ \A j \in 1..(Len(s) - 1) :
              RemoveAt(s, i)[j] = IF j < i THEN s[j] ELSE s[j + 1]
<1> DEFINE a == SubSeq(s, 1, i - 1)
           b == SubSeq(s, i + 1, Len(s))
<1>1. a \in Seq(S) /\ Len(a) = i - 1 /\ \A j \in 1..(i - 1) : a[j] = s[j]
  OBVIOUS
<1>2. /\ b \in Seq(S) /\ Len(b) = Len(s) - i
      /\ \A j \in 1..(Len(s) - i) : b[j] = s[i + j]
  OBVIOUS
<1>3. RemoveAt(s, i) = a \o b
  BY DEF RemoveAt
<1> HIDE DEF a, b
<1>4. a \o b \in Seq(S)
  BY <1>1, <1>2, ConcatProperties
<1>5. Len(a \o b) = Len(a) + Len(b)
  BY <1>1, <1>2, ConcatProperties
<1>6. Len(a \o b) = Len(s) - 1
  BY <1>1, <1>2, <1>5
<1>7. ASSUME NEW j \in 1..(Len(s) - 1)
      PROVE  (a \o b)[j] = IF j < i THEN s[j] ELSE s[j + 1]
  <2>1. (a \o b)[j] = IF j <= Len(a) THEN a[j] ELSE b[j - Len(a)]
    BY <1>1, <1>2
  <2>2. CASE j < i
    BY <1>1, <2>1, <2>2
  <2>3. CASE ~(j < i)
    <3>1. j - (i - 1) \in 1..(Len(s) - i) /\ i + (j - (i - 1)) = j + 1
      BY <2>3
    <3>2. b[j - (i - 1)] = s[j + 1]
      BY <1>2, <3>1
    <3> QED BY <1>1, <2>1, <2>3, <3>2
  <2> QED BY <2>2, <2>3
<1> QED BY <1>3, <1>4, <1>6, <1>7

(* What has no element twice.                                              *)
Distinct(s) == \A i, j \in 1..Len(s) : s[i] = s[j] => i = j

Has(s, e) == \E i \in 1..Len(s) : s[i] = e

(* RemoveFirst takes one element out of a sequence without repetition, and *)
(* leaves the first one where it is if it is another.                      *)
LEMMA RemoveFirstOut ==
  ASSUME NEW S, NEW s \in Seq(S), Distinct(s), NEW e,
         NEW r, r = RemoveFirst(s, e)
  PROVE  /\ r \in Seq(S) /\ Distinct(r)
         /\ ~Has(r, e)
         /\ \A x : x # e => (Has(r, x) <=> Has(s, x))
         /\ s # <<>> /\ s[1] # e => r # <<>> /\ r[1] = s[1]
<1>1. CASE ~Has(s, e)
  BY <1>1 DEF RemoveFirst, Has
<1>2. ASSUME NEW k \in 1..Len(s), s[k] = e
      PROVE  /\ r \in Seq(S) /\ Distinct(r)
             /\ ~Has(r, e)
             /\ \A x : x # e => (Has(r, x) <=> Has(s, x))
             /\ s # <<>> /\ s[1] # e => r # <<>> /\ r[1] = s[1]
  <2>1. {i \in 1..Len(s) : s[i] = e} = {k}
    BY <1>2 DEF Distinct
  <2>2. Min({k}) = k
    BY DEF Min
  <2>3. SelectInSeq(s, LAMBDA v : v = e) = k
    BY <2>1, <2>2 DEF SelectInSeq
  <2>4. r = RemoveAt(s, k)
    BY <1>2, <2>3 DEF RemoveFirst
  <2>5. /\ r \in Seq(S) /\ Len(r) = Len(s) - 1
        /\ \A j \in 1..(Len(s) - 1) : r[j] = IF j < k THEN s[j] ELSE s[j + 1]
    BY <2>4, RemoveAtGap
  <2>6. Distinct(r)
    BY <2>5 DEF Distinct
  <2>7. ~Has(r, e)
    BY <1>2, <2>5 DEF Distinct, Has
  <2>8. ASSUME NEW x, x # e PROVE Has(r, x) <=> Has(s, x)
    <3>1. Has(r, x) => Has(s, x)
      BY <2>5 DEF Has
    <3>2. ASSUME NEW j \in 1..Len(s), s[j] = x PROVE Has(r, x)
      <4>1. CASE j < k
        BY <2>5, <3>2, <4>1 DEF Has
      <4>2. CASE ~(j < k)
        <5>1. j - 1 \in 1..(Len(s) - 1) /\ ~(j - 1 < k) /\ (j - 1) + 1 = j
          BY <1>2, <2>8, <3>2, <4>2
        <5> QED BY <2>5, <3>2, <5>1 DEF Has
      <4> QED BY <4>1, <4>2
    <3> QED BY <3>1, <3>2 DEF Has
  <2>9. s # <<>> /\ s[1] # e => r # <<>> /\ r[1] = s[1]
    BY <1>2, <2>5
  <2> QED BY <2>5, <2>6, <2>7, <2>8, <2>9
<1> QED BY <1>1, <1>2 DEF Has

-----------------------------------------------------------------------------
(***************************************************************************)
(* The manager.                                                            *)
(***************************************************************************)
(* A group, as far as these proofs look at it.                             *)
IsGroup(g) ==
  /\ g = [run |-> g.run, owner |-> g.owner, open |-> g.open,
          layout |-> g.layout, tiles |-> g.tiles, stale |-> g.stale]
  /\ g.run \in RunIds
  /\ g.layout \in Layouts \cup {NoLayout}

CloseCall ==
  [op : {"close"}, at : {"waiting", "emptying"}, run : RunIds \cup {Default}]

CreateCall ==
  [op : {"create"}, at : {"waiting", "emptying", "launching"}, run : RunIds,
   request : Request]

(* _groups is a dict: a run has one group.  Its keys and its layouts are   *)
(* as they were asked for.                                                 *)
IsGroups(gs) ==
  /\ gs \in Seq({gs[i] : i \in DOMAIN gs})
  /\ \A i \in DOMAIN gs : IsGroup(gs[i])
  /\ \A i, j \in DOMAIN gs : gs[i].run = gs[j].run => i = j

(* Who calls the manager waits for the layout lock or has it, in one place *)
(* of its queue, and only its holder is past the wait.                     *)
LockOK ==
  /\ queue \in Seq(Calls)
  /\ Distinct(queue)
  /\ call \in [Calls -> {NoCall} \cup CloseCall \cup CreateCall]
  /\ \A c \in Calls : call[c] # NoCall <=> Has(queue, c)
  /\ \A c \in Calls :
       call[c].at \in {"emptying", "launching"} => queue # <<>> /\ queue[1] = c
  /\ \A c \in Calls : call[c].op = "create" => call[c].run = call[c].request.run

(* While create_contexts closes the older group of its run, the run has    *)
(* none.                                                                   *)
Replaced ==
  \A c \in Calls : call[c].op = "create" /\ call[c].at = "emptying" =>
    \A i \in DOMAIN groups : groups[i].run # call[c].run

ManagerInv ==
  /\ IsGroups(groups)
  /\ LockOK
  /\ Replaced
  /\ reservations = [l \in Layouts |-> reservations[l]]
  /\ ReservedWhileLive

-----------------------------------------------------------------------------
(* Steps of the manager.                                                   *)

(* A group that is taken out leaves the others.                            *)
LEMMA GroupsWithout ==
  ASSUME NEW gs, IsGroups(gs), NEW i \in DOMAIN gs,
         NEW r, r = RemoveAt(gs, i)
  PROVE  /\ IsGroups(r)
         /\ \A j \in DOMAIN r : \E k \in DOMAIN gs : k # i /\ r[j] = gs[k]
<1> DEFINE S == {gs[k] : k \in DOMAIN gs}
           from(j) == IF j < i THEN j ELSE j + 1
<1>1. gs \in Seq(S) /\ i \in 1..Len(gs) /\ DOMAIN gs = 1..Len(gs)
  BY DEF IsGroups
<1>2. /\ r \in Seq(S) /\ Len(r) = Len(gs) - 1
      /\ \A j \in 1..(Len(gs) - 1) : r[j] = IF j < i THEN gs[j] ELSE gs[j + 1]
  BY <1>1, RemoveAtGap
<1>3. DOMAIN r = 1..(Len(gs) - 1) /\ r = [j \in 1..(Len(gs) - 1) |-> r[j]]
  BY <1>2
<1>4. \A j \in DOMAIN r : from(j) \in DOMAIN gs /\ from(j) # i /\ r[j] = gs[from(j)]
  BY <1>1, <1>2, <1>3
<1>5. \A j, k \in DOMAIN r : from(j) = from(k) => j = k
  BY <1>1, <1>3
<1> HIDE DEF S, from
<1>6. r \in Seq({r[j] : j \in DOMAIN r})
  BY <1>1, <1>3
<1>7. \A j \in DOMAIN r : IsGroup(r[j])
  BY <1>4 DEF IsGroups
<1>8. \A j, k \in DOMAIN r : r[j].run = r[k].run => j = k
  BY <1>4, <1>5 DEF IsGroups
<1> QED BY <1>4, <1>6, <1>7, <1>8 DEF IsGroups

(* A group of a run that has none is added.                                *)
LEMMA GroupsWith ==
  ASSUME NEW gs, IsGroups(gs), NEW g, IsGroup(g),
         \A i \in DOMAIN gs : gs[i].run # g.run
  PROVE  /\ IsGroups(Append(gs, g))
         /\ \A j \in DOMAIN Append(gs, g) :
              \/ j \in DOMAIN gs /\ Append(gs, g)[j] = gs[j]
              \/ Append(gs, g)[j] = g
<1> DEFINE S == {gs[k] : k \in DOMAIN gs}
           T == S \cup {g}
           n == Len(gs)
<1> DEFINE r == Append(gs, g)
<1>1. gs \in Seq(S) /\ DOMAIN gs = 1..n /\ n \in Nat
  BY DEF IsGroups
<1>2. gs \in Seq(T)
  BY <1>1
<1> HIDE DEF S
<1>3. /\ r \in Seq(T) /\ Len(r) = n + 1 /\ r[n + 1] = g
      /\ \A j \in 1..n : r[j] = gs[j]
  BY <1>2
<1> HIDE DEF T, n, r
<1>4. DOMAIN r = 1..(n + 1) /\ r = [j \in 1..(n + 1) |-> r[j]]
  BY <1>3
<1>5. r \in Seq({r[j] : j \in DOMAIN r})
  BY <1>1, <1>4
<1>6. \A j \in DOMAIN r :
        \/ j \in DOMAIN gs /\ r[j] = gs[j]
        \/ j = n + 1 /\ r[j] = g
  <2>1. \A j \in 1..(n + 1) : j \in 1..n \/ j = n + 1
    BY <1>1
  <2>2. \A j \in 1..n : j \in DOMAIN gs /\ r[j] = gs[j]
    BY <1>1, <1>3
  <2>3. r[n + 1] = g
    BY <1>3
  <2>4. DOMAIN r = 1..(n + 1)
    BY <1>4
  <2> QED BY <2>1, <2>2, <2>3, <2>4
<1>7. \A j \in DOMAIN r : IsGroup(r[j])
  BY <1>6 DEF IsGroups
<1>8. \A j, k \in DOMAIN r : r[j].run = r[k].run => j = k
  BY <1>6 DEF IsGroups
<1>9. IsGroups(r)
  BY <1>5, <1>7, <1>8 DEF IsGroups
<1> QED BY <1>6, <1>9 DEF r

(* Windows, tiles and stale windows of a group may change.                 *)
LEMMA GroupsRewritten ==
  ASSUME NEW gs, IsGroups(gs), NEW r,
         r = [i \in DOMAIN gs |-> r[i]],
         \A i \in DOMAIN gs :
           /\ r[i] = [run |-> r[i].run, owner |-> r[i].owner, open |-> r[i].open,
                      layout |-> r[i].layout, tiles |-> r[i].tiles,
                      stale |-> r[i].stale]
           /\ r[i].run = gs[i].run /\ r[i].layout = gs[i].layout
  PROVE  IsGroups(r)
<1>1. Len(gs) \in Nat /\ DOMAIN gs = 1..Len(gs)
  BY DEF IsGroups
<1>2. r \in Seq({r[i] : i \in DOMAIN r})
  BY <1>1
<1> QED BY <1>2 DEF IsGroups, IsGroup

LEMMA RetiledGroups ==
  ASSUME NEW gs, IsGroups(gs), NEW count
  PROVE  /\ IsGroups(Retiled(gs, count))
         /\ DOMAIN Retiled(gs, count) = DOMAIN gs
         /\ \A i \in DOMAIN gs : /\ Retiled(gs, count)[i].run = gs[i].run
                                 /\ Retiled(gs, count)[i].layout = gs[i].layout
<1> DEFINE r == Retiled(gs, count)
<1>1. r = [i \in DOMAIN gs |-> r[i]] /\ DOMAIN r = DOMAIN gs
  BY DEF Retiled
<1>2. ASSUME NEW i \in DOMAIN gs
      PROVE  /\ r[i] = [run |-> r[i].run, owner |-> r[i].owner, open |-> r[i].open,
                        layout |-> r[i].layout, tiles |-> r[i].tiles,
                        stale |-> r[i].stale]
             /\ r[i].run = gs[i].run /\ r[i].layout = gs[i].layout
  <2> DEFINE t == [j \in DOMAIN gs[i].tiles |->
                     IF j <= gs[i].open
                     THEN <<count, OpenIn(gs, i - 1) + j - 1>> ELSE gs[i].tiles[j]]
  <2>1. r[i] = [gs[i] EXCEPT !.tiles = t, !.stale = {}]
    BY DEF Retiled
  <2> HIDE DEF t, r
  <2>2. IsGroup(gs[i])
    BY DEF IsGroups
  <2>3. r[i] = [run |-> gs[i].run, owner |-> gs[i].owner, open |-> gs[i].open,
                layout |-> gs[i].layout, tiles |-> t, stale |-> {}]
    BY <2>1, <2>2 DEF IsGroup
  <2> QED BY <2>3
<1> HIDE DEF r
<1>3. IsGroups(r)
  BY <1>1, <1>2, GroupsRewritten
<1> QED BY <1>1, <1>2, <1>3 DEF r

LEMMA CallKinds ==
  ASSUME LockOK, NEW c \in Calls
  PROVE  \/ call[c] = NoCall /\ call[c].op = "none" /\ call[c].at = "away"
         \/ call[c] \in CloseCall /\ call[c].op = "close"
         \/ call[c] \in CreateCall /\ call[c].op = "create"
<1>1. CASE call[c] = NoCall
  BY <1>1 DEF NoCall
<1>2. CASE call[c] \in CloseCall
  BY <1>2 DEF CloseCall
<1>3. CASE call[c] \in CreateCall
  BY <1>3 DEF CreateCall
<1> QED BY <1>1, <1>2, <1>3 DEF LockOK

(* Who asks for the lock was not in the queue, and is at its end.          *)
LEMMA AskLock ==
  ASSUME LockOK, NEW c \in Calls, NEW what, Ask(c, what),
         what \in CloseCall \cup CreateCall, what.at = "waiting",
         what.op = "create" => what.run = what.request.run
  PROVE  LockOK'
<1>1. /\ call[c] = NoCall
      /\ call' = [call EXCEPT ![c] = what]
      /\ queue' = Append(queue, c)
  BY DEF Ask
<1>2. /\ queue \in Seq(Calls) /\ Distinct(queue)
      /\ call \in [Calls -> {NoCall} \cup CloseCall \cup CreateCall]
      /\ \A d \in Calls : call[d] # NoCall <=> Has(queue, d)
  BY DEF LockOK
<1>3. ~Has(queue, c)
  BY <1>1, <1>2
<1>4. /\ queue' \in Seq(Calls) /\ Len(queue') = Len(queue) + 1
      /\ \A i \in 1..Len(queue) : queue'[i] = queue[i]
      /\ queue'[Len(queue) + 1] = c
      /\ Len(queue) \in Nat
  BY <1>1, <1>2
<1>5. Distinct(queue)'
  BY <1>2, <1>3, <1>4 DEF Distinct, Has
<1>6. ASSUME NEW d \in Calls PROVE Has(queue, d)' <=> Has(queue, d) \/ d = c
  BY <1>4 DEF Has
<1>7. what # NoCall
  BY DEF NoCall
<1>8. /\ call' \in [Calls -> {NoCall} \cup CloseCall \cup CreateCall]
      /\ call'[c] = what /\ \A d \in Calls : d # c => call'[d] = call[d]
  BY <1>1, <1>2
<1>9. \A d \in Calls : call'[d] # NoCall <=> Has(queue, d)'
  BY <1>2, <1>6, <1>7, <1>8
<1>10. \A d \in Calls :
         call'[d].at \in {"emptying", "launching"} => queue' # <<>> /\ queue'[1] = d
  <2> SUFFICES ASSUME NEW d \in Calls, call'[d].at \in {"emptying", "launching"}
               PROVE  queue' # <<>> /\ queue'[1] = d
    OBVIOUS
  <2>1. d # c
    BY <1>8
  <2>2. queue # <<>> /\ queue[1] = d
    BY <1>8, <2>1 DEF LockOK
  <2>3. 1 \in 1..Len(queue)
    BY <1>2, <2>2
  <2> QED BY <1>4, <2>2, <2>3
<1>11. \A d \in Calls : call'[d].op = "create" => call'[d].run = call'[d].request.run
  BY <1>8 DEF LockOK
<1> QED BY <1>4, <1>5, <1>8, <1>9, <1>10, <1>11 DEF LockOK

(* Who releases the lock, or leaves the queue, leaves the others there.    *)
LEMMA ReleaseLock ==
  ASSUME LockOK, NEW c \in Calls, Release(c)
  PROVE  /\ LockOK'
         /\ call'[c] = NoCall
         /\ \A d \in Calls : d # c => call'[d] = call[d]
<1>1. /\ queue' = RemoveFirst(queue, c)
      /\ call' = [call EXCEPT ![c] = NoCall]
  BY DEF Release, Without
<1>2. /\ queue \in Seq(Calls) /\ Distinct(queue)
      /\ call \in [Calls -> {NoCall} \cup CloseCall \cup CreateCall]
      /\ \A d \in Calls : call[d] # NoCall <=> Has(queue, d)
  BY DEF LockOK
<1>3. /\ queue' \in Seq(Calls) /\ Distinct(queue')
      /\ ~Has(queue', c)
      /\ \A d : d # c => (Has(queue', d) <=> Has(queue, d))
      /\ queue # <<>> /\ queue[1] # c => queue' # <<>> /\ queue'[1] = queue[1]
  BY <1>1, <1>2, RemoveFirstOut
<1>4. /\ call' \in [Calls -> {NoCall} \cup CloseCall \cup CreateCall]
      /\ call'[c] = NoCall /\ \A d \in Calls : d # c => call'[d] = call[d]
  BY <1>1, <1>2
<1>5. \A d \in Calls : call'[d] # NoCall <=> Has(queue', d)
  BY <1>2, <1>3, <1>4
<1>6. NoCall.at \notin {"emptying", "launching"} /\ NoCall.op # "create"
  BY DEF NoCall
<1>7. \A d \in Calls :
        call'[d].at \in {"emptying", "launching"} => queue' # <<>> /\ queue'[1] = d
  BY <1>3, <1>4, <1>6 DEF LockOK
<1>8. \A d \in Calls : call'[d].op = "create" => call'[d].run = call'[d].request.run
  BY <1>4, <1>6 DEF LockOK
<1>9. LockOK'
  BY <1>3, <1>4, <1>5, <1>7, <1>8 DEF LockOK, Distinct, Has
<1> QED BY <1>4, <1>9

(* The holder of the lock goes on with what it has asked for.              *)
LEMMA GoOnLock ==
  ASSUME LockOK, NEW c \in Calls, queue # <<>>, queue[1] = c, NEW at, GoOn(c, at),
         \/ call[c].op = "create" /\ at \in {"emptying", "launching"}
         \/ call[c].op = "close" /\ at = "emptying"
  PROVE  /\ LockOK'
         /\ call'[c] # NoCall /\ call'[c].at = at
         /\ call'[c].op = call[c].op /\ call'[c].run = call[c].run
         /\ \A d \in Calls : d # c => call'[d] = call[d]
<1>1. call' = [call EXCEPT ![c].at = at] /\ queue' = queue
  BY DEF GoOn
<1>2. call \in [Calls -> {NoCall} \cup CloseCall \cup CreateCall]
  BY DEF LockOK
<1>3. \/ call[c] \in CloseCall /\ at = "emptying"
      \/ call[c] \in CreateCall /\ at \in {"emptying", "launching"}
  BY CallKinds
<1>4. /\ call'[c] = [call[c] EXCEPT !.at = at]
      /\ \A d \in Calls : d # c => call'[d] = call[d]
      /\ call' = [d \in Calls |-> call'[d]]
  BY <1>1, <1>2
<1>5. /\ call'[c] \in CloseCall \cup CreateCall
      /\ call'[c].at = at /\ call'[c].op = call[c].op /\ call'[c].run = call[c].run
      /\ call[c].op = "create" => call'[c].request = call[c].request
  <2>1. CASE call[c] \in CloseCall /\ at = "emptying"
    BY <1>4, <2>1 DEF CloseCall
  <2>2. CASE call[c] \in CreateCall /\ at \in {"emptying", "launching"}
    BY <1>4, <2>2 DEF CreateCall
  <2> QED BY <1>3, <2>1, <2>2
<1>6. call'[c] # NoCall /\ call[c] # NoCall
  BY <1>5 DEF NoCall
<1>7. call' \in [Calls -> {NoCall} \cup CloseCall \cup CreateCall]
  BY <1>2, <1>4, <1>5
<1>8. \A d \in Calls : call'[d] # NoCall <=> Has(queue, d)
  BY <1>4, <1>6 DEF LockOK
<1>9. \A d \in Calls :
        call'[d].at \in {"emptying", "launching"} => queue # <<>> /\ queue[1] = d
  BY <1>4 DEF LockOK
<1>10. \A d \in Calls : call'[d].op = "create" => call'[d].run = call'[d].request.run
  <2>1. \A d \in Calls : call[d].op = "create" => call[d].run = call[d].request.run
    BY DEF LockOK
  <2>2. call'[c].op = "create" => call'[c].run = call'[c].request.run
    BY <1>5, <2>1
  <2> QED BY <1>4, <2>1, <2>2
<1>11. LockOK'
  BY <1>1, <1>7, <1>8, <1>9, <1>10 DEF LockOK
<1> QED BY <1>4, <1>5, <1>6, <1>11

(* A step that no call but c makes, and after which c does not empty a     *)
(* group it replaces.                                                      *)
LEMMA StillReplaced ==
  ASSUME Replaced, NEW c \in Calls, LockOK,
         \A d \in Calls : d # c => call'[d] = call[d],
         ~(call'[c].op = "create" /\ call'[c].at = "emptying"),
         \/ queue # <<>> /\ queue[1] = c
         \/ \A j \in DOMAIN groups' : \E k \in DOMAIN groups : groups'[j].run = groups[k].run
  PROVE  Replaced'
<1> SUFFICES ASSUME NEW d \in Calls, call'[d].op = "create", call'[d].at = "emptying",
                    NEW i \in DOMAIN groups'
             PROVE  groups'[i].run # call'[d].run
  BY DEF Replaced
<1>1. d # c /\ call'[d] = call[d]
  OBVIOUS
<1>2. queue[1] = d
  BY <1>1 DEF LockOK
<1>3. \A j \in DOMAIN groups' : \E k \in DOMAIN groups : groups'[j].run = groups[k].run
  BY <1>1, <1>2
<1> QED BY <1>1, <1>3 DEF Replaced

(* create_contexts allots tiles to a group of a run that has none, and     *)
(* leaves its layout reserved.                                             *)
LEMMA Allotted ==
  ASSUME NEW c \in Calls, NEW request \in Request, NEW res,
         res = [l \in Layouts |-> res[l]],
         IsGroups(groups),
         \A i \in DOMAIN groups : groups[i].run # request.run,
         \A i \in DOMAIN groups :
           groups[i].layout # NoLayout => res[groups[i].layout] # NoReservation,
         \/ AllotInLayout(c, request, groups, res)
         \/ AllotFixed(c, request, groups, res)
         \/ AllotAmongAll(c, request, groups, res)
  PROVE  /\ IsGroups(groups')
         /\ reservations' = [l \in Layouts |-> reservations'[l]]
         /\ ReservedWhileLive'
<1>1. ASSUME NEW gs, \/ gs = groups
                     \/ \E n : gs = Retiled(groups, n)
      PROVE  /\ IsGroups(gs) /\ DOMAIN gs = DOMAIN groups
             /\ \A i \in DOMAIN groups : /\ gs[i].run = groups[i].run
                                         /\ gs[i].layout = groups[i].layout
  BY <1>1, RetiledGroups
<1>2. ASSUME NEW n, NEW first
      PROVE  /\ IsGroup(NewGroup(c, request, n, first))
             /\ NewGroup(c, request, n, first).run = request.run
             /\ NewGroup(c, request, n, first).layout = request.layout
  BY DEF NewGroup, IsGroup, Request
<1>3. \E gs, n, first :
        /\ gs = groups \/ \E m : gs = Retiled(groups, m)
        /\ groups' = Append(gs, NewGroup(c, request, n, first))
  <2>1. CASE AllotInLayout(c, request, groups, res)
    <3> DEFINE reserved == IF res[request.layout] = NoReservation
                           THEN [base |-> Open(groups), total |-> request.total]
                           ELSE res[request.layout]
               n == reserved.base + reserved.total
               gs == IF res[request.layout] = NoReservation
                     THEN Retiled(groups, n) ELSE groups
    <3>1. groups' = Append(gs, NewGroup(c, request, n, reserved.base + request.offset))
      BY <2>1 DEF AllotInLayout
    <3>2. gs = groups \/ gs = Retiled(groups, n)
      OBVIOUS
    <3> HIDE DEF reserved, n, gs
    <3>3. gs = groups \/ \E m : gs = Retiled(groups, m)
      BY <3>2
    <3> QED BY <3>1, <3>3
  <2>2. CASE AllotFixed(c, request, groups, res)
    BY <2>2 DEF AllotFixed
  <2>3. CASE AllotAmongAll(c, request, groups, res)
    BY <2>3 DEF AllotAmongAll
  <2> QED BY <2>1, <2>2, <2>3
<1>4. PICK gs, g :
        /\ IsGroups(gs) /\ DOMAIN gs = DOMAIN groups
        /\ \A i \in DOMAIN groups : /\ gs[i].run = groups[i].run
                                    /\ gs[i].layout = groups[i].layout
        /\ IsGroup(g) /\ g.run = request.run /\ g.layout = request.layout
        /\ groups' = Append(gs, g)
  BY <1>1, <1>2, <1>3
<1>5. /\ IsGroups(groups')
      /\ \A j \in DOMAIN groups' :
           \/ j \in DOMAIN gs /\ groups'[j] = gs[j]
           \/ groups'[j] = g
  BY <1>4, GroupsWith
<1>6. /\ reservations' = [l \in Layouts |-> reservations'[l]]
      /\ \A l \in Layouts : res[l] # NoReservation => reservations'[l] # NoReservation
      /\ request.layout # NoLayout => reservations'[request.layout] # NoReservation
  <2>1. CASE AllotInLayout(c, request, groups, res)
    <3> DEFINE l == request.layout
               reserved == IF res[l] = NoReservation
                           THEN [base |-> Open(groups), total |-> request.total]
                           ELSE res[l]
    <3>1. /\ l # NoLayout /\ request.total # 0
          /\ reservations' = [res EXCEPT ![l] = reserved]
      BY <2>1 DEF AllotInLayout
    <3>2. l \in Layouts
      BY <3>1 DEF Request
    <3>3. reserved # NoReservation
      BY <3>1 DEF NoReservation
    <3> HIDE DEF reserved
    <3> QED BY <3>1, <3>2, <3>3
  <2>2. CASE AllotFixed(c, request, groups, res)
    BY <2>2 DEF AllotFixed
  <2>3. CASE AllotAmongAll(c, request, groups, res)
    BY <2>3 DEF AllotAmongAll, Request
  <2> QED BY <2>1, <2>2, <2>3
<1>7. \A i \in DOMAIN groups : groups[i].layout \in Layouts \cup {NoLayout}
  BY DEF IsGroups, IsGroup
<1>8. ReservedWhileLive'
  BY <1>4, <1>5, <1>6, <1>7 DEF ReservedWhileLive, IsGroup
<1> QED BY <1>5, <1>6, <1>8

(* What a step of the call of c that keeps the manager in order does: it   *)
(* goes on with the call or is through with it; close_contexts only closes *)
(* groups, and has taken out that of its run when it begins.               *)
Serves(c) ==
  /\ ManagerInv'
  /\ \A d \in Calls : d # c => call'[d] = call[d]
  /\ \/ call'[c] = NoCall
     \/ call'[c] # NoCall /\ call'[c].op = call[c].op /\ call'[c].at # "waiting"
  /\ call[c].op = "close" =>
       /\ \A j \in DOMAIN groups' : \E k \in DOMAIN groups : groups'[j].run = groups[k].run
       /\ call[c].at = "waiting" =>
            \A j \in DOMAIN groups' : groups'[j].run # call[c].run

(* A call goes on with the lock once the older group of its run is closed. *)
LEMMA Proceeds ==
  ASSUME ManagerInv, NEW c \in Calls, queue # <<>>, queue[1] = c,
         NEW res, res = [l \in Layouts |-> res[l]],
         \A i \in DOMAIN groups :
           groups[i].layout # NoLayout => res[groups[i].layout] # NoReservation,
         call[c].op = "create" \/ call[c].at = "waiting" =>
           \A i \in DOMAIN groups : groups[i].run # call[c].run,
         Proceed(c, groups, res)
  PROVE  Serves(c)
<1>1. LockOK /\ Replaced /\ IsGroups(groups)
  BY DEF ManagerInv
<1>2. ASSUME call[c].op = "create",
             \/ AllotInLayout(c, call[c].request, groups, res)
             \/ AllotFixed(c, call[c].request, groups, res)
             \/ AllotAmongAll(c, call[c].request, groups, res),
             GoOn(c, "launching")
      PROVE  Serves(c)
  <2>1. call[c].request \in Request /\ call[c].run = call[c].request.run
    <3>1. call[c] \in CreateCall
      BY <1>1, <1>2, CallKinds
    <3> QED BY <1>1, <1>2, <3>1 DEF CreateCall, LockOK
  <2>2. \A i \in DOMAIN groups : groups[i].run # call[c].request.run
    BY <1>2, <2>1
  <2>3. /\ IsGroups(groups')
        /\ reservations' = [l \in Layouts |-> reservations'[l]]
        /\ ReservedWhileLive'
    BY <1>1, <1>2, <2>1, <2>2, Allotted
  <2>4. /\ LockOK'
        /\ call'[c] # NoCall /\ call'[c].at = "launching"
        /\ call'[c].op = call[c].op
        /\ \A d \in Calls : d # c => call'[d] = call[d]
    BY <1>1, <1>2, GoOnLock
  <2>5. Replaced'
    BY <1>1, <2>4, StillReplaced
  <2> QED BY <1>2, <2>3, <2>4, <2>5 DEF Serves, ManagerInv
<1>3. ASSUME call[c].op = "close", groups' = groups, reservations' = res, Release(c)
      PROVE  Serves(c)
  <2>1. /\ LockOK' /\ call'[c] = NoCall
        /\ \A d \in Calls : d # c => call'[d] = call[d]
    BY <1>1, <1>3, ReleaseLock
  <2>2. Replaced'
    BY <1>1, <2>1, StillReplaced DEF NoCall
  <2>3. ReservedWhileLive'
    BY <1>3 DEF ReservedWhileLive
  <2>4. ManagerInv'
    BY <1>1, <1>3, <2>1, <2>2, <2>3 DEF ManagerInv
  <2> QED BY <1>3, <2>1, <2>4 DEF Serves
<1> QED BY <1>2, <1>3 DEF Proceed

LEMMA Enters ==
  ASSUME ManagerInv, NEW c \in Calls, Enter(c)
  PROVE  Serves(c)
<1>1. LockOK /\ Replaced /\ IsGroups(groups)
  BY DEF ManagerInv
<1>2. queue # <<>> /\ queue[1] = c /\ call[c].at = "waiting"
  BY <1>1 DEF Enter, Holds, LockOK
<1>3. CASE /\ OfRun(call[c].run) = {}
           /\ Proceed(c, groups, reservations)
  <2>1. \A i \in DOMAIN groups : groups[i].run # call[c].run
    BY <1>3 DEF OfRun
  <2>2. /\ reservations = [l \in Layouts |-> reservations[l]]
        /\ \A i \in DOMAIN groups :
             groups[i].layout # NoLayout =>
               reservations[groups[i].layout] # NoReservation
    BY DEF ManagerInv, ReservedWhileLive
  <2> QED BY <1>2, <1>3, <2>1, <2>2, Proceeds
<1>4. ASSUME NEW i \in OfRun(call[c].run),
             groups' = RemoveAt(groups, i), GoOn(c, "emptying"),
             reservations' = reservations
      PROVE  Serves(c)
  <2>1. i \in DOMAIN groups /\ groups[i].run = call[c].run
    BY DEF OfRun
  <2>2. /\ IsGroups(groups')
        /\ \A j \in DOMAIN groups' : \E k \in DOMAIN groups : k # i /\ groups'[j] = groups[k]
    BY <1>1, <1>4, <2>1, GroupsWithout
  <2>3. \A j \in DOMAIN groups' : groups'[j].run # call[c].run
    BY <1>1, <2>1, <2>2 DEF IsGroups
  <2>4. call[c].op \in {"close", "create"}
    BY <1>1, <1>2, CallKinds
  <2>5. /\ LockOK'
        /\ call'[c] # NoCall /\ call'[c].at = "emptying"
        /\ call'[c].op = call[c].op /\ call'[c].run = call[c].run
        /\ \A d \in Calls : d # c => call'[d] = call[d]
    BY <1>1, <1>2, <1>4, <2>4, GoOnLock
  <2>6. Replaced'
    <3> SUFFICES ASSUME NEW d \in Calls, call'[d].op = "create", call'[d].at = "emptying"
                 PROVE  \A j \in DOMAIN groups' : groups'[j].run # call'[d].run
      BY DEF Replaced
    <3>1. CASE d = c
      BY <2>3, <2>5, <3>1
    <3>2. CASE d # c
      <4>1. call[d].at = "emptying"
        BY <2>5, <3>2
      <4>2. queue[1] = d
        BY <1>1, <4>1 DEF LockOK
      <4> QED BY <1>2, <3>2, <4>2
    <3> QED BY <3>1, <3>2
  <2>7. ReservedWhileLive'
    BY <1>4, <2>2 DEF ReservedWhileLive, ManagerInv
  <2>8. ManagerInv'
    BY <1>4, <2>2, <2>5, <2>6, <2>7 DEF ManagerInv
  <2> QED BY <2>2, <2>3, <2>5, <2>8 DEF Serves
<1> QED BY <1>3, <1>4 DEF Enter

LEMMA EmptiedServes ==
  ASSUME ManagerInv, NEW c \in Calls, Emptied(c)
  PROVE  Serves(c)
<1>1. LockOK /\ Replaced /\ IsGroups(groups)
  BY DEF ManagerInv
<1>2. queue # <<>> /\ queue[1] = c /\ call[c].at = "emptying"
  BY <1>1 DEF Emptied, Holds, LockOK
<1> DEFINE res == Freed(dying.layout)
<1>3. res = [l \in Layouts |-> res[l]]
  BY DEF Freed, ManagerInv
<1>4. \A i \in DOMAIN groups :
        groups[i].layout # NoLayout => res[groups[i].layout] # NoReservation
  BY DEF Freed, ManagerInv, ReservedWhileLive
<1> HIDE DEF res
<1>5. call[c].op = "create" \/ call[c].at = "waiting" =>
        \A i \in DOMAIN groups : groups[i].run # call[c].run
  BY <1>1, <1>2 DEF Replaced
<1>6. Proceed(c, groups, res)
  BY DEF Emptied, res
<1> QED BY <1>2, <1>3, <1>4, <1>5, <1>6, Proceeds

(* Groups whose windows are launched, tiled anew or recreated are the same *)
(* groups.                                                                 *)
SameGroups ==
  /\ IsGroups(groups')
  /\ DOMAIN groups' = DOMAIN groups
  /\ \A i \in DOMAIN groups : /\ groups'[i].run = groups[i].run
                              /\ groups'[i].layout = groups[i].layout

LEMMA SameGroupsKept ==
  ASSUME IsGroups(groups), NEW m, NEW g,
         groups' = [groups EXCEPT ![m] = g],
         m \in DOMAIN groups =>
           /\ g = [run |-> g.run, owner |-> g.owner, open |-> g.open,
                   layout |-> g.layout, tiles |-> g.tiles, stale |-> g.stale]
           /\ g.run = groups[m].run /\ g.layout = groups[m].layout
  PROVE  SameGroups
<1>1. \A i \in DOMAIN groups : groups'[i] = IF i = m THEN g ELSE groups[i]
  OBVIOUS
<1>2. DOMAIN groups' = DOMAIN groups /\ groups' = [i \in DOMAIN groups |-> groups'[i]]
  OBVIOUS
<1>3. \A i \in DOMAIN groups :
        /\ groups'[i] = [run |-> groups'[i].run, owner |-> groups'[i].owner,
                         open |-> groups'[i].open, layout |-> groups'[i].layout,
                         tiles |-> groups'[i].tiles, stale |-> groups'[i].stale]
        /\ groups'[i].run = groups[i].run /\ groups'[i].layout = groups[i].layout
  BY <1>1 DEF IsGroups, IsGroup
<1>4. IsGroups(groups')
  BY <1>2, <1>3, GroupsRewritten
<1> QED BY <1>2, <1>3, <1>4 DEF SameGroups

(* No step that keeps the groups what they are disturbs what is reserved.  *)
LEMMA SameGroupsReserved ==
  ASSUME ManagerInv, SameGroups, UNCHANGED reservations
  PROVE  /\ ReservedWhileLive'
         /\ reservations' = [l \in Layouts |-> reservations'[l]]
         /\ \A j \in DOMAIN groups' : \E k \in DOMAIN groups : groups'[j].run = groups[k].run
BY DEF ManagerInv, SameGroups, ReservedWhileLive

LEMMA LaunchOneServes ==
  ASSUME ManagerInv, NEW c \in Calls, LaunchOne(c), call[c].op = "create"
  PROVE  Serves(c)
<1>1. LockOK /\ Replaced /\ IsGroups(groups)
  BY DEF ManagerInv
<1>2. queue # <<>> /\ queue[1] = c /\ call[c].at = "launching"
  BY <1>1 DEF LaunchOne, Holds, LockOK
<1>3. SameGroups
  <2> DEFINE m == Mine(c)
             g == [groups[m] EXCEPT !.open = @ + 1]
  <2>1. groups' = [groups EXCEPT ![m] = g]
    BY DEF LaunchOne
  <2>2. m \in DOMAIN groups =>
          /\ g = [run |-> groups[m].run, owner |-> groups[m].owner,
                  open |-> groups[m].open + 1, layout |-> groups[m].layout,
                  tiles |-> groups[m].tiles, stale |-> groups[m].stale]
          /\ g.run = groups[m].run /\ g.layout = groups[m].layout
    BY <1>1 DEF IsGroups, IsGroup
  <2> HIDE DEF m, g
  <2> QED BY <1>1, <2>1, <2>2, SameGroupsKept
<1>4. /\ LockOK'
      /\ \A d \in Calls : d # c => call'[d] = call[d]
      /\ \/ call'[c] = NoCall
         \/ call'[c] = call[c] /\ call[c] # NoCall
  <2>1. CASE Release(c)
    BY <1>1, <2>1, ReleaseLock
  <2>2. CASE UNCHANGED <<queue, call>>
    BY <1>1, <1>2, <2>2 DEF LockOK, Distinct, Has, NoCall
  <2> QED BY <2>1, <2>2 DEF LaunchOne
<1>5. Replaced'
  BY <1>1, <1>2, <1>4, StillReplaced DEF NoCall
<1>6. UNCHANGED reservations
  BY DEF LaunchOne
<1>7. ManagerInv'
  BY <1>3, <1>4, <1>5, <1>6, SameGroupsReserved DEF ManagerInv, SameGroups
<1> QED BY <1>2, <1>4, <1>7 DEF Serves

(* Who gives up his call leaves the groups as they are.                    *)
LEMMA ReleaseKeeps ==
  ASSUME ManagerInv, NEW c \in Calls, Release(c), UNCHANGED <<groups, reservations>>
  PROVE  /\ ManagerInv'
         /\ call'[c] = NoCall
         /\ \A d \in Calls : d # c => call'[d] = call[d]
<1>1. LockOK /\ Replaced /\ IsGroups(groups)
  BY DEF ManagerInv
<1>2. /\ LockOK' /\ call'[c] = NoCall
      /\ \A d \in Calls : d # c => call'[d] = call[d]
  BY <1>1, ReleaseLock
<1>3. Replaced'
  BY <1>1, <1>2, StillReplaced DEF NoCall
<1>4. ManagerInv'
  BY <1>1, <1>2, <1>3 DEF ManagerInv, ReservedWhileLive
<1> QED BY <1>2, <1>4

LEMMA AskKeeps ==
  ASSUME ManagerInv, NEW c \in Calls, NEW what, Ask(c, what),
         what \in CloseCall \cup CreateCall, what.at = "waiting",
         what.op = "create" => what.run = what.request.run
  PROVE  /\ ManagerInv'
         /\ call[c] = NoCall /\ call'[c] = what
         /\ \A d \in Calls : d # c => call'[d] = call[d]
         /\ UNCHANGED groups
<1>1. LockOK /\ Replaced /\ IsGroups(groups)
  BY DEF ManagerInv
<1>2. LockOK'
  BY <1>1, AskLock
<1>3. /\ call[c] = NoCall /\ call'[c] = what
      /\ \A d \in Calls : d # c => call'[d] = call[d]
      /\ UNCHANGED <<groups, reservations>>
  BY <1>1 DEF Ask, LockOK
<1>4. Replaced'
  BY <1>1, <1>3, StillReplaced
<1>5. ManagerInv'
  BY <1>1, <1>2, <1>3, <1>4 DEF ManagerInv, ReservedWhileLive
<1> QED BY <1>3, <1>5

(* A window is replaced in its group, whoever has the lock.                *)
LEMMA RecreateKeeps ==
  ASSUME ManagerInv, NEW c, NEW run,
         RecreateBegins(c, run) \/ RecreateReturns(c) \/ RecreateFails(c)
  PROVE  /\ ManagerInv' /\ UNCHANGED call
         /\ DOMAIN groups' = DOMAIN groups
         /\ \A i \in DOMAIN groups : groups'[i].run = groups[i].run
<1>1. LockOK /\ Replaced /\ IsGroups(groups)
  BY DEF ManagerInv
<1>2. UNCHANGED <<queue, call, reservations>>
  BY DEF RecreateBegins, RecreateReturns, RecreateFails
<1>3. SameGroups
  <2>1. CASE groups' = groups
    BY <1>1, <2>1 DEF SameGroups
  <2>2. ASSUME NEW i \in DOMAIN groups, NEW t,
               groups' = [groups EXCEPT ![i].stale = t]
        PROVE  SameGroups
    <3> DEFINE g == [groups[i] EXCEPT !.stale = t]
    <3>1. groups' = [groups EXCEPT ![i] = g]
      BY <2>2
    <3>2. /\ g = [run |-> groups[i].run, owner |-> groups[i].owner,
                  open |-> groups[i].open, layout |-> groups[i].layout,
                  tiles |-> groups[i].tiles, stale |-> t]
          /\ g.run = groups[i].run /\ g.layout = groups[i].layout
      BY <1>1 DEF IsGroups, IsGroup
    <3> HIDE DEF g
    <3> QED BY <1>1, <3>1, <3>2, SameGroupsKept
  <2>3. \/ groups' = groups
        \/ \E i \in DOMAIN groups : \E t : groups' = [groups EXCEPT ![i].stale = t]
    BY DEF RecreateBegins, RecreateReturns, RecreateFails
  <2> QED BY <2>1, <2>2, <2>3
<1>4. LockOK'
  BY <1>1, <1>2 DEF LockOK, Distinct, Has
<1>5. Replaced'
  BY <1>1, <1>2, <1>3 DEF Replaced, SameGroups
<1>6. ManagerInv'
  BY <1>2, <1>3, <1>4, <1>5, SameGroupsReserved DEF ManagerInv, SameGroups
<1> QED BY <1>2, <1>3, <1>6 DEF SameGroups

-----------------------------------------------------------------------------
(***************************************************************************)
(* The server.                                                             *)
(***************************************************************************)
RegistryOK ==
  /\ orch \in [RunIds -> Executions \cup {None}]
  /\ task \in [RunIds -> Executions \cup {None}]
  /\ execution \in [Executions ->
       {NoExecution} \cup
       [at : {"starting", "creating", "working", "ending", "over", "gone"},
        begun : BOOLEAN, request : Requests]]
  /\ stopping \in [op : {"none", "stop", "all", "windows"},
                   todo : SUBSET RunIds, keys : SUBSET RunIds,
                   now : RunIds \cup {None}]
  /\ swept \in {"no", "sweeping", "yes"}
  /\ reused \in BOOLEAN

(* An execution is in a call of the manager only where it awaits one; the  *)
(* handler only closes.                                                    *)
CallsOK ==
  /\ \A e \in Executions : call[e] # NoCall =>
       \/ At(e, "creating") /\ call[e].op = "create"
       \/ At(e, "ending") /\ call[e].op = "close"
  /\ call[Handler] # NoCall => call[Handler].op = "close"

(* Where no live run id was used again, the registry names the execution   *)
(* of a run as long as it may act.                                         *)
Registered ==
  \A e \in Executions : Alive(e) \/ At(e, "over") =>
    orch[Run(e)] # None /\ (~reused => task[Run(e)] = e)

(* A close-all that no start interrupted still has to stop every run that  *)
(* is alive, and then to close every group there is.                       *)
Sweep ==
  /\ swept = "sweeping" => stopping.op \in {"all", "windows"}
  /\ swept = "sweeping" /\ stopping.op = "all" /\ ~reused =>
       \A e \in Executions : Alive(e) =>
         Run(e) \in stopping.todo \cup {stopping.now}
  /\ ((swept = "sweeping" /\ stopping.op = "windows") \/ swept = "yes") /\ ~reused =>
       \A e \in Executions : ~Alive(e)
  /\ swept = "sweeping" /\ stopping.op = "windows" /\ ~reused =>
       \A i \in DOMAIN groups :
         \/ groups[i].run \in stopping.keys
         \/ call[Handler].at = "waiting" /\ call[Handler].run = groups[i].run

ServerInv ==
  /\ ManagerInv
  /\ RegistryOK
  /\ CallsOK
  /\ Registered
  /\ Sweep
  /\ CloseAllClears

-----------------------------------------------------------------------------
(* The server's steps, one lemma each.                                     *)

LEMMA InitServer == Init => ServerInv
<1> SUFFICES ASSUME Init PROVE ServerInv
  OBVIOUS
<1>1. IsGroups(groups) /\ groups = <<>>
  BY DEF Init, ManagerInit, IsGroups
<1>2. LockOK
  <2>1. queue = <<>> /\ call = [c \in Calls |-> NoCall]
    BY DEF Init, ManagerInit
  <2>2. NoCall.op = "none" /\ NoCall.at = "away"
    BY DEF NoCall
  <2> QED BY <2>1, <2>2 DEF LockOK, Distinct, Has
<1>3. /\ reservations = [l \in Layouts |-> reservations[l]]
      /\ Replaced /\ ReservedWhileLive
  BY <1>1 DEF Init, ManagerInit, Replaced, ReservedWhileLive
<1>4. ManagerInv
  BY <1>1, <1>2, <1>3 DEF ManagerInv
<1>5. RegistryOK
  BY DEF Init, RegistryOK, AtRest
<1>6. \A c \in Calls : call[c] = NoCall
  BY DEF Init, ManagerInit
<1>7. CallsOK
  BY <1>6, ServerAssumption DEF CallsOK
<1>8. \A e \in Executions : ~Alive(e) /\ ~At(e, "over")
  BY DEF Init, Alive, At, NoExecution
<1>9. Registered /\ Sweep /\ CloseAllClears
  BY <1>8 DEF Init, Registered, Sweep, CloseAllClears
<1> QED BY <1>4, <1>5, <1>7, <1>9 DEF ServerInv

(* An execution moves on with its request.                                 *)
LEMMA Moved ==
  ASSUME RegistryOK, NEW e \in Executions, execution[e] # NoExecution,
         NEW where \in {"creating", "working", "ending", "over", "gone"},
         Move(e, where)
  PROVE  /\ execution' \in [Executions ->
              {NoExecution} \cup
              [at : {"starting", "creating", "working", "ending", "over", "gone"},
               begun : BOOLEAN, request : Requests]]
         /\ At(e, where)' /\ Run(e)' = Run(e)
         /\ \A d \in Executions : d # e => execution'[d] = execution[d]
<1> DEFINE R == [at : {"starting", "creating", "working", "ending", "over", "gone"},
                 begun : BOOLEAN, request : Requests]
<1>1. execution \in [Executions -> {NoExecution} \cup R] /\ execution[e] \in R
  BY DEF RegistryOK
<1>2. /\ execution'[e] = [execution[e] EXCEPT !.at = where,
                                               !.begun = @ \/ where = "creating"]
      /\ \A d \in Executions : d # e => execution'[d] = execution[d]
      /\ execution' = [d \in Executions |-> execution'[d]]
  BY <1>1 DEF Move
<1>3. /\ execution'[e] \in R /\ execution'[e].at = where
      /\ execution'[e].request = execution[e].request
  BY <1>1, <1>2
<1>4. execution' \in [Executions -> {NoExecution} \cup R]
  BY <1>1, <1>2, <1>3
<1> QED BY <1>2, <1>3, <1>4 DEF At, Run

(* A step of an execution that may act: no close-all that it could spoil   *)
(* has come that far.                                                      *)
LEMMA ExecutionStep ==
  ASSUME ServerInv, NEW e \in Executions, Alive(e),
         ManagerInv',
         \A d \in Calls : d # e => call'[d] = call[d],
         UNCHANGED Bookkeeping,
         \/ UNCHANGED execution
         \/ \E where \in {"creating", "working", "ending", "over"} : Move(e, where),
         call'[e] # NoCall =>
           \/ At(e, "creating")' /\ call'[e].op = "create"
           \/ At(e, "ending")' /\ call'[e].op = "close"
  PROVE  ServerInv'
<1>1. UNCHANGED <<orch, task, stopping, swept, reused>>
  BY DEF Bookkeeping
<1>2. /\ RegistryOK /\ CallsOK /\ Registered /\ Sweep /\ CloseAllClears
  BY DEF ServerInv
<1>3. execution[e] # NoExecution
  BY DEF Alive, NoExecution
<1>4. /\ execution' \in [Executions ->
           {NoExecution} \cup
           [at : {"starting", "creating", "working", "ending", "over", "gone"},
            begun : BOOLEAN, request : Requests]]
      /\ Run(e)' = Run(e)
      /\ \A d \in Executions : d # e => execution'[d] = execution[d]
  <2>1. CASE UNCHANGED execution
    BY <1>2, <2>1 DEF RegistryOK, Run
  <2>2. CASE \E where \in {"creating", "working", "ending", "over"} : Move(e, where)
    BY <1>2, <1>3, <2>2, Moved
  <2> QED BY <2>1, <2>2
<1>5. RegistryOK'
  BY <1>1, <1>2, <1>4 DEF RegistryOK
<1>6. Handler \in Calls /\ Handler # e /\ Executions \subseteq Calls
  BY ServerAssumption
<1>7. CallsOK'
  BY <1>2, <1>4, <1>6 DEF CallsOK, At
<1>8. ASSUME NEW d \in Executions, (Alive(d) \/ At(d, "over"))'
      PROVE  (Alive(d) \/ At(d, "over")) /\ Run(d)' = Run(d)
  BY <1>4, <1>8 DEF Alive, At, Run
<1>9. ASSUME NEW d \in Executions, Alive(d)'
      PROVE  Alive(d) /\ Run(d)' = Run(d)
  BY <1>4, <1>9 DEF Alive, Run
<1>10. Registered'
  BY <1>1, <1>2, <1>8 DEF Registered
<1>11. ~reused => /\ ~(swept = "sweeping" /\ stopping.op = "windows")
                  /\ swept # "yes"
  BY <1>2 DEF Sweep
<1>12. Sweep' /\ CloseAllClears'
  BY <1>1, <1>2, <1>9, <1>11 DEF Sweep, CloseAllClears
<1> QED BY <1>5, <1>7, <1>10, <1>12 DEF ServerInv

(* An execution asks for the lock with a call of its own.                  *)
LEMMA Calling ==
  ASSUME RegistryOK
  PROVE  /\ \A e \in Executions : execution[e].at # "none" =>
              execution[e] # NoExecution /\ execution[e].request \in Request
         /\ \A r \in RunIds \cup {Default} : \A what :
              what = [op |-> "close", at |-> "waiting", run |-> r] =>
                what \in CloseCall /\ what.at = "waiting" /\ what.op = "close"
         /\ \A request \in Request : \A what :
              what = [op |-> "create", at |-> "waiting", run |-> request.run,
                      request |-> request] =>
                /\ what \in CreateCall /\ what.at = "waiting"
                /\ what.op = "create" /\ what.run = what.request.run
<1>1. \A e \in Executions : execution[e].at # "none" =>
        execution[e] # NoExecution /\ execution[e].request \in Request
  BY ServerAssumption DEF RegistryOK, NoExecution
<1>2. \A r \in RunIds \cup {Default} : \A what :
        what = [op |-> "close", at |-> "waiting", run |-> r] =>
          what \in CloseCall /\ what.at = "waiting" /\ what.op = "close"
  BY DEF CloseCall
<1>3. \A request \in Request : \A what :
        what = [op |-> "create", at |-> "waiting", run |-> request.run,
                request |-> request] =>
          /\ what \in CreateCall /\ what.at = "waiting"
          /\ what.op = "create" /\ what.run = what.request.run
  BY DEF CreateCall, Request
<1> QED BY <1>1, <1>2, <1>3

LEMMA BeginKeeps ==
  ASSUME ServerInv, NEW e \in Executions, Begin(e)
  PROVE  ServerInv'
<1>1. /\ At(e, "starting") /\ AskCreate(e, execution[e].request)
      /\ Move(e, "creating") /\ UNCHANGED Bookkeeping
  BY DEF Begin
<1>2. ManagerInv /\ RegistryOK /\ e \in Calls
  BY ServerAssumption DEF ServerInv
<1>3. execution[e] # NoExecution /\ execution[e].request \in Request
  BY <1>1, <1>2, Calling DEF At
<1> DEFINE request == execution[e].request
           what == [op |-> "create", at |-> "waiting", run |-> request.run,
                    request |-> request]
<1>4. Ask(e, what)
  BY <1>1 DEF AskCreate
<1>5. /\ what \in CreateCall /\ what.at = "waiting"
      /\ what.op = "create" /\ what.run = what.request.run
  BY <1>2, <1>3, Calling
<1> HIDE DEF what
<1>6. /\ ManagerInv' /\ call'[e] = what
      /\ \A d \in Calls : d # e => call'[d] = call[d]
  BY <1>2, <1>4, <1>5, AskKeeps
<1>7. At(e, "creating")'
  BY <1>1, <1>2, <1>3, Moved
<1>8. Alive(e)
  BY <1>1 DEF At, Alive
<1> QED BY <1>1, <1>5, <1>6, <1>7, <1>8, ExecutionStep

LEMMA FinishKeeps ==
  ASSUME ServerInv, NEW e \in Executions, Finish(e)
  PROVE  ServerInv'
<1>1. /\ At(e, "working") /\ AskClose(e, Run(e))
      /\ Move(e, "ending") /\ UNCHANGED Bookkeeping
  BY DEF Finish
<1>2. ManagerInv /\ RegistryOK /\ e \in Calls
  BY ServerAssumption DEF ServerInv
<1>3. execution[e] # NoExecution /\ Run(e) \in RunIds
  BY <1>1, <1>2, Calling DEF At, Run, Request
<1> DEFINE what == [op |-> "close", at |-> "waiting", run |-> Run(e)]
<1>4. Ask(e, what)
  BY <1>1 DEF AskClose
<1>5. what \in CloseCall /\ what.at = "waiting" /\ what.op = "close"
  BY <1>2, <1>3, Calling
<1> HIDE DEF what
<1>6. /\ ManagerInv' /\ call'[e] = what
      /\ \A d \in Calls : d # e => call'[d] = call[d]
  BY <1>2, <1>4, <1>5, AskKeeps
<1>7. At(e, "ending")'
  BY <1>1, <1>2, <1>3, Moved
<1>8. Alive(e)
  BY <1>1 DEF At, Alive
<1> QED BY <1>1, <1>5, <1>6, <1>7, <1>8, ExecutionStep

(* The holder of the lock is in a call, and an execution in one of its own *)
(* kind.                                                                   *)
LEMMA HolderCalls ==
  ASSUME ServerInv, NEW c \in Calls, NEW at \in {"waiting", "emptying", "launching"},
         Holds(c, at)
  PROVE  /\ call[c] # NoCall
         /\ c = Handler => call[c].op = "close"
         /\ \A e \in Executions : c = e =>
              \/ At(e, "creating") /\ call[e].op = "create"
              \/ At(e, "ending") /\ call[e].op = "close"
BY DEF ServerInv, CallsOK, Holds, NoCall

LEMMA CreateKeeps ==
  ASSUME ServerInv, NEW e \in Executions, Create(e)
  PROVE  ServerInv'
<1>1. ManagerInv /\ RegistryOK /\ e \in Calls /\ At(e, "creating")
  BY ServerAssumption DEF ServerInv, Create
<1>2. UNCHANGED Bookkeeping /\ Alive(e)
  BY <1>1 DEF Create, Alive, At
<1>3. execution[e] # NoExecution
  BY <1>1, Calling DEF At
<1>4. ASSUME NEW at \in {"waiting", "emptying", "launching"}, Holds(e, at)
      PROVE  call[e].op = "create"
  BY <1>1, <1>4, HolderCalls DEF At
<1>5. CASE (Enter(e) \/ Emptied(e)) /\ UNCHANGED execution
  <2>1. call[e].op = "create"
    BY <1>4, <1>5 DEF Enter, Emptied
  <2>2. Serves(e)
    BY <1>1, <1>5, Enters, EmptiedServes
  <2>3. At(e, "creating")'
    BY <1>1, <1>5 DEF At
  <2> QED BY <1>2, <1>5, <2>1, <2>2, <2>3, ExecutionStep DEF Serves
<1>6. CASE /\ LaunchOne(e)
           /\ IF call'[e] = NoCall THEN Move(e, "working") ELSE UNCHANGED execution
  <2>1. call[e].op = "create"
    BY <1>4, <1>6 DEF LaunchOne
  <2>2. Serves(e)
    BY <1>1, <1>6, <2>1, LaunchOneServes
  <2>3. call'[e] # NoCall => At(e, "creating")' /\ call'[e].op = "create"
    BY <1>1, <1>6, <2>1, <2>2 DEF At, Serves
  <2> QED BY <1>2, <1>6, <2>2, <2>3, ExecutionStep DEF Serves
<1>7. CASE LaunchFails(e) /\ Move(e, "over")
  <2>1. /\ ManagerInv' /\ call'[e] = NoCall
        /\ \A d \in Calls : d # e => call'[d] = call[d]
    BY <1>1, <1>7, ReleaseKeeps DEF LaunchFails
  <2> QED BY <1>2, <1>7, <2>1, ExecutionStep
<1> QED BY <1>5, <1>6, <1>7 DEF Create

LEMMA EndKeeps ==
  ASSUME ServerInv, NEW e \in Executions, End(e)
  PROVE  ServerInv'
<1>1. ManagerInv /\ RegistryOK /\ e \in Calls /\ At(e, "ending")
  BY ServerAssumption DEF ServerInv, End
<1>2. UNCHANGED Bookkeeping /\ Alive(e)
  BY <1>1 DEF End, Alive, At
<1>3. call[e].op = "close"
  BY <1>1, HolderCalls DEF At, End, Enter, Emptied
<1>4. Serves(e)
  BY <1>1, Enters, EmptiedServes DEF End
<1>5. \/ UNCHANGED execution
      \/ Move(e, "over")
  BY DEF End
<1>6. call'[e] # NoCall => At(e, "ending")' /\ call'[e].op = "close"
  BY <1>1, <1>3, <1>4 DEF End, At, Serves
<1> QED BY <1>2, <1>4, <1>5, <1>6, ExecutionStep DEF Serves

LEMMA RecreateStep ==
  ASSUME ServerInv, NEW e \in Executions, Recreate(e)
  PROVE  ServerInv'
<1>1. /\ At(e, "working") /\ UNCHANGED <<execution, Bookkeeping>>
      /\ RecreateBegins(e, Run(e)) \/ RecreateReturns(e) \/ RecreateFails(e)
  BY DEF Recreate
<1>2. ManagerInv /\ CallsOK /\ e \in Calls
  BY ServerAssumption DEF ServerInv
<1>3. ManagerInv' /\ UNCHANGED call
  BY <1>1, <1>2, RecreateKeeps
<1>4. call'[e] = NoCall
  BY <1>1, <1>2, <1>3 DEF CallsOK, At
<1>5. Alive(e)
  BY <1>1 DEF Alive, At
<1> QED BY <1>1, <1>3, <1>4, <1>5, ExecutionStep

LEMMA RaiseKeeps ==
  ASSUME ServerInv, NEW e \in Executions, Raise(e)
  PROVE  ServerInv'
<1>1. /\ At(e, "working") /\ Move(e, "over") /\ UNCHANGED <<manager, Bookkeeping>>
  BY DEF Raise
<1>2. ManagerInv /\ CallsOK /\ e \in Calls
  BY ServerAssumption DEF ServerInv
<1>3. UNCHANGED <<queue, call, groups, reservations>>
  BY <1>1 DEF manager
<1>4. ManagerInv'
  BY <1>2, <1>3
     DEF ManagerInv, IsGroups, LockOK, Replaced, ReservedWhileLive, Distinct, Has
<1>5. call'[e] = NoCall
  BY <1>1, <1>2, <1>3 DEF CallsOK, At
<1>6. Alive(e)
  BY <1>1 DEF Alive, At
<1> QED BY <1>1, <1>3, <1>4, <1>5, <1>6, ExecutionStep

(* The manager stays in order where nothing of it changes.                 *)
LEMMA ManagerSame ==
  ASSUME ManagerInv, UNCHANGED manager
  PROVE  ManagerInv' /\ UNCHANGED <<call, groups>>
<1>1. UNCHANGED <<queue, call, groups, reservations>>
  BY DEF manager
<1> QED BY <1>1
   DEF ManagerInv, IsGroups, LockOK, Replaced, ReservedWhileLive, Distinct, Has

LEMMA StartKeeps ==
  ASSUME ServerInv, NEW e \in Executions, Start(e)
  PROVE  ServerInv'
<1>1. /\ execution[e] = NoExecution
      /\ swept' = "no" /\ UNCHANGED <<stopping, manager>>
  BY DEF Start
<1>2. PICK request \in Requests :
        /\ execution' = [execution EXCEPT ![e] =
                           [at |-> "starting", begun |-> FALSE,
                            request |-> request]]
        /\ orch' = [orch EXCEPT ![request.run] = e]
        /\ task' = [task EXCEPT ![request.run] = e]
        /\ reused' = (reused \/ task[request.run] # None)
  BY DEF Start
<1>3. /\ ManagerInv /\ RegistryOK /\ CallsOK /\ Registered
  BY DEF ServerInv
<1>4. ManagerInv' /\ UNCHANGED <<call, groups>>
  BY <1>1, <1>3, ManagerSame
<1>5. request.run \in RunIds
  BY ServerAssumption DEF Request
<1>6. reused' \in BOOLEAN
  BY <1>2
<1>7. RegistryOK'
  BY <1>1, <1>2, <1>3, <1>5, <1>6 DEF RegistryOK
<1>8. /\ execution'[e] = [at |-> "starting", begun |-> FALSE, request |-> request]
      /\ \A d \in Executions : d # e => execution'[d] = execution[d]
  BY <1>2, <1>3 DEF RegistryOK
<1>9. CallsOK'
  <2>1. call[e] = NoCall
    BY <1>1, <1>3 DEF CallsOK, At, NoExecution
  <2> QED BY <1>3, <1>4, <1>8, <2>1 DEF CallsOK, At
<1>10. /\ orch'[request.run] = e /\ task'[request.run] = e
       /\ \A r \in RunIds : r # request.run => orch'[r] = orch[r] /\ task'[r] = task[r]
  BY <1>2, <1>3, <1>5 DEF RegistryOK
<1>11. Registered'
  <2> SUFFICES ASSUME NEW d \in Executions, (Alive(d) \/ At(d, "over"))'
               PROVE  orch'[Run(d)'] # None /\ (~reused' => task'[Run(d)'] = d)
    BY DEF Registered
  <2>1. CASE d = e
    BY <1>8, <1>10, <2>1, ServerAssumption DEF Run
  <2>2. CASE d # e
    <3>1. (Alive(d) \/ At(d, "over")) /\ Run(d)' = Run(d)
      BY <1>8, <2>2 DEF Alive, At, Run
    <3>2. Run(d) \in RunIds
      BY <1>3, <3>1, Calling, ServerAssumption DEF Alive, At, Run, Request
    <3>3. orch[Run(d)] # None /\ (~reused => task[Run(d)] = d)
      BY <1>3, <3>1 DEF Registered
    <3>4. CASE Run(d) # request.run
      BY <1>2, <1>10, <3>1, <3>2, <3>3, <3>4
    <3>5. CASE Run(d) = request.run
      <4>1. ~reused' => ~reused /\ task[request.run] = None
        BY <1>2, <1>6
      <4>2. reused'
        BY <3>3, <3>5, <4>1, ServerAssumption
      <4> QED BY <1>10, <3>1, <3>5, <4>2, ServerAssumption
    <3> QED BY <3>4, <3>5
  <2> QED BY <2>1, <2>2
<1>12. Sweep' /\ CloseAllClears'
  BY <1>1 DEF Sweep, CloseAllClears
<1> QED BY <1>4, <1>7, <1>9, <1>11, <1>12 DEF ServerInv

LEMMA CleanupKeeps ==
  ASSUME ServerInv, NEW e \in Executions, Cleanup(e)
  PROVE  ServerInv'
<1>1. /\ At(e, "over") /\ Move(e, "gone")
      /\ task' = [task EXCEPT ![Run(e)] = None]
      /\ UNCHANGED <<orch, stopping, swept, reused, manager>>
  BY DEF Cleanup
<1>2. ManagerInv /\ RegistryOK /\ CallsOK /\ Registered /\ Sweep /\ CloseAllClears
  BY DEF ServerInv
<1>3. ManagerInv' /\ UNCHANGED <<call, groups>>
  BY <1>1, <1>2, ManagerSame
<1>4. execution[e] # NoExecution
  BY <1>1 DEF At, NoExecution
<1>5. /\ execution' \in [Executions ->
           {NoExecution} \cup
           [at : {"starting", "creating", "working", "ending", "over", "gone"},
            begun : BOOLEAN, request : Requests]]
      /\ At(e, "gone")'
      /\ \A d \in Executions : d # e => execution'[d] = execution[d]
  BY <1>1, <1>2, <1>4, Moved
<1>6. RegistryOK'
  BY <1>1, <1>2, <1>5 DEF RegistryOK
<1>7. CallsOK'
  BY <1>1, <1>2, <1>3, <1>5 DEF CallsOK, At
<1>8. ASSUME NEW d \in Executions, (Alive(d) \/ At(d, "over"))'
      PROVE  /\ d # e /\ Run(d)' = Run(d)
             /\ Alive(d) \/ At(d, "over")
  BY <1>5, <1>8 DEF Alive, At, Run
<1>9. Registered'
  <2> SUFFICES ASSUME NEW d \in Executions, (Alive(d) \/ At(d, "over"))'
               PROVE  orch'[Run(d)'] # None /\ (~reused' => task'[Run(d)'] = d)
    BY DEF Registered
  <2>1. orch[Run(d)] # None /\ (~reused => task[Run(d)] = d /\ task[Run(e)] = e)
    BY <1>1, <1>2, <1>8 DEF Registered
  <2>2. ~reused => Run(d) # Run(e)
    BY <1>8, <2>1
  <2> QED BY <1>1, <1>2, <1>8, <2>1, <2>2 DEF RegistryOK
<1>10. \A d \in Executions : Alive(d)' => Alive(d) /\ Run(d)' = Run(d)
  BY <1>5 DEF Alive, At, Run
<1>11. Sweep' /\ CloseAllClears'
  BY <1>1, <1>2, <1>3, <1>10 DEF Sweep, CloseAllClears
<1> QED BY <1>3, <1>6, <1>7, <1>9, <1>11 DEF ServerInv

(* A step of the handler that leaves the runs alone: what it has to do     *)
(* still covers every run and every group.                                 *)
LEMMA HandlerStep ==
  ASSUME ServerInv, ManagerInv',
         UNCHANGED <<orch, task, execution, reused>>,
         \A d \in Calls : d # Handler => call'[d] = call[d],
         call'[Handler] # NoCall => call'[Handler].op = "close",
         stopping' \in [op : {"none", "stop", "all", "windows"},
                        todo : SUBSET RunIds, keys : SUBSET RunIds,
                        now : RunIds \cup {None}],
         swept' \in {"no", "sweeping", "yes"},
         Sweep', CloseAllClears'
  PROVE  ServerInv'
<1>1. RegistryOK' /\ Registered'
  BY DEF ServerInv, RegistryOK, Registered, Alive, At, Run
<1>2. CallsOK'
  BY ServerAssumption DEF ServerInv, CallsOK, At
<1> QED BY <1>1, <1>2 DEF ServerInv

LEMMA BeginStopKeeps ==
  ASSUME ServerInv, BeginStop
  PROVE  ServerInv'
<1>1. /\ stopping = AtRest /\ UNCHANGED <<orch, task, execution, swept, reused, manager>>
      /\ \E r \in Known : stopping' = [AtRest EXCEPT !.op = "stop", !.todo = {r}]
  BY DEF BeginStop
<1>2. ManagerInv /\ RegistryOK /\ CallsOK /\ Sweep /\ CloseAllClears
  BY DEF ServerInv
<1>3. ManagerInv' /\ UNCHANGED <<call, groups>>
  BY <1>1, <1>2, ManagerSame
<1>4. /\ stopping' \in [op : {"none", "stop", "all", "windows"},
                        todo : SUBSET RunIds, keys : SUBSET RunIds,
                        now : RunIds \cup {None}]
      /\ stopping'.op = "stop" /\ stopping.op = "none"
  BY <1>1 DEF AtRest, Known
<1>5. Sweep' /\ CloseAllClears'
  BY <1>1, <1>2, <1>3, <1>4 DEF Sweep, CloseAllClears, Alive
<1> QED BY <1>1, <1>2, <1>3, <1>4, <1>5, HandlerStep DEF CallsOK, RegistryOK

LEMMA BeginCloseAllKeeps ==
  ASSUME ServerInv, BeginCloseAll
  PROVE  ServerInv'
<1>1. /\ stopping' = [AtRest EXCEPT !.op = "all", !.todo = Known]
      /\ swept' = "sweeping"
      /\ UNCHANGED <<orch, task, execution, reused, manager>>
  BY DEF BeginCloseAll
<1>2. ManagerInv /\ RegistryOK /\ CallsOK /\ Registered
  BY DEF ServerInv
<1>3. ManagerInv' /\ UNCHANGED <<call, groups>>
  BY <1>1, <1>2, ManagerSame
<1>4. /\ stopping' \in [op : {"none", "stop", "all", "windows"},
                        todo : SUBSET RunIds, keys : SUBSET RunIds,
                        now : RunIds \cup {None}]
      /\ stopping'.op = "all" /\ stopping'.todo = Known
  BY <1>1 DEF AtRest, Known
<1>5. ASSUME NEW e \in Executions, Alive(e) PROVE Run(e) \in Known
  <2>1. Run(e) \in RunIds
    BY <1>2, <1>5, Calling DEF Alive, Run, Request
  <2> QED BY <1>2, <1>5, <2>1 DEF Registered, Known
<1>6. Sweep' /\ CloseAllClears'
  BY <1>1, <1>4, <1>5 DEF Sweep, CloseAllClears, Alive, Run
<1> QED BY <1>1, <1>2, <1>3, <1>4, <1>6, HandlerStep DEF CallsOK

(* The handler asks to close the group of a run.                           *)
LEMMA HandlerAsks ==
  ASSUME ServerInv, NEW r \in RunIds \cup {Default}, AskClose(Handler, r)
  PROVE  /\ ManagerInv' /\ UNCHANGED groups
         /\ call'[Handler].op = "close" /\ call'[Handler].at = "waiting"
         /\ call'[Handler].run = r
         /\ call[Handler] = NoCall
         /\ \A d \in Calls : d # Handler => call'[d] = call[d]
<1> DEFINE what == [op |-> "close", at |-> "waiting", run |-> r]
<1>1. Ask(Handler, what)
  BY DEF AskClose
<1>2. ManagerInv /\ RegistryOK /\ Handler \in Calls
  BY ServerAssumption DEF ServerInv
<1>3. /\ what \in CloseCall /\ what.at = "waiting" /\ what.op = "close"
      /\ what.run = r
  BY <1>2, Calling
<1> HIDE DEF what
<1> QED BY <1>1, <1>2, <1>3, AskKeeps

LEMMA CancelRunKeeps ==
  ASSUME ServerInv, CancelRun
  PROVE  ServerInv'
<1>1. stopping.now = None /\ UNCHANGED <<orch, task, execution, swept, reused>>
  BY DEF CancelRun
<1>2. PICK r \in stopping.todo :
        /\ stopping' = [stopping EXCEPT !.now = r]
        /\ AskClose(Handler, IF execution[orch[r]].begun THEN r ELSE Default)
  BY DEF CancelRun
<1>3. RegistryOK /\ Sweep /\ CloseAllClears
  BY DEF ServerInv
<1>4. /\ stopping' \in [op : {"none", "stop", "all", "windows"},
                        todo : SUBSET RunIds, keys : SUBSET RunIds,
                        now : RunIds \cup {None}]
      /\ stopping'.op = stopping.op /\ stopping'.todo = stopping.todo
      /\ stopping'.keys = stopping.keys /\ stopping'.now = r /\ r \in RunIds
  BY <1>2, <1>3 DEF RegistryOK
<1>5. /\ ManagerInv' /\ UNCHANGED groups
      /\ call'[Handler].op = "close" /\ call[Handler] = NoCall
      /\ \A d \in Calls : d # Handler => call'[d] = call[d]
  BY <1>2, <1>4, HandlerAsks
<1>6. None \notin RunIds /\ NoCall.at # "waiting"
  BY ServerAssumption DEF NoCall
<1>7. Sweep' /\ CloseAllClears'
  <2>1. \A e \in Executions : (Alive(e)' <=> Alive(e)) /\ Run(e)' = Run(e)
    BY <1>1 DEF Alive, Run
  <2>2. CASE ~(swept = "sweeping" /\ stopping.op = "windows")
    <3>1. swept = "sweeping" /\ stopping.op = "all" /\ ~reused =>
            \A e \in Executions : Alive(e) => Run(e) \in stopping.todo
      BY <1>1, <1>3, <2>1, <1>6, Calling DEF Sweep, Alive, Run, Request
    <3> QED BY <1>1, <1>3, <1>4, <1>5, <2>1, <2>2, <3>1 DEF Sweep, CloseAllClears
  <2>3. CASE swept = "sweeping" /\ stopping.op = "windows"
    BY <1>1, <1>3, <1>4, <1>5, <1>6, <2>1, <2>3 DEF Sweep, CloseAllClears
  <2> QED BY <2>2, <2>3
<1> QED BY <1>1, <1>3, <1>4, <1>5, <1>7, HandlerStep DEF RegistryOK

LEMMA CloseGroupKeeps ==
  ASSUME ServerInv, CloseGroup
  PROVE  ServerInv'
<1>1. /\ Enter(Handler) \/ Emptied(Handler)
      /\ UNCHANGED <<orch, task, execution, stopping, swept, reused>>
  BY DEF CloseGroup, registry
<1>2. ManagerInv /\ RegistryOK /\ Sweep /\ CloseAllClears /\ Handler \in Calls
  BY ServerAssumption DEF ServerInv
<1>3. Serves(Handler)
  BY <1>1, <1>2, Enters, EmptiedServes
<1>4. /\ call[Handler].op = "close"
      /\ call[Handler].at \in {"waiting", "emptying"}
  BY <1>1, <1>2, HolderCalls DEF Enter, Emptied, Holds
<1>5. /\ ManagerInv'
      /\ \A d \in Calls : d # Handler => call'[d] = call[d]
      /\ call'[Handler] # NoCall => call'[Handler].op = "close"
      /\ \A j \in DOMAIN groups' : \E k \in DOMAIN groups : groups'[j].run = groups[k].run
      /\ call[Handler].at = "waiting" =>
           \A j \in DOMAIN groups' : groups'[j].run # call[Handler].run
  BY <1>3, <1>4 DEF Serves
<1>6. CloseAllClears'
  <2> SUFFICES ASSUME swept = "yes", ~reused, groups = <<>>
               PROVE  groups' = <<>>
    BY <1>1, <1>2 DEF CloseAllClears
  <2> DEFINE D == DOMAIN groups
  <2>1. D = {}
    OBVIOUS
  <2>2. \A j \in DOMAIN groups' : \E k \in D : groups'[j].run = groups[k].run
    BY <1>5
  <2> HIDE DEF D
  <2>3. DOMAIN groups' = {}
    BY <2>1, <2>2
  <2>4. groups' \in Seq({groups'[j] : j \in DOMAIN groups'})
    BY <1>5 DEF ManagerInv, IsGroups
  <2> QED BY <2>3, <2>4
<1>7. Sweep'
  <2>1. \A e \in Executions : (Alive(e)' <=> Alive(e)) /\ Run(e)' = Run(e)
    BY <1>1 DEF Alive, Run
  <2>2. ASSUME swept = "sweeping", stopping.op = "windows", ~reused, NEW j \in DOMAIN groups'
        PROVE  groups'[j].run \in stopping.keys
    <3>1. PICK k \in DOMAIN groups : groups'[j].run = groups[k].run
      BY <1>5
    <3>2. \/ groups[k].run \in stopping.keys
          \/ call[Handler].at = "waiting" /\ call[Handler].run = groups[k].run
      BY <1>2, <2>2 DEF Sweep
    <3> QED BY <1>5, <3>1, <3>2
  <2> QED BY <1>1, <1>2, <2>1, <2>2 DEF Sweep
<1> QED BY <1>1, <1>2, <1>5, <1>6, <1>7, HandlerStep DEF RegistryOK

(* The run that was named when its windows were closed is not alive after  *)
(* its task is cancelled, if the task of its id is that of the run.        *)
LEMMA CancelTaskKeeps ==
  ASSUME ServerInv, CancelTask
  PROVE  ServerInv'
<1>0. PICK t : t = task[stopping.now]
  OBVIOUS
<1>1. /\ stopping.op \in {"stop", "all"} /\ stopping.now # None
      /\ stopping' = [stopping EXCEPT !.todo = @ \ {stopping.now}, !.now = None]
      /\ UNCHANGED <<orch, task, swept, reused>>
      /\ \/ t # None /\ Alive(t) /\ Move(t, "over") /\ Cut(t)
         \/ ~(t # None /\ Alive(t)) /\ UNCHANGED <<execution, manager>>
  BY <1>0 DEF CancelTask
<1>2. /\ ManagerInv /\ RegistryOK /\ CallsOK /\ Registered /\ Sweep /\ CloseAllClears
  BY DEF ServerInv
<1>3. stopping.now \in RunIds /\ t \in Executions \cup {None}
  BY <1>0, <1>1, <1>2 DEF RegistryOK
<1>4. /\ stopping' \in [op : {"none", "stop", "all", "windows"},
                        todo : SUBSET RunIds, keys : SUBSET RunIds,
                        now : RunIds \cup {None}]
      /\ stopping'.op = stopping.op
      /\ stopping'.todo = stopping.todo \ {stopping.now}
  BY <1>1, <1>2 DEF RegistryOK
<1>5. CASE t # None /\ Alive(t) /\ Move(t, "over") /\ Cut(t)
  <2>1. t \in Executions /\ t \in Calls /\ execution[t] # NoExecution
    BY <1>3, <1>5, ServerAssumption DEF Alive, NoExecution
  <2>2. Release(t) /\ UNCHANGED <<groups, reservations>>
    BY <1>5 DEF Cut
  <2>3. /\ ManagerInv' /\ call'[t] = NoCall
        /\ \A d \in Calls : d # t => call'[d] = call[d]
    BY <1>2, <2>1, <2>2, ReleaseKeeps
  <2>4. /\ execution' \in [Executions ->
             {NoExecution} \cup
             [at : {"starting", "creating", "working", "ending", "over", "gone"},
              begun : BOOLEAN, request : Requests]]
        /\ At(t, "over")' /\ Run(t)' = Run(t)
        /\ \A d \in Executions : d # t => execution'[d] = execution[d]
    BY <1>2, <1>5, <2>1, Moved
  <2>5. RegistryOK'
    BY <1>1, <1>2, <1>4, <2>4 DEF RegistryOK
  <2>6. CallsOK'
    BY <1>2, <2>1, <2>3, <2>4, ServerAssumption DEF CallsOK, At
  <2>7. ASSUME NEW d \in Executions, (Alive(d) \/ At(d, "over"))'
        PROVE  (Alive(d) \/ At(d, "over")) /\ Run(d)' = Run(d)
    BY <1>5, <2>4, <2>7 DEF Alive, At, Run
  <2>8. Registered'
    BY <1>1, <1>2, <2>7 DEF Registered
  <2>9. ASSUME NEW d \in Executions, Alive(d)'
        PROVE  d # t /\ Alive(d) /\ Run(d)' = Run(d)
    BY <2>4, <2>9 DEF Alive, At, Run
  <2>10. swept = "sweeping" /\ stopping.op = "all" /\ ~reused =>
           \A d \in Executions : Alive(d)' =>
             Run(d)' \in stopping.todo \ {stopping.now}
    <3> SUFFICES ASSUME swept = "sweeping", stopping.op = "all", ~reused,
                        NEW d \in Executions, Alive(d)'
                 PROVE  Run(d)' \in stopping.todo \ {stopping.now}
      OBVIOUS
    <3>1. d # t /\ Alive(d) /\ Run(d)' = Run(d)
      BY <2>9
    <3>2. task[Run(d)] = d
      BY <1>2, <3>1 DEF Registered
    <3>3. Run(d) # stopping.now
      BY <1>0, <3>1, <3>2
    <3>4. Run(d) \in stopping.todo \cup {stopping.now}
      BY <1>2, <3>1 DEF Sweep
    <3> QED BY <3>1, <3>3, <3>4
  <2>11. Sweep'
    BY <1>1, <1>2, <1>4, <2>9, <2>10 DEF Sweep
  <2>12. CloseAllClears'
    BY <1>1, <1>2, <2>2 DEF CloseAllClears
  <2> QED BY <2>3, <2>5, <2>6, <2>8, <2>11, <2>12 DEF ServerInv
<1>6. CASE ~(t # None /\ Alive(t)) /\ UNCHANGED <<execution, manager>>
  <2>1. ManagerInv' /\ UNCHANGED <<call, groups>>
    BY <1>2, <1>6, ManagerSame
  <2>2. ASSUME swept = "sweeping", stopping.op = "all", ~reused,
               NEW d \in Executions, Alive(d)
        PROVE  Run(d) \in stopping.todo \ {stopping.now}
    <3>1. task[Run(d)] = d
      BY <1>2, <2>2 DEF Registered
    <3>2. Run(d) # stopping.now
      BY <1>0, <1>6, <2>2, <3>1, ServerAssumption
    <3>3. Run(d) \in stopping.todo \cup {stopping.now}
      BY <1>2, <2>2 DEF Sweep
    <3> QED BY <3>2, <3>3
  <2>3. \A d \in Executions : (Alive(d)' <=> Alive(d)) /\ Run(d)' = Run(d)
    BY <1>6 DEF Alive, Run
  <2>4. Sweep'
    BY <1>1, <1>2, <1>4, <2>2, <2>3 DEF Sweep
  <2>5. CloseAllClears'
    BY <1>1, <1>2, <2>1 DEF CloseAllClears
  <2> QED BY <1>1, <1>2, <1>4, <1>6, <2>1, <2>4, <2>5, HandlerStep
             DEF RegistryOK, CallsOK
<1> QED BY <1>1, <1>5, <1>6

LEMMA ListGroupsKeeps ==
  ASSUME ServerInv, ListGroups
  PROVE  ServerInv'
<1>1. /\ stopping.op = "all" /\ stopping.todo = {} /\ stopping.now = None
      /\ stopping' = [AtRest EXCEPT !.op = "windows",
                        !.keys = {groups[i].run : i \in DOMAIN groups}]
      /\ UNCHANGED <<orch, task, execution, swept, reused, manager>>
  BY DEF ListGroups
<1>2. ManagerInv /\ RegistryOK /\ CallsOK /\ Sweep /\ CloseAllClears
  BY DEF ServerInv
<1>3. ManagerInv' /\ UNCHANGED <<call, groups>>
  BY <1>1, <1>2, ManagerSame
<1>4. \A i \in DOMAIN groups : groups[i].run \in RunIds
  BY <1>2 DEF ManagerInv, IsGroups, IsGroup
<1>5. /\ stopping' \in [op : {"none", "stop", "all", "windows"},
                        todo : SUBSET RunIds, keys : SUBSET RunIds,
                        now : RunIds \cup {None}]
      /\ stopping'.op = "windows"
      /\ stopping'.keys = {groups[i].run : i \in DOMAIN groups}
  BY <1>1, <1>4 DEF AtRest
<1>6. swept = "sweeping" /\ ~reused => \A e \in Executions : ~Alive(e)
  <2> SUFFICES ASSUME swept = "sweeping", ~reused, NEW e \in Executions, Alive(e)
               PROVE  FALSE
    OBVIOUS
  <2>1. Run(e) = None
    BY <1>1, <1>2 DEF Sweep
  <2>2. Run(e) \in RunIds
    BY <1>2, Calling DEF Alive, Run, Request
  <2> QED BY <2>1, <2>2, ServerAssumption
<1>7. Sweep' /\ CloseAllClears'
  <2>1. \A e \in Executions : (Alive(e)' <=> Alive(e)) /\ Run(e)' = Run(e)
    BY <1>1 DEF Alive, Run
  <2> QED BY <1>1, <1>2, <1>3, <1>5, <1>6, <2>1 DEF Sweep, CloseAllClears
<1> QED BY <1>1, <1>2, <1>3, <1>5, <1>7, HandlerStep DEF RegistryOK, CallsOK

LEMMA CloseNextKeeps ==
  ASSUME ServerInv, CloseNext
  PROVE  ServerInv'
<1>1. /\ stopping.op = "windows" /\ UNCHANGED <<orch, task, execution, swept, reused>>
      /\ call[Handler] = NoCall
  BY DEF CloseNext, Closed
<1>2. PICK r \in stopping.keys :
        /\ stopping' = [stopping EXCEPT !.keys = @ \ {r}]
        /\ AskClose(Handler, r)
  BY DEF CloseNext
<1>3. RegistryOK /\ Sweep /\ CloseAllClears
  BY DEF ServerInv
<1>4. /\ stopping' \in [op : {"none", "stop", "all", "windows"},
                        todo : SUBSET RunIds, keys : SUBSET RunIds,
                        now : RunIds \cup {None}]
      /\ stopping'.op = "windows" /\ stopping'.keys = stopping.keys \ {r}
      /\ r \in RunIds
  BY <1>1, <1>2, <1>3 DEF RegistryOK
<1>5. /\ ManagerInv' /\ UNCHANGED groups
      /\ call'[Handler].op = "close" /\ call'[Handler].at = "waiting"
      /\ call'[Handler].run = r
      /\ \A d \in Calls : d # Handler => call'[d] = call[d]
  BY <1>2, <1>4, HandlerAsks
<1>6. Sweep' /\ CloseAllClears'
  <2>1. \A e \in Executions : (Alive(e)' <=> Alive(e)) /\ Run(e)' = Run(e)
    BY <1>1 DEF Alive, Run
  <2>2. call[Handler].at # "waiting"
    BY <1>1 DEF NoCall
  <2> QED BY <1>1, <1>3, <1>4, <1>5, <2>1, <2>2 DEF Sweep, CloseAllClears
<1> QED BY <1>1, <1>3, <1>4, <1>5, <1>6, HandlerStep DEF RegistryOK

LEMMA ReturnKeeps ==
  ASSUME ServerInv, Return
  PROVE  ServerInv'
<1>1. /\ stopping' = AtRest /\ UNCHANGED <<orch, task, execution, reused, manager>>
      /\ swept' = IF stopping.op = "windows" /\ swept = "sweeping"
                  THEN "yes" ELSE swept
      /\ \/ stopping.op = "stop"
         \/ stopping.op = "windows" /\ stopping.keys = {} /\ call[Handler] = NoCall
  BY DEF Return, Closed
<1>2. ManagerInv /\ RegistryOK /\ CallsOK /\ Sweep /\ CloseAllClears
  BY DEF ServerInv
<1>3. ManagerInv' /\ UNCHANGED <<call, groups>>
  BY <1>1, <1>2, ManagerSame
<1>4. /\ stopping' \in [op : {"none", "stop", "all", "windows"},
                        todo : SUBSET RunIds, keys : SUBSET RunIds,
                        now : RunIds \cup {None}]
      /\ swept' \in {"no", "sweeping", "yes"}
  BY <1>1, <1>2 DEF AtRest, RegistryOK
<1>5. swept' # "sweeping"
  BY <1>1, <1>2 DEF Sweep
<1>6. swept' = "yes" /\ ~reused =>
        groups = <<>> /\ \A e \in Executions : ~Alive(e)
  <2> SUFFICES ASSUME swept' = "yes", ~reused
               PROVE  groups = <<>> /\ \A e \in Executions : ~Alive(e)
    OBVIOUS
  <2>1. CASE swept = "yes"
    BY <1>2, <2>1 DEF Sweep, CloseAllClears
  <2>2. CASE swept # "yes"
    <3>1. /\ swept = "sweeping" /\ stopping.op = "windows" /\ stopping.keys = {}
          /\ call[Handler].at = "away"
      BY <1>1, <2>2 DEF NoCall
    <3>2. DOMAIN groups = {} /\ \A e \in Executions : ~Alive(e)
      BY <1>2, <3>1 DEF Sweep
    <3>3. groups \in Seq({groups[i] : i \in DOMAIN groups})
      BY <1>2 DEF ManagerInv, IsGroups
    <3> QED BY <3>2, <3>3
  <2> QED BY <2>1, <2>2
<1>7. Sweep' /\ CloseAllClears'
  <2>1. \A e \in Executions : Alive(e)' <=> Alive(e)
    BY <1>1 DEF Alive
  <2> QED BY <1>1, <1>3, <1>5, <1>6, <2>1 DEF Sweep, CloseAllClears
<1> QED BY <1>1, <1>2, <1>3, <1>4, <1>7, HandlerStep DEF CallsOK

LEMMA Stutter ==
  ASSUME ServerInv, UNCHANGED vars
  PROVE  ServerInv'
<1>1. UNCHANGED manager /\ UNCHANGED <<orch, task, execution, stopping, swept, reused>>
  BY DEF vars, registry
<1>2. ManagerInv' /\ UNCHANGED <<call, groups>>
  BY <1>1, ManagerSame DEF ServerInv
<1>3. Sweep' /\ CloseAllClears'
  BY <1>1, <1>2 DEF ServerInv, Sweep, CloseAllClears, Alive, Run
<1> QED BY <1>1, <1>2, <1>3, HandlerStep DEF ServerInv, RegistryOK, CallsOK

LEMMA NextKeeps == ServerInv /\ [Next]_vars => ServerInv'
<1> SUFFICES ASSUME ServerInv, [Next]_vars PROVE ServerInv'
  OBVIOUS
<1>1. ASSUME NEW e \in Executions, Execute(e) PROVE ServerInv'
  BY <1>1, StartKeeps, BeginKeeps, CreateKeeps, RecreateStep, FinishKeeps,
     RaiseKeeps, EndKeeps, CleanupKeeps
     DEF Execute
<1>2. CASE BeginStop \/ BeginCloseAll
  BY <1>2, BeginStopKeeps, BeginCloseAllKeeps
<1>3. CASE Stop
  BY <1>3, CancelRunKeeps, CloseGroupKeeps, CancelTaskKeeps, ListGroupsKeeps,
     CloseNextKeeps, ReturnKeeps
     DEF Stop
<1>4. CASE UNCHANGED vars
  BY <1>4, Stutter
<1> QED BY <1>1, <1>2, <1>3, <1>4 DEF Next

(* What keeps the promises below, in every state: the order of the lock,   *)
(* the registry that names whoever may act, and how far a close-all is.    *)
THEOREM ServerInvariant == Spec => []ServerInv
<1> QED BY InitServer, NextKeeps, PTL DEF Spec

-----------------------------------------------------------------------------
(* The tiles of a layout stay reserved while a group of it is live:        *)
(* _cleanup_layout_reservation never gives them up too early, whichever    *)
(* runs share the layout and in whatever order they come and go.           *)
THEOREM LayoutReserved == Spec => []ReservedWhileLive
<1>1. ServerInv => ReservedWhileLive
  BY DEF ServerInv, ManagerInv
<1> QED BY <1>1, ServerInvariant, PTL

(* After /api/close-all-windows has returned, and until a run is started,  *)
(* the manager has no window: no run that was starting, waiting for the    *)
(* lock, launching or being cancelled opens one later, however many there  *)
(* are.                                                                    *)
THEOREM AllWindowsClosed == Spec => []CloseAllClears
<1>1. ServerInv => CloseAllClears
  BY DEF ServerInv
<1> QED BY <1>1, ServerInvariant, PTL

-----------------------------------------------------------------------------
(***************************************************************************)
(* Where the windows are.                                                  *)
(***************************************************************************)
LEMMA GroupFields ==
  ASSUME NEW gs \in Seq(Group), NEW i \in DOMAIN gs
  PROVE  /\ gs[i] \in Group
         /\ gs[i].run \in RunIds /\ gs[i].owner \in Calls /\ gs[i].open \in Nat
         /\ gs[i].layout \in Layouts \cup {NoLayout}
         /\ gs[i].tiles \in Seq(Places) /\ gs[i].stale \in SUBSET Nat
<1>1. gs[i] \in Group
  OBVIOUS
<1> QED BY <1>1 DEF Group

LEMMA UpTo ==
  ASSUME NEW n \in Nat
  PROVE  IsFiniteSet(1..n) /\ Cardinality(1..n) = n
<1> DEFINE a == 1
<1>1. a \in Int /\ n \in Int
  OBVIOUS
<1> HIDE DEF a
<1>2. IsFiniteSet(a..n) /\ Cardinality(a..n) = IF a > n THEN 0 ELSE n - a + 1
  BY <1>1, FS_Interval
<1> QED BY <1>2 DEF a

(* The windows of the first groups, one group more.                        *)
LEMMA EntriesOneMore ==
  ASSUME NEW gs \in Seq(Group), NEW n \in DOMAIN gs
  PROVE  Entries(gs, n) = Entries(gs, n - 1) \cup ({n} \X (1..gs[n].open))
<1>1. n \in Nat \ {0}
  OBVIOUS
<1>2. 1..n = (1..(n - 1)) \cup {n}
  BY <1>1
<1> QED BY <1>2 DEF Entries

LEMMA EntriesFinite ==
  ASSUME NEW gs \in Seq(Group), NEW n \in 0..Len(gs)
  PROVE  IsFiniteSet(Entries(gs, n))
<1> DEFINE Bad == {k \in 0..Len(gs) : ~IsFiniteSet(Entries(gs, k))}
<1>1. ASSUME Bad # {} PROVE FALSE
  <2>1. Bad \subseteq Nat
    OBVIOUS
  <2>2. PICK m \in Bad : \A k \in Bad : m <= k
    BY <1>1, <2>1, LeastOf
  <2>3. m \in 0..Len(gs) /\ ~IsFiniteSet(Entries(gs, m))
    OBVIOUS
  <2>4. m # 0
    <3>1. Entries(gs, 0) = {}
      BY DEF Entries
    <3> QED BY <2>3, <3>1, FS_EmptySet
  <2>5. m \in DOMAIN gs /\ m - 1 \in 0..Len(gs) /\ ~(m <= m - 1)
    BY <2>3, <2>4
  <2>6. IsFiniteSet(Entries(gs, m - 1))
    BY <2>2, <2>5
  <2>7. gs[m].open \in Nat
    BY <2>5, GroupFields
  <2>8. IsFiniteSet({m}) /\ IsFiniteSet(1..gs[m].open)
    BY <2>7, FS_Singleton, UpTo
  <2>9. IsFiniteSet({m} \X (1..gs[m].open))
    BY <2>8, FS_Product
  <2>10. IsFiniteSet(Entries(gs, m - 1) \cup ({m} \X (1..gs[m].open)))
    BY <2>6, <2>9, FS_Union
  <2> QED BY <2>3, <2>5, <2>10, EntriesOneMore
<1> QED BY <1>1

(* Counting them adds up.                                                  *)
LEMMA OpenCounts ==
  ASSUME NEW gs \in Seq(Group)
  PROVE  /\ \A n \in 0..Len(gs) : OpenIn(gs, n) \in Nat
         /\ \A m, n \in 0..Len(gs) : m <= n => OpenIn(gs, m) <= OpenIn(gs, n)
         /\ \A n \in 1..Len(gs) : OpenIn(gs, n) = OpenIn(gs, n - 1) + gs[n].open
<1>1. ASSUME NEW n \in 0..Len(gs) PROVE OpenIn(gs, n) \in Nat
  BY EntriesFinite, FS_CardinalityType DEF OpenIn
<1>2. ASSUME NEW m \in 0..Len(gs), NEW n \in 0..Len(gs), m <= n
      PROVE  OpenIn(gs, m) <= OpenIn(gs, n)
  <2>1. 1..m \subseteq 1..n
    BY <1>2
  <2>2. Entries(gs, m) \subseteq Entries(gs, n)
    BY <2>1 DEF Entries
  <2> QED BY <2>2, EntriesFinite, FS_Subset DEF OpenIn
<1>3. ASSUME NEW n \in 1..Len(gs)
      PROVE  OpenIn(gs, n) = OpenIn(gs, n - 1) + gs[n].open
  <2> DEFINE A == Entries(gs, n - 1)
             B == {n} \X (1..gs[n].open)
  <2>1. n \in DOMAIN gs /\ n - 1 \in 0..Len(gs) /\ n \in 0..Len(gs)
    OBVIOUS
  <2>2. gs[n].open \in Nat
    BY <2>1, GroupFields
  <2>3. IsFiniteSet(A)
    BY <2>1, EntriesFinite
  <2>4. /\ IsFiniteSet({n}) /\ Cardinality({n}) = 1
        /\ IsFiniteSet(1..gs[n].open) /\ Cardinality(1..gs[n].open) = gs[n].open
    BY <2>2, FS_Singleton, UpTo
  <2>5. IsFiniteSet(B) /\ Cardinality(B) = gs[n].open
    <3>1. /\ IsFiniteSet(B)
          /\ Cardinality(B) = Cardinality({n}) * Cardinality(1..gs[n].open)
      BY <2>4, FS_Product
    <3> HIDE DEF B
    <3> QED BY <2>2, <2>4, <3>1
  <2>6. A \cap B = {}
    <3>1. \A x \in A : \E i \in 1..(n - 1) : x[1] = i
      BY DEF Entries
    <3>2. \A x \in B : x[1] = n
      OBVIOUS
    <3>3. n \notin 1..(n - 1)
      OBVIOUS
    <3> HIDE DEF A, B
    <3> QED BY <3>1, <3>2, <3>3
  <2>7. Cardinality(A \cup B) = Cardinality(A) + Cardinality(B) - Cardinality({})
    <3> HIDE DEF A, B
    <3> QED BY <2>3, <2>5, <2>6, FS_Union
  <2>8. Cardinality(A) \in Nat /\ Cardinality({}) = 0
    BY <2>3, FS_CardinalityType, FS_EmptySet
  <2>9. Entries(gs, n) = A \cup B
    BY <2>1, EntriesOneMore
  <2> HIDE DEF A, B
  <2>10. Cardinality(Entries(gs, n)) = Cardinality(A) + gs[n].open
    BY <2>2, <2>5, <2>7, <2>8, <2>9
  <2> QED BY <2>10 DEF OpenIn, A
<1> QED BY <1>1, <1>2, <1>3

(* Every open window has a number below their count, and no two the same.  *)
LEMMA WindowNumbers ==
  ASSUME NEW gs \in Seq(Group)
  PROVE  /\ Open(gs) \in Nat
         /\ \A i \in DOMAIN gs : \A v \in 1..gs[i].open :
              OpenIn(gs, i - 1) + v - 1 \in 0..(Open(gs) - 1)
         /\ \A i, j \in DOMAIN gs : \A v \in 1..gs[i].open, w \in 1..gs[j].open :
              i # j \/ v # w => OpenIn(gs, i - 1) + v - 1 # OpenIn(gs, j - 1) + w - 1
<1> DEFINE n == Len(gs)
           before(i) == OpenIn(gs, i - 1)
<1>1. n \in Nat /\ DOMAIN gs = 1..n
  OBVIOUS
<1>2. /\ \A k \in 0..n : OpenIn(gs, k) \in Nat
      /\ \A k, l \in 0..n : k <= l => OpenIn(gs, k) <= OpenIn(gs, l)
      /\ \A k \in 1..n : OpenIn(gs, k) = OpenIn(gs, k - 1) + gs[k].open
  BY OpenCounts
<1>3. Open(gs) \in Nat /\ Open(gs) = OpenIn(gs, n) /\ n \in 0..n /\ 0 \in 0..n
  BY <1>1, <1>2 DEF Open
<1> HIDE DEF n
<1>4. ASSUME NEW i \in DOMAIN gs
      PROVE  /\ before(i) \in Nat /\ gs[i].open \in Nat
             /\ OpenIn(gs, i) = before(i) + gs[i].open
             /\ OpenIn(gs, i) <= Open(gs)
  <2>1. i \in 1..n /\ i \in 0..n /\ i - 1 \in 0..n /\ i <= n
    BY <1>1
  <2>2. gs[i].open \in Nat
    BY GroupFields
  <2> QED BY <1>2, <1>3, <2>1, <2>2
<1>5. ASSUME NEW i \in DOMAIN gs, NEW v \in 1..gs[i].open
      PROVE  before(i) + v - 1 \in 0..(Open(gs) - 1)
  <2>1. /\ before(i) \in Nat /\ gs[i].open \in Nat
        /\ before(i) + gs[i].open <= Open(gs)
    BY <1>4
  <2> HIDE DEF before
  <2> QED BY <1>3, <2>1
<1>6. ASSUME NEW i \in DOMAIN gs, NEW j \in DOMAIN gs, i < j,
             NEW v \in 1..gs[i].open, NEW w \in 1..gs[j].open
      PROVE  before(i) + v - 1 < before(j) + w - 1
  <2>1. i \in 0..n /\ j - 1 \in 0..n /\ i <= j - 1
    BY <1>1, <1>6
  <2>2. OpenIn(gs, i) <= before(j)
    BY <1>2, <2>1
  <2>3. /\ before(i) \in Nat /\ gs[i].open \in Nat /\ before(j) \in Nat
        /\ gs[j].open \in Nat /\ before(i) + gs[i].open <= before(j)
    BY <1>4, <2>2
  <2> HIDE DEF before
  <2> QED BY <2>3
<1>7. ASSUME NEW i \in DOMAIN gs, NEW j \in DOMAIN gs,
             NEW v \in 1..gs[i].open, NEW w \in 1..gs[j].open, i # j \/ v # w
      PROVE  before(i) + v - 1 # before(j) + w - 1
  <2>1. before(i) \in Nat /\ before(j) \in Nat /\ gs[i].open \in Nat /\ gs[j].open \in Nat
    BY <1>4
  <2>2. CASE i < j
    <3>1. before(i) + v - 1 < before(j) + w - 1
      BY <1>6, <2>2
    <3> HIDE DEF before
    <3> QED BY <2>1, <3>1
  <2>3. CASE j < i
    <3>1. before(j) + w - 1 < before(i) + v - 1
      BY <1>6, <2>3
    <3> HIDE DEF before
    <3> QED BY <2>1, <3>1
  <2>4. CASE i = j
    <3> HIDE DEF before
    <3> QED BY <1>7, <2>1, <2>4
  <2>5. i < j \/ j < i \/ i = j
    BY <1>1
  <2> QED BY <2>2, <2>3, <2>4, <2>5
<1> QED BY <1>3, <1>5, <1>7

(* Tiled anew, every open window has the tile of its number.               *)
LEMMA RetiledPlaces ==
  ASSUME NEW gs \in Seq(Group),
         \A i \in DOMAIN gs : gs[i].open <= Len(gs[i].tiles),
         NEW count \in Nat, Open(gs) <= count, NEW r, r = Retiled(gs, count)
  PROVE  /\ r \in Seq(Group) /\ DOMAIN r = DOMAIN gs
         /\ \A i \in DOMAIN gs :
              /\ r[i].run = gs[i].run /\ r[i].owner = gs[i].owner
              /\ r[i].open = gs[i].open /\ r[i].layout = gs[i].layout
              /\ Len(r[i].tiles) = Len(gs[i].tiles)
              /\ \A v \in 1..gs[i].open :
                   r[i].tiles[v] = <<count, OpenIn(gs, i - 1) + v - 1>>
<1>1. r = [i \in DOMAIN gs |-> r[i]] /\ DOMAIN r = DOMAIN gs
  BY DEF Retiled
<1>2. ASSUME NEW i \in DOMAIN gs
      PROVE  /\ r[i] \in Group
             /\ r[i].run = gs[i].run /\ r[i].owner = gs[i].owner
             /\ r[i].open = gs[i].open /\ r[i].layout = gs[i].layout
             /\ Len(r[i].tiles) = Len(gs[i].tiles)
             /\ \A v \in 1..gs[i].open :
                  r[i].tiles[v] = <<count, OpenIn(gs, i - 1) + v - 1>>
  <2> DEFINE old == gs[i].tiles
             new == [j \in DOMAIN old |->
                       IF j <= gs[i].open
                       THEN <<count, OpenIn(gs, i - 1) + j - 1>> ELSE old[j]]
  <2>1. /\ gs[i] \in Group /\ gs[i].open \in Nat /\ old \in Seq(Places)
        /\ gs[i].run \in RunIds /\ gs[i].owner \in Calls
        /\ gs[i].layout \in Layouts \cup {NoLayout}
    BY GroupFields
  <2>2. r[i] = [gs[i] EXCEPT !.tiles = new, !.stale = {}]
    BY DEF Retiled
  <2>3. r[i] = [run |-> gs[i].run, owner |-> gs[i].owner, open |-> gs[i].open,
                layout |-> gs[i].layout, tiles |-> new, stale |-> {}]
    <3> HIDE DEF new
    <3> QED BY <2>1, <2>2 DEF Group
  <2>4. Len(old) \in Nat /\ DOMAIN old = 1..Len(old) /\ gs[i].open <= Len(old)
    BY <2>1
  <2>5. ASSUME NEW j \in 1..Len(old), j <= gs[i].open
        PROVE  <<count, OpenIn(gs, i - 1) + j - 1>> \in Places
    <3>1. j \in 1..gs[i].open
      BY <2>1, <2>5
    <3>2. OpenIn(gs, i - 1) + j - 1 \in 0..(Open(gs) - 1) /\ Open(gs) \in Nat
      BY <3>1, WindowNumbers
    <3> DEFINE number == OpenIn(gs, i - 1) + j - 1
    <3>3. number \in Nat /\ number < count
      <4> HIDE DEF number
      <4> QED BY <3>2 DEF number
    <3> HIDE DEF number
    <3>4. <<count, number>> \in Places
      BY <3>3 DEF Places
    <3> QED BY <3>4 DEF number
  <2>6. \A j \in 1..Len(old) : old[j] \in Places
    BY <2>1
  <2>7. \A j \in 1..Len(old) : new[j] \in Places
    BY <2>4, <2>5, <2>6
  <2>8. new \in Seq(Places) /\ Len(new) = Len(old)
    <3>1. new = [j \in 1..Len(old) |-> new[j]]
      BY <2>4
    <3> HIDE DEF new
    <3> QED BY <2>4, <2>7, <3>1
  <2>9. \A v \in 1..gs[i].open : new[v] = <<count, OpenIn(gs, i - 1) + v - 1>>
    BY <2>1, <2>4
  <2> HIDE DEF new, old
  <2>10. r[i] \in Group
    BY <2>1, <2>3, <2>8 DEF Group
  <2>11. /\ r[i].run = gs[i].run /\ r[i].owner = gs[i].owner
         /\ r[i].open = gs[i].open /\ r[i].layout = gs[i].layout
         /\ r[i].tiles = new
    BY <2>3
  <2> QED BY <2>8, <2>9, <2>10, <2>11 DEF old
<1>3. Len(gs) \in Nat /\ DOMAIN gs = 1..Len(gs)
  OBVIOUS
<1>4. r \in Seq(Group)
  BY <1>1, <1>2, <1>3
<1> QED BY <1>1, <1>2, <1>4

LEMMA NewPlaces ==
  ASSUME NEW c \in Calls, NEW request \in Request, NEW count \in Nat,
         NEW first \in Nat, first + request.count <= count,
         NEW g, g = NewGroup(c, request, count, first)
  PROVE  /\ g \in Group
         /\ g.run = request.run /\ g.owner = c /\ g.open = 0
         /\ g.layout = request.layout
         /\ Len(g.tiles) = request.count
         /\ \A v \in 1..request.count : g.tiles[v] = <<count, first + v - 1>>
<1> DEFINE tiles == [j \in 1..request.count |-> <<count, first + j - 1>>]
<1>1. /\ request.count \in Nat /\ request.run \in RunIds
      /\ request.layout \in Layouts \cup {NoLayout}
  BY DEF Request
<1>2. ASSUME NEW j \in 1..request.count PROVE <<count, first + j - 1>> \in Places
  <2>1. first + j - 1 \in Nat /\ first + j - 1 < count
    BY <1>1
  <2> QED BY <2>1 DEF Places
<1>3. tiles \in Seq(Places) /\ Len(tiles) = request.count
  BY <1>1, <1>2
<1>4. \A v \in 1..request.count : tiles[v] = <<count, first + v - 1>>
  OBVIOUS
<1>5. g = [run |-> request.run, owner |-> c, open |-> 0, layout |-> request.layout,
           tiles |-> tiles, stale |-> {}]
  BY DEF NewGroup
<1> HIDE DEF tiles
<1> QED BY <1>1, <1>3, <1>4, <1>5 DEF Group

-----------------------------------------------------------------------------
(***************************************************************************)
(* What keeps windows apart.                                               *)
(***************************************************************************)
(* The tiles of a group that windows are in, or will be before another     *)
(* call of the manager looks at them.                                      *)
Due(g, cl) == IF cl[g.owner].at = "launching" THEN Len(g.tiles) ELSE g.open

(* They are tiles for one count of windows, and no two the same.           *)
Spread(gs, cl) ==
  \A i, j \in DOMAIN gs : \A v \in 1..Due(gs[i], cl), w \in 1..Due(gs[j], cl) :
    /\ gs[i].tiles[v][1] = gs[j].tiles[w][1]
    /\ gs[i].run # gs[j].run \/ v # w => gs[i].tiles[v][2] # gs[j].tiles[w][2]

(* Members of a layout are where their requests put them in the tiles that *)
(* are reserved for it, all other windows before those.                    *)
InLayout(gs, cl, l, reserved) ==
  \A i \in DOMAIN gs : \A v \in 1..Due(gs[i], cl) :
    /\ gs[i].tiles[v][1] = reserved.base + reserved.total
    /\ gs[i].layout # l => gs[i].tiles[v][2] < reserved.base
    /\ gs[i].layout = l =>
         \E r \in Requests :
           /\ r.layout = l /\ r.run = gs[i].run /\ v <= r.count
           /\ gs[i].tiles[v][2] = reserved.base + r.offset + v - 1

Placed ==
  ~mixed =>
    /\ Spread(groups, call)
    /\ screen \in Layouts /\ reservations[screen] # NoReservation =>
         InLayout(groups, call, screen, reservations[screen])

(* What is reserved for a layout is what its members were told.            *)
Totals ==
  \A l \in Layouts : reservations[l] # NoReservation =>
    \A r \in Requests : r.layout = l => reservations[l].total = r.total

(* A group belongs to one call, or to one that is over; the call has       *)
(* launched some of its windows and is to launch the others.               *)
Owners ==
  /\ \A i, j \in DOMAIN groups : groups[i].owner = groups[j].owner => i = j
  /\ \A i \in DOMAIN groups :
       call[groups[i].owner].op = "create" => call[groups[i].owner].at = "launching"
  /\ \A c \in Calls : call[c].op = "create" => call[c].request \in Requests
  /\ \A c \in Calls : call[c].at = "launching" =>
       \E i \in DOMAIN groups :
         /\ groups[i].owner = c /\ groups[i].open < call[c].request.count
         /\ Len(groups[i].tiles) = call[c].request.count

Recreation == [owner : Calls, index : Nat, tile : Places]

WindowTypes ==
  /\ groups \in Seq(Group)
  /\ \A i \in DOMAIN groups : groups[i].open <= Len(groups[i].tiles)
  /\ dying \in Group \cup {NoGroup}
  /\ reservations \in [Layouts -> [base : Nat, total : Nat]]
  /\ recreation \in [Calls -> {NoRecreation} \cup Recreation]
  /\ screen \in Layouts \cup {"plain", "fixed"}
  /\ mixed \in BOOLEAN /\ lost \in BOOLEAN

WindowInv ==
  /\ WindowTypes
  /\ Owners
  /\ Totals
  /\ Placed

-----------------------------------------------------------------------------
(* Steps that give out tiles.                                              *)

(* The open windows are in the places of gs, for n windows, and those of   *)
(* the new group will be in the places from first on.                      *)
Allots(c, request, gs, n, first) ==
  /\ n \in Nat /\ first \in Nat /\ first + request.count <= n
  /\ gs \in Seq(Group) /\ DOMAIN gs = DOMAIN groups
  /\ \A i \in DOMAIN groups :
       /\ gs[i].run = groups[i].run /\ gs[i].owner = groups[i].owner
       /\ gs[i].open = groups[i].open /\ gs[i].layout = groups[i].layout
       /\ Len(gs[i].tiles) = Len(groups[i].tiles)
  /\ groups' = Append(gs, NewGroup(c, request, n, first))
  /\ ~mixed' =>
       \A i \in DOMAIN gs : \A v \in 1..gs[i].open :
         /\ gs[i].tiles[v][1] = n
         /\ \A w \in 1..request.count : gs[i].tiles[v][2] # first + w - 1
         /\ \A j \in DOMAIN gs : \A w \in 1..gs[j].open :
              gs[i].run # gs[j].run \/ v # w => gs[i].tiles[v][2] # gs[j].tiles[w][2]
  /\ ~mixed' /\ screen' \in Layouts =>
       LET reserved == reservations'[screen'] IN
       /\ request.layout = screen' /\ n = reserved.base + reserved.total
       /\ first = reserved.base + request.offset
       /\ \A i \in DOMAIN gs : \A v \in 1..gs[i].open :
            /\ gs[i].layout # screen' => gs[i].tiles[v][2] < reserved.base
            /\ gs[i].layout = screen' =>
                 \E r \in Requests :
                   /\ r.layout = screen' /\ r.run = gs[i].run /\ v <= r.count
                   /\ gs[i].tiles[v][2] = reserved.base + r.offset + v - 1

(* gs are the groups in the tiles for n windows, the open ones first.      *)
Renumbered(gs, n) ==
  /\ gs \in Seq(Group) /\ DOMAIN gs = DOMAIN groups
  /\ \A i \in DOMAIN groups :
       /\ gs[i].run = groups[i].run /\ gs[i].owner = groups[i].owner
       /\ gs[i].open = groups[i].open /\ gs[i].layout = groups[i].layout
       /\ Len(gs[i].tiles) = Len(groups[i].tiles)
  /\ \A i \in DOMAIN gs : \A v \in 1..gs[i].open :
       /\ gs[i].tiles[v][1] = n
       /\ gs[i].tiles[v][2] \in 0..(Open(groups) - 1)
       /\ \A j \in DOMAIN gs : \A w \in 1..gs[j].open :
            gs[i].run # gs[j].run \/ v # w => gs[i].tiles[v][2] # gs[j].tiles[w][2]

LEMMA Anew ==
  ASSUME WindowTypes, NEW n \in Nat, Open(groups) <= n,
         NEW gs, gs = Retiled(groups, n)
  PROVE  Renumbered(gs, n)
<1> DEFINE number(i, v) == OpenIn(groups, i - 1) + v - 1
<1>1. groups \in Seq(Group) /\ \A i \in DOMAIN groups : groups[i].open <= Len(groups[i].tiles)
  BY DEF WindowTypes
<1>2. /\ gs \in Seq(Group) /\ DOMAIN gs = DOMAIN groups
      /\ \A i \in DOMAIN groups :
           /\ gs[i].run = groups[i].run /\ gs[i].owner = groups[i].owner
           /\ gs[i].open = groups[i].open /\ gs[i].layout = groups[i].layout
           /\ Len(gs[i].tiles) = Len(groups[i].tiles)
           /\ \A v \in 1..groups[i].open : gs[i].tiles[v] = <<n, number(i, v)>>
  BY <1>1, RetiledPlaces
<1>3. /\ Open(groups) \in Nat
      /\ \A i \in DOMAIN groups : \A v \in 1..groups[i].open :
           number(i, v) \in 0..(Open(groups) - 1)
      /\ \A i, j \in DOMAIN groups :
           \A v \in 1..groups[i].open, w \in 1..groups[j].open :
             i # j \/ v # w => number(i, v) # number(j, w)
  BY <1>1, WindowNumbers
<1> HIDE DEF number
<1>4. \A i \in DOMAIN gs : \A v \in 1..gs[i].open :
        gs[i].tiles[v][1] = n /\ gs[i].tiles[v][2] = number(i, v)
  BY <1>2
<1>5. ASSUME NEW i \in DOMAIN gs, NEW v \in 1..gs[i].open
      PROVE  /\ gs[i].tiles[v][1] = n
             /\ gs[i].tiles[v][2] \in 0..(Open(groups) - 1)
             /\ \A j \in DOMAIN gs : \A w \in 1..gs[j].open :
                  gs[i].run # gs[j].run \/ v # w =>
                    gs[i].tiles[v][2] # gs[j].tiles[w][2]
  <2>1. i \in DOMAIN groups /\ v \in 1..groups[i].open
    BY <1>2
  <2>2. /\ gs[i].tiles[v][1] = n /\ gs[i].tiles[v][2] = number(i, v)
        /\ number(i, v) \in 0..(Open(groups) - 1)
    BY <1>3, <1>4, <2>1
  <2>3. ASSUME NEW j \in DOMAIN gs, NEW w \in 1..gs[j].open,
               gs[i].run # gs[j].run \/ v # w
        PROVE  gs[i].tiles[v][2] # gs[j].tiles[w][2]
    <3>1. j \in DOMAIN groups /\ w \in 1..groups[j].open
      BY <1>2
    <3>2. i # j \/ v # w
      BY <2>3
    <3>3. gs[j].tiles[w][2] = number(j, w)
      BY <1>4
    <3> QED BY <1>3, <2>1, <2>2, <3>1, <3>2, <3>3
  <2> QED BY <2>2, <2>3
<1> QED BY <1>2, <1>5 DEF Renumbered

LEMMA AmongAllAllots ==
  ASSUME WindowTypes, NEW c \in Calls, NEW request \in Request, NEW res,
         AllotAmongAll(c, request, groups, res)
  PROVE  \E gs, n, first : Allots(c, request, gs, n, first)
<1> DEFINE before == Open(groups)
           n == before + request.count
<1>0. PICK gs : gs = Retiled(groups, n)
  OBVIOUS
<1>1. /\ groups' = Append(gs, NewGroup(c, request, n, before))
      /\ screen' = "plain" /\ screen' \notin Layouts
  BY <1>0, ManagerAssumption DEF AllotAmongAll
<1>2. before \in Nat /\ request.count \in Nat
  BY WindowNumbers DEF WindowTypes, Request
<1>3. n \in Nat /\ before <= n /\ before + request.count <= n
  BY <1>2
<1> HIDE DEF n
<1>4. Renumbered(gs, n)
  BY <1>0, <1>3, Anew
<1> HIDE DEF before
<1>5. \A x \in 0..(before - 1) : \A w \in 1..request.count : x # before + w - 1
  BY <1>2
<1>6. \A i \in DOMAIN gs : \A v \in 1..gs[i].open : \A w \in 1..request.count :
        gs[i].tiles[v][2] # before + w - 1
  BY <1>4, <1>5 DEF Renumbered, before
<1>7. Allots(c, request, gs, n, before)
  BY <1>1, <1>2, <1>3, <1>4, <1>6 DEF Allots, Renumbered
<1> QED BY <1>7

LEMMA FixedAllots ==
  ASSUME WindowTypes, NEW c \in Calls, NEW request \in Request, NEW res,
         AllotFixed(c, request, groups, res)
  PROVE  \E gs, n, first : Allots(c, request, gs, n, first)
<1>1. /\ request.total # 0
      /\ groups' = Append(groups, NewGroup(c, request, request.total, request.offset))
      /\ screen' = "fixed" /\ screen' \notin Layouts
      /\ mixed' = (groups # <<>>)
  BY ManagerAssumption DEF AllotFixed
<1>2. /\ request.total \in Nat /\ request.offset \in Nat
      /\ request.offset + request.count <= request.total
  BY <1>1 DEF Request
<1>3. groups \in Seq(Group)
  BY DEF WindowTypes
<1>4. ~mixed' => DOMAIN groups = {}
  <2>1. ~mixed' => groups = <<>>
    BY <1>1, Zenon
  <2> QED BY <1>3, <2>1
<1>5. Allots(c, request, groups, request.total, request.offset)
  BY <1>1, <1>2, <1>3, <1>4 DEF Allots
<1> QED BY <1>5

(* Where no call launches, what is due is open.                            *)
LEMMA LayoutAllots ==
  ASSUME WindowInv, NEW c \in Calls, NEW request \in Requests,
         \A i \in DOMAIN groups : groups[i].run # request.run,
         \A i \in DOMAIN groups : Due(groups[i], call) = groups[i].open,
         NEW res \in [Layouts -> [base : Nat, total : Nat]],
         \A l \in Layouts : res[l] \in {reservations[l], NoReservation},
         \A i \in DOMAIN groups :
           groups[i].layout # NoLayout => res[groups[i].layout] # NoReservation,
         AllotInLayout(c, request, groups, res)
  PROVE  \E gs, n, first : Allots(c, request, gs, n, first)
<1> DEFINE l == request.layout
           reserved == reservations'[l]
           n == reserved.base + reserved.total
           first == reserved.base + request.offset
<1>1. /\ WindowTypes /\ Totals /\ Placed
      /\ request \in Request
  BY ServerAssumption DEF WindowInv
<1>2. l # NoLayout /\ request.total # 0 /\ l \in Layouts
  BY <1>1 DEF AllotInLayout, Request
<1>3. /\ request.offset \in Nat /\ request.count \in Nat /\ request.total \in Nat
      /\ request.offset + request.count <= request.total
  BY <1>1, <1>2 DEF Request
<1>4. groups \in Seq(Group) /\ Open(groups) \in Nat
  BY <1>1, WindowNumbers DEF WindowTypes
<1>5. reserved = IF res[l] = NoReservation
                 THEN [base |-> Open(groups), total |-> request.total] ELSE res[l]
  BY <1>2 DEF AllotInLayout
<1>6. /\ groups' = Append(IF res[l] = NoReservation THEN Retiled(groups, n) ELSE groups,
                          NewGroup(c, request, n, first))
      /\ screen' = l
      /\ mixed' = (res[l] # NoReservation /\ groups # <<>> /\ (mixed \/ screen # l))
  <2> DEFINE given == IF res[l] = NoReservation
                      THEN [base |-> Open(groups), total |-> request.total]
                      ELSE res[l]
  <2>1. groups' = Append(IF res[l] = NoReservation
                         THEN Retiled(groups, given.base + given.total) ELSE groups,
                         NewGroup(c, request, given.base + given.total,
                                  given.base + request.offset))
    BY Zenon DEF AllotInLayout
  <2>2. screen' = l
    BY Zenon DEF AllotInLayout
  <2>3. mixed' = (res[l] # NoReservation /\ groups # <<>> /\ (mixed \/ screen # l))
    BY Zenon DEF AllotInLayout
  <2>4. reserved = given
    BY <1>5
  <2> HIDE DEF given, reserved
  <2> QED BY <2>1, <2>2, <2>3, <2>4, Zenon
<1> HIDE DEF reserved
<1>7. /\ reserved.base \in Nat /\ reserved.total = request.total
      /\ n \in Nat /\ first \in Nat /\ first + request.count <= n
  <2>1. reserved.base \in Nat /\ reserved.total = request.total
    <3>1. CASE res[l] = NoReservation
      BY <1>4, <1>5, <3>1
    <3>2. CASE res[l] # NoReservation
      <4>1. res[l] = reservations[l] /\ reserved = res[l]
        BY <1>2, <1>5, <3>2
      <4>2. res[l] \in [base : Nat, total : Nat]
        BY <1>2
      <4>3. reservations[l].total = request.total
        BY <1>1, <1>2, <3>2, <4>1 DEF Totals
      <4> QED BY <4>1, <4>2, <4>3
    <3> QED BY <3>1, <3>2
  <2> QED BY <1>3, <2>1
<1> HIDE DEF n, first
<1>8. CASE res[l] = NoReservation
  <2>0. PICK gs : gs = Retiled(groups, n)
    OBVIOUS
  <2>1. reserved.base = Open(groups) /\ Open(groups) <= n
    BY <1>3, <1>4, <1>5, <1>7, <1>8 DEF n
  <2>2. Renumbered(gs, n)
    BY <1>1, <1>7, <2>0, <2>1, Anew
  <2>3. \A x \in 0..(Open(groups) - 1) :
          x < reserved.base /\ \A w \in 1..request.count : x # first + w - 1
    BY <1>3, <1>4, <2>1 DEF first
  <2>4. \A i \in DOMAIN gs : gs[i].layout # l
    BY <1>2, <1>8, <2>2 DEF Renumbered
  <2>5. /\ groups' = Append(gs, NewGroup(c, request, n, first))
        /\ screen' = l
    BY <1>6, <1>8, <2>0
  <2>6. Allots(c, request, gs, n, first)
    BY <1>7, <2>2, <2>3, <2>4, <2>5 DEF Allots, Renumbered, n, first, reserved
  <2> QED BY <2>6
<1>9. CASE res[l] # NoReservation
  <2>1. reserved = reservations[l] /\ reservations[l] # NoReservation
    BY <1>2, <1>5, <1>9
  <2>2. ~mixed' => DOMAIN groups = {} \/ (~mixed /\ screen = l)
    <3>1. ~mixed' => groups = <<>> \/ (~mixed /\ screen = l)
      BY <1>6, <1>9, Zenon
    <3>2. groups = <<>> => DOMAIN groups = {}
      OBVIOUS
    <3> QED BY <3>1, <3>2, Zenon
  <2>3. ASSUME ~mixed, screen = l
        PROVE  Spread(groups, call) /\ InLayout(groups, call, l, reserved)
    BY <1>1, <1>2, <2>1, <2>3 DEF Placed
  <2>4. ASSUME ~mixed', NEW i \in DOMAIN groups, NEW v \in 1..groups[i].open
        PROVE  /\ groups[i].tiles[v][1] = n
               /\ groups[i].layout # l => groups[i].tiles[v][2] < reserved.base
               /\ groups[i].layout = l =>
                    \E r \in Requests :
                      /\ r.layout = l /\ r.run = groups[i].run /\ v <= r.count
                      /\ groups[i].tiles[v][2] = reserved.base + r.offset + v - 1
               /\ \A j \in DOMAIN groups : \A w \in 1..groups[j].open :
                    groups[i].run # groups[j].run \/ v # w =>
                      groups[i].tiles[v][2] # groups[j].tiles[w][2]
    <3>1. v \in 1..Due(groups[i], call)
      OBVIOUS
    <3>2. Spread(groups, call) /\ InLayout(groups, call, l, reserved)
      BY <2>2, <2>3, <2>4
    <3> QED BY <3>1, <3>2 DEF Spread, InLayout, n
  <2>5. ASSUME ~mixed', NEW i \in DOMAIN groups, NEW v \in 1..groups[i].open,
               NEW w \in 1..request.count
        PROVE  groups[i].tiles[v][2] # first + w - 1
    <3>1. groups[i].open \in Nat /\ groups[i].tiles[v] \in Places
      <4>1. /\ groups[i].open \in Nat /\ groups[i].tiles \in Seq(Places)
            /\ groups[i].open <= Len(groups[i].tiles)
        BY <1>1, <1>4, GroupFields DEF WindowTypes
      <4>2. v \in 1..Len(groups[i].tiles)
        BY <4>1
      <4> QED BY <4>1, <4>2
    <3>2. groups[i].tiles[v][2] \in Nat /\ v \in Nat
      BY <3>1 DEF Places
    <3>3. CASE groups[i].layout # l
      BY <1>3, <1>7, <2>4, <2>5, <3>2, <3>3 DEF first
    <3>4. CASE groups[i].layout = l
      <4>1. PICK r \in Requests :
              /\ r.layout = l /\ r.run = groups[i].run /\ v <= r.count
              /\ groups[i].tiles[v][2] = reserved.base + r.offset + v - 1
        BY <2>4, <2>5, <3>4
      <4>2. r.offset + r.count <= request.offset \/ request.offset + request.count <= r.offset
        BY <1>2, <4>1, LayoutAssumption
      <4>3. r.offset \in Nat /\ r.count \in Nat
        BY ServerAssumption DEF Request
      <4> QED BY <1>3, <1>7, <3>2, <4>1, <4>2, <4>3 DEF first
    <3> QED BY <3>3, <3>4
  <2>6. groups' = Append(groups, NewGroup(c, request, n, first)) /\ screen' = l
    BY <1>6, <1>9
  <2>7. Allots(c, request, groups, n, first)
    BY <1>4, <1>7, <2>4, <2>5, <2>6 DEF Allots, n, first, reserved
  <2> QED BY <2>7
<1> QED BY <1>8, <1>9

(* What it reserves, and for whom.                                         *)
LEMMA AllotReserves ==
  ASSUME WindowTypes, Totals, NEW c \in Calls, NEW request \in Requests,
         NEW res \in [Layouts -> [base : Nat, total : Nat]],
         \A l \in Layouts : res[l] \in {reservations[l], NoReservation},
         \/ AllotInLayout(c, request, groups, res)
         \/ AllotFixed(c, request, groups, res)
         \/ AllotAmongAll(c, request, groups, res)
  PROVE  /\ reservations' \in [Layouts -> [base : Nat, total : Nat]]
         /\ screen' \in Layouts \cup {"plain", "fixed"} /\ mixed' \in BOOLEAN
         /\ Totals'
<1>1. \A l \in Layouts : res[l] # NoReservation =>
        \A r \in Requests : r.layout = l => res[l].total = r.total
  BY DEF Totals
<1>2. CASE AllotInLayout(c, request, groups, res)
  <2> DEFINE l == request.layout
             reserved == IF res[l] = NoReservation
                         THEN [base |-> Open(groups), total |-> request.total]
                         ELSE res[l]
  <2>1. /\ l # NoLayout /\ reservations' = [res EXCEPT ![l] = reserved]
        /\ screen' = l /\ mixed' \in BOOLEAN
    BY <1>2 DEF AllotInLayout
  <2>2. l \in Layouts /\ request.total \in Nat
    BY <2>1, ServerAssumption DEF Request
  <2>3. Open(groups) \in Nat
    BY WindowNumbers DEF WindowTypes
  <2>4. reserved \in [base : Nat, total : Nat]
    BY <2>2, <2>3
  <2>5. \A r \in Requests : r.layout = l => reserved.total = r.total
    <3> SUFFICES ASSUME NEW r \in Requests, r.layout = l PROVE reserved.total = r.total
      OBVIOUS
    <3>1. r.total = request.total
      BY <2>1, LayoutAssumption
    <3>2. CASE res[l] = NoReservation
      BY <3>1, <3>2
    <3>3. CASE res[l] # NoReservation
      BY <1>1, <2>2, <3>3
    <3> QED BY <3>2, <3>3
  <2> HIDE DEF reserved, l
  <2>6. \A k \in Layouts : reservations'[k] = IF k = l THEN reserved ELSE res[k]
    BY <2>1, <2>2
  <2>7. reservations' \in [Layouts -> [base : Nat, total : Nat]]
    BY <2>1, <2>4
  <2> QED BY <1>1, <2>1, <2>2, <2>5, <2>6, <2>7 DEF Totals
<1>3. CASE AllotFixed(c, request, groups, res)
  <2>1. reservations' = res /\ screen' = "fixed" /\ mixed' \in BOOLEAN
    BY <1>3 DEF AllotFixed
  <2> QED BY <1>1, <2>1 DEF Totals
<1>4. CASE AllotAmongAll(c, request, groups, res)
  <2>1. reservations' = res /\ screen' = "plain" /\ mixed' \in BOOLEAN
    BY <1>4 DEF AllotAmongAll
  <2> QED BY <1>1, <2>1 DEF Totals
<1> QED BY <1>2, <1>3, <1>4

(* A step gives a group to nobody but a caller of create_contexts.         *)
GivesTo(c) ==
  \A j \in DOMAIN groups' :
    \/ groups'[j].owner = c /\ call[c].op = "create"
    \/ \E i \in DOMAIN groups : groups'[j].owner = groups[i].owner

LEMMA AllotKeeps ==
  ASSUME ManagerInv, WindowInv, NEW c \in Calls, queue # <<>>, queue[1] = c,
         call[c].op = "create", call[c].at \in {"waiting", "emptying"},
         \A i \in DOMAIN groups : groups[i].run # call[c].request.run,
         NEW res \in [Layouts -> [base : Nat, total : Nat]],
         \A l \in Layouts : res[l] \in {reservations[l], NoReservation},
         \A i \in DOMAIN groups :
           groups[i].layout # NoLayout => res[groups[i].layout] # NoReservation,
         \/ AllotInLayout(c, call[c].request, groups, res)
         \/ AllotFixed(c, call[c].request, groups, res)
         \/ AllotAmongAll(c, call[c].request, groups, res),
         GoOn(c, "launching"), dying' \in Group \cup {NoGroup},
         UNCHANGED <<recreation, lost>>
  PROVE  WindowInv' /\ GivesTo(c)
<1> DEFINE request == call[c].request
<1>1. LockOK /\ WindowTypes /\ Owners /\ Totals
  BY DEF ManagerInv, WindowInv
<1>2. request \in Requests /\ request \in Request
  BY <1>1, ServerAssumption DEF Owners
<1>3. /\ call'[c].at = "launching" /\ call'[c].op = "create"
      /\ call'[c].request = request
      /\ \A d \in Calls : d # c => call'[d] = call[d]
  <2>1. call[c] \in CreateCall
    BY <1>1, CallKinds
  <2>2. /\ call'[c] = [call[c] EXCEPT !.at = "launching"]
        /\ \A d \in Calls : d # c => call'[d] = call[d]
    BY <1>1 DEF GoOn, LockOK
  <2> QED BY <2>1, <2>2 DEF CreateCall
<1>4. ASSUME NEW d \in Calls, call[d].at = "launching" PROVE FALSE
  <2>1. queue[1] = d
    BY <1>1, <1>4 DEF LockOK
  <2> QED BY <1>4, <2>1
<1>5. ASSUME NEW i \in DOMAIN groups
      PROVE  /\ groups[i].owner \in Calls /\ groups[i].owner # c
             /\ Due(groups[i], call) = groups[i].open
  <2>1. groups[i].owner \in Calls
    BY <1>1, GroupFields DEF WindowTypes
  <2> QED BY <1>1, <1>4, <2>1 DEF Owners, Due
<1> HIDE DEF request
<1>6. PICK gs, n, first : Allots(c, request, gs, n, first)
  <2>1. CASE AllotInLayout(c, request, groups, res)
    BY <1>2, <1>5, <2>1, LayoutAllots DEF request
  <2>2. CASE AllotFixed(c, request, groups, res)
    BY <1>1, <1>2, <2>2, FixedAllots
  <2>3. CASE AllotAmongAll(c, request, groups, res)
    BY <1>1, <1>2, <2>3, AmongAllAllots
  <2> QED BY <2>1, <2>2, <2>3 DEF request
<1> DEFINE g == NewGroup(c, request, n, first)
           last == Len(groups) + 1
<1>7. /\ g \in Group /\ g.run = request.run /\ g.owner = c /\ g.open = 0
      /\ g.layout = request.layout /\ Len(g.tiles) = request.count
      /\ \A v \in 1..request.count : g.tiles[v] = <<n, first + v - 1>>
  BY <1>2, <1>6, NewPlaces DEF Allots
<1>8. /\ request.count \in Nat \ {0}
      /\ n \in Nat /\ first \in Nat
  BY <1>2, <1>6 DEF Request, Allots
<1> HIDE DEF g
<1>9. /\ groups \in Seq(Group) /\ gs \in Seq(Group) /\ DOMAIN gs = DOMAIN groups
      /\ \A i \in DOMAIN groups :
           /\ gs[i].run = groups[i].run /\ gs[i].owner = groups[i].owner
           /\ gs[i].open = groups[i].open /\ gs[i].layout = groups[i].layout
           /\ Len(gs[i].tiles) = Len(groups[i].tiles)
      /\ groups' = Append(gs, g)
  BY <1>1, <1>6 DEF Allots, WindowTypes, g
<1>10. /\ groups' \in Seq(Group) /\ last \in DOMAIN groups' /\ groups'[last] = g
       /\ \A j \in DOMAIN groups' : j = last \/ j \in DOMAIN groups
       /\ \A j \in DOMAIN groups : j # last /\ j \in DOMAIN groups' /\ groups'[j] = gs[j]
  <2>1. Len(gs) = Len(groups) /\ Len(groups) \in Nat /\ DOMAIN groups = 1..Len(groups)
    BY <1>9
  <2>2. groups' \in Seq(Group) /\ Len(groups') = last
    BY <1>7, <1>9, <2>1
  <2>3. groups'[last] = g /\ \A j \in 1..Len(groups) : groups'[j] = gs[j]
    BY <1>7, <1>9, <2>1
  <2> QED BY <2>1, <2>2, <2>3
<1> HIDE DEF last
<1>11. WindowTypes'
  <2>1. \A j \in DOMAIN groups' : groups'[j].open <= Len(groups'[j].tiles)
    BY <1>1, <1>7, <1>8, <1>9, <1>10 DEF WindowTypes
  <2>2. /\ reservations' \in [Layouts -> [base : Nat, total : Nat]]
        /\ screen' \in Layouts \cup {"plain", "fixed"} /\ mixed' \in BOOLEAN
    BY <1>1, <1>2, AllotReserves DEF request
  <2>3. /\ recreation' \in [Calls -> {NoRecreation} \cup Recreation]
        /\ lost' \in BOOLEAN
    BY <1>1 DEF WindowTypes
  <2> QED BY <1>10, <2>1, <2>2, <2>3 DEF WindowTypes
<1>12. Totals'
  BY <1>1, <1>2, AllotReserves DEF request
<1>13. Owners'
  <2>0. /\ groups'[last].owner = c
        /\ \A j \in DOMAIN groups :
             groups'[j].owner = groups[j].owner /\ groups[j].owner # c
    BY <1>5, <1>7, <1>9, <1>10
  <2>1. ASSUME NEW i \in DOMAIN groups', NEW j \in DOMAIN groups',
               groups'[i].owner = groups'[j].owner
        PROVE  i = j
    <3>1. \A k, m \in DOMAIN groups : groups[k].owner = groups[m].owner => k = m
      BY <1>1 DEF Owners
    <3> QED BY <1>10, <2>0, <2>1, <3>1
  <2>2. ASSUME NEW i \in DOMAIN groups', call'[groups'[i].owner].op = "create"
        PROVE  call'[groups'[i].owner].at = "launching"
    <3>1. CASE i = last
      BY <1>3, <2>0, <3>1
    <3>2. CASE i \in DOMAIN groups
      <4>1. groups'[i].owner \in Calls /\ call'[groups'[i].owner] = call[groups[i].owner]
        BY <1>3, <1>5, <2>0, <3>2
      <4> QED BY <1>1, <2>0, <2>2, <3>2, <4>1 DEF Owners
    <3> QED BY <1>10, <3>1, <3>2
  <2>3. ASSUME NEW d \in Calls, call'[d].op = "create"
        PROVE  call'[d].request \in Requests
    BY <1>1, <1>2, <1>3, <2>3 DEF Owners
  <2>4. ASSUME NEW d \in Calls, call'[d].at = "launching"
        PROVE  \E i \in DOMAIN groups' :
                 /\ groups'[i].owner = d /\ groups'[i].open < call'[d].request.count
                 /\ Len(groups'[i].tiles) = call'[d].request.count
    <3>1. d = c
      BY <1>3, <1>4, <2>4
    <3> QED BY <1>3, <1>7, <1>8, <1>10, <3>1
  <2> QED BY <2>1, <2>2, <2>3, <2>4 DEF Owners
<1>14. /\ Due(g, call') = request.count
       /\ \A j \in DOMAIN groups : Due(groups'[j], call') = gs[j].open
  <2>1. Due(g, call') = request.count
    BY <1>3, <1>7 DEF Due
  <2>2. \A j \in DOMAIN groups : Due(groups'[j], call') = gs[j].open
    BY <1>3, <1>4, <1>5, <1>9, <1>10 DEF Due
  <2> QED BY <2>1, <2>2
<1>15. ASSUME ~mixed'
       PROVE  /\ Spread(groups', call')
              /\ screen' \in Layouts =>
                   InLayout(groups', call', screen', reservations'[screen'])
  <2>1. ASSUME NEW i \in DOMAIN groups', NEW v \in 1..Due(groups'[i], call')
        PROVE  \/ /\ i \in DOMAIN gs /\ v \in 1..gs[i].open
                  /\ groups'[i] = gs[i] /\ gs[i].tiles[v][1] = n
               \/ /\ i = last /\ v \in 1..request.count /\ groups'[i] = g
                  /\ g.tiles[v][1] = n /\ g.tiles[v][2] = first + v - 1
    <3>1. CASE i = last
      BY <1>7, <1>10, <1>14, <3>1
    <3>2. CASE i \in DOMAIN groups
      <4>1. i \in DOMAIN gs /\ v \in 1..gs[i].open /\ groups'[i] = gs[i]
        BY <1>9, <1>10, <1>14, <3>2
      <4>2. gs[i].tiles[v][1] = n
        BY <1>6, <1>15, <4>1 DEF Allots
      <4> QED BY <4>1, <4>2
    <3> QED BY <1>10, <3>1, <3>2
  <2>2. /\ \A i \in DOMAIN gs : \A v \in 1..gs[i].open : \A w \in 1..request.count :
             gs[i].tiles[v][2] # first + w - 1
        /\ \A i, j \in DOMAIN gs : \A v \in 1..gs[i].open, w \in 1..gs[j].open :
             gs[i].run # gs[j].run \/ v # w => gs[i].tiles[v][2] # gs[j].tiles[w][2]
    BY <1>6, <1>15 DEF Allots
  <2>3. Spread(groups', call')
    <3> SUFFICES ASSUME NEW i \in DOMAIN groups', NEW j \in DOMAIN groups',
                        NEW v \in 1..Due(groups'[i], call'),
                        NEW w \in 1..Due(groups'[j], call')
                 PROVE  /\ groups'[i].tiles[v][1] = groups'[j].tiles[w][1]
                        /\ groups'[i].run # groups'[j].run \/ v # w =>
                             groups'[i].tiles[v][2] # groups'[j].tiles[w][2]
      BY DEF Spread
    <3>1. CASE i \in DOMAIN gs /\ j \in DOMAIN gs
      <4>1. i # last /\ j # last
        BY <1>9, <1>10, <3>1
      <4>2. /\ v \in 1..gs[i].open /\ groups'[i] = gs[i] /\ gs[i].tiles[v][1] = n
            /\ w \in 1..gs[j].open /\ groups'[j] = gs[j] /\ gs[j].tiles[w][1] = n
        BY <2>1, <4>1
      <4> QED BY <2>2, <3>1, <4>2
    <3>2. CASE i = last /\ j \in DOMAIN gs
      <4>1. i \notin DOMAIN gs /\ j # last
        BY <1>9, <1>10, <3>2
      <4>2. /\ v \in 1..request.count /\ groups'[i] = g
            /\ g.tiles[v][1] = n /\ g.tiles[v][2] = first + v - 1
            /\ w \in 1..gs[j].open /\ groups'[j] = gs[j] /\ gs[j].tiles[w][1] = n
        BY <2>1, <4>1
      <4>3. gs[j].tiles[w][2] # first + v - 1
        BY <2>2, <3>2, <4>2
      <4> QED BY <4>2, <4>3
    <3>3. CASE i \in DOMAIN gs /\ j = last
      <4>1. j \notin DOMAIN gs /\ i # last
        BY <1>9, <1>10, <3>3
      <4>2. /\ w \in 1..request.count /\ groups'[j] = g
            /\ g.tiles[w][1] = n /\ g.tiles[w][2] = first + w - 1
            /\ v \in 1..gs[i].open /\ groups'[i] = gs[i] /\ gs[i].tiles[v][1] = n
        BY <2>1, <4>1
      <4>3. gs[i].tiles[v][2] # first + w - 1
        BY <2>2, <3>3, <4>2
      <4> QED BY <4>2, <4>3
    <3>4. CASE i = last /\ j = last
      <4>1. last \notin DOMAIN gs
        BY <1>9, <1>10
      <4>2. /\ v \in 1..request.count /\ groups'[i] = g /\ groups'[j] = g
            /\ g.tiles[v][1] = n /\ g.tiles[v][2] = first + v - 1
            /\ w \in 1..request.count
            /\ g.tiles[w][1] = n /\ g.tiles[w][2] = first + w - 1
        BY <2>1, <3>4, <4>1
      <4>3. v # w => first + v - 1 # first + w - 1
        BY <1>8, <4>2
      <4> QED BY <4>2, <4>3
    <3> QED BY <1>9, <1>10, <3>1, <3>2, <3>3, <3>4
  <2>4. ASSUME screen' \in Layouts
        PROVE  InLayout(groups', call', screen', reservations'[screen'])
    <3> DEFINE reserved == reservations'[screen']
    <3>1. /\ request.layout = screen' /\ n = reserved.base + reserved.total
          /\ first = reserved.base + request.offset
          /\ \A i \in DOMAIN gs : \A v \in 1..gs[i].open :
               /\ gs[i].layout # screen' => gs[i].tiles[v][2] < reserved.base
               /\ gs[i].layout = screen' =>
                    \E r \in Requests :
                      /\ r.layout = screen' /\ r.run = gs[i].run /\ v <= r.count
                      /\ gs[i].tiles[v][2] = reserved.base + r.offset + v - 1
      BY <1>6, <1>15, <2>4 DEF Allots
    <3> HIDE DEF reserved
    <3> SUFFICES ASSUME NEW i \in DOMAIN groups', NEW v \in 1..Due(groups'[i], call')
                 PROVE  /\ groups'[i].tiles[v][1] = reserved.base + reserved.total
                        /\ groups'[i].layout # screen' =>
                             groups'[i].tiles[v][2] < reserved.base
                        /\ groups'[i].layout = screen' =>
                             \E r \in Requests :
                               /\ r.layout = screen' /\ r.run = groups'[i].run
                               /\ v <= r.count
                               /\ groups'[i].tiles[v][2] =
                                    reserved.base + r.offset + v - 1
      BY DEF InLayout, reserved
    <3>2. CASE /\ i \in DOMAIN gs /\ v \in 1..gs[i].open
               /\ groups'[i] = gs[i] /\ gs[i].tiles[v][1] = n
      BY <3>1, <3>2
    <3>3. CASE /\ i = last /\ v \in 1..request.count /\ groups'[i] = g
               /\ g.tiles[v][1] = n /\ g.tiles[v][2] = first + v - 1
      <4>1. /\ groups'[i].layout = screen' /\ groups'[i].run = request.run
            /\ v <= request.count
            /\ groups'[i].tiles[v][2] = reserved.base + request.offset + v - 1
        BY <1>7, <1>8, <3>1, <3>3
      <4> QED BY <1>2, <3>1, <3>3, <4>1
    <3> QED BY <2>1, <3>2, <3>3
  <2> QED BY <2>3, <2>4
<1>16. GivesTo(c)
  BY <1>7, <1>9, <1>10 DEF GivesTo
<1> QED BY <1>11, <1>12, <1>13, <1>15, <1>16 DEF WindowInv, Placed

-----------------------------------------------------------------------------
(* Steps that give out no tiles.                                           *)

LEMMA StillPlaced ==
  ASSUME Placed, Totals, UNCHANGED <<screen, mixed>>,
         \A l \in Layouts : reservations'[l] \in {reservations[l], NoReservation},
         \A j \in DOMAIN groups' : \E i \in DOMAIN groups :
           /\ groups'[j].run = groups[i].run /\ groups'[j].layout = groups[i].layout
           /\ groups'[j].tiles = groups[i].tiles
           /\ 1..Due(groups'[j], call') \subseteq 1..Due(groups[i], call)
  PROVE  Placed' /\ Totals'
<1>1. Totals'
  BY DEF Totals
<1>2. ASSUME Spread(groups, call) PROVE Spread(groups', call')
  <2> SUFFICES ASSUME NEW i \in DOMAIN groups', NEW j \in DOMAIN groups',
                      NEW v \in 1..Due(groups'[i], call'),
                      NEW w \in 1..Due(groups'[j], call')
               PROVE  /\ groups'[i].tiles[v][1] = groups'[j].tiles[w][1]
                      /\ groups'[i].run # groups'[j].run \/ v # w =>
                           groups'[i].tiles[v][2] # groups'[j].tiles[w][2]
    BY DEF Spread
  <2>1. PICK k \in DOMAIN groups :
          /\ groups'[i].run = groups[k].run /\ groups'[i].tiles = groups[k].tiles
          /\ v \in 1..Due(groups[k], call)
    OBVIOUS
  <2>2. PICK m \in DOMAIN groups :
          /\ groups'[j].run = groups[m].run /\ groups'[j].tiles = groups[m].tiles
          /\ w \in 1..Due(groups[m], call)
    OBVIOUS
  <2> QED BY <1>2, <2>1, <2>2 DEF Spread
<1>3. ASSUME NEW l, NEW reserved, InLayout(groups, call, l, reserved)
      PROVE  InLayout(groups', call', l, reserved)
  <2> SUFFICES ASSUME NEW i \in DOMAIN groups', NEW v \in 1..Due(groups'[i], call')
               PROVE  /\ groups'[i].tiles[v][1] = reserved.base + reserved.total
                      /\ groups'[i].layout # l => groups'[i].tiles[v][2] < reserved.base
                      /\ groups'[i].layout = l =>
                           \E r \in Requests :
                             /\ r.layout = l /\ r.run = groups'[i].run /\ v <= r.count
                             /\ groups'[i].tiles[v][2] = reserved.base + r.offset + v - 1
    BY DEF InLayout
  <2>1. PICK k \in DOMAIN groups :
          /\ groups'[i].run = groups[k].run /\ groups'[i].layout = groups[k].layout
          /\ groups'[i].tiles = groups[k].tiles
          /\ v \in 1..Due(groups[k], call)
    OBVIOUS
  <2> QED BY <1>3, <2>1 DEF InLayout
<1>4. Placed'
  <2> SUFFICES ASSUME ~mixed
               PROVE  /\ Spread(groups', call')
                      /\ screen \in Layouts /\ reservations'[screen] # NoReservation =>
                           InLayout(groups', call', screen, reservations'[screen])
    BY DEF Placed
  <2>1. Spread(groups', call')
    BY <1>2 DEF Placed
  <2>2. ASSUME screen \in Layouts, reservations'[screen] # NoReservation
        PROVE  InLayout(groups', call', screen, reservations'[screen])
    <3>1. reservations'[screen] = reservations[screen]
      BY <2>2
    <3> QED BY <1>3, <2>2, <3>1 DEF Placed
  <2> QED BY <2>1, <2>2
<1> QED BY <1>1, <1>4

(* What a call that is not launching, or not any more, has due is open.    *)
LEMMA DueShrinks ==
  ASSUME WindowTypes, NEW i \in DOMAIN groups, NEW cl, NEW g,
         g.owner = groups[i].owner, g.tiles = groups[i].tiles,
         g.open = groups[i].open,
         cl[g.owner].at = "launching" => call[g.owner].at = "launching"
  PROVE  1..Due(g, cl) \subseteq 1..Due(groups[i], call)
<1>1. /\ groups[i].open \in Nat /\ Len(groups[i].tiles) \in Nat
      /\ groups[i].open <= Len(groups[i].tiles)
  BY GroupFields DEF WindowTypes
<1> QED BY <1>1 DEF Due

LEMMA AskWindows ==
  ASSUME ManagerInv, WindowInv, NEW c \in Calls, NEW what, Ask(c, what),
         what.at = "waiting",
         what.op = "create" => /\ what.request \in Requests
                               /\ \A i \in DOMAIN groups : groups[i].owner # c
  PROVE  WindowInv' /\ GivesTo(c)
<1>1. LockOK /\ WindowTypes /\ Owners /\ Totals /\ Placed
  BY DEF ManagerInv, WindowInv
<1>2. /\ call'[c] = what /\ \A d \in Calls : d # c => call'[d] = call[d]
      /\ UNCHANGED <<groups, dying, reservations, recreation, screen, mixed, lost>>
  BY <1>1 DEF Ask, LockOK
<1>3. WindowTypes'
  BY <1>1, <1>2 DEF WindowTypes
<1>4. \A i \in DOMAIN groups : groups[i].owner \in Calls
  BY <1>1, GroupFields DEF WindowTypes
<1>5. Owners'
  <2>1. \A i, j \in DOMAIN groups' : groups'[i].owner = groups'[j].owner => i = j
    BY <1>1, <1>2 DEF Owners
  <2>2. ASSUME NEW i \in DOMAIN groups, call'[groups[i].owner].op = "create"
        PROVE  call'[groups[i].owner].at = "launching"
    BY <1>1, <1>2, <1>4, <2>2 DEF Owners
  <2>3. \A d \in Calls : call'[d].op = "create" => call'[d].request \in Requests
    BY <1>1, <1>2 DEF Owners
  <2>4. ASSUME NEW d \in Calls, call'[d].at = "launching"
        PROVE  d # c /\ call'[d] = call[d]
    BY <1>2, <2>4
  <2> QED BY <1>1, <1>2, <2>1, <2>2, <2>3, <2>4 DEF Owners
<1>6. \A i \in DOMAIN groups :
        call'[groups[i].owner].at = "launching" => call[groups[i].owner].at = "launching"
  BY <1>2, <1>4
<1>7. \A i \in DOMAIN groups : 1..Due(groups[i], call') \subseteq 1..Due(groups[i], call)
  BY <1>1, <1>6, DueShrinks
<1>8. Placed' /\ Totals'
  BY <1>1, <1>2, <1>7, StillPlaced
<1> QED BY <1>2, <1>3, <1>5, <1>8 DEF WindowInv, GivesTo

(* A call is over.                                                         *)
LEMMA ReleaseWindows ==
  ASSUME ManagerInv, WindowInv, NEW c \in Calls, Release(c),
         UNCHANGED <<groups, screen, mixed>>,
         reservations' \in [Layouts -> [base : Nat, total : Nat]],
         \A l \in Layouts : reservations'[l] \in {reservations[l], NoReservation},
         dying' \in Group \cup {NoGroup},
         recreation' \in [Calls -> {NoRecreation} \cup Recreation],
         lost' \in BOOLEAN
  PROVE  WindowInv' /\ GivesTo(c)
<1>1. LockOK /\ WindowTypes /\ Owners /\ Totals /\ Placed
  BY DEF ManagerInv, WindowInv
<1>2. /\ call'[c].at = "away" /\ call'[c].op = "none"
      /\ \A d \in Calls : d # c => call'[d] = call[d]
  BY <1>1, ReleaseLock DEF NoCall
<1>3. WindowTypes'
  BY <1>1 DEF WindowTypes
<1>4. \A i \in DOMAIN groups : groups[i].owner \in Calls
  BY <1>1, GroupFields DEF WindowTypes
<1>5. Owners'
  <2>1. \A i, j \in DOMAIN groups' : groups'[i].owner = groups'[j].owner => i = j
    BY <1>1, <1>2 DEF Owners
  <2>2. ASSUME NEW i \in DOMAIN groups, call'[groups[i].owner].op = "create"
        PROVE  call'[groups[i].owner].at = "launching"
    BY <1>1, <1>2, <1>4, <2>2 DEF Owners
  <2>3. \A d \in Calls : call'[d].op = "create" => call'[d].request \in Requests
    BY <1>1, <1>2 DEF Owners
  <2>4. ASSUME NEW d \in Calls, call'[d].at = "launching"
        PROVE  d # c /\ call'[d] = call[d]
    BY <1>2, <2>4
  <2> QED BY <1>1, <1>2, <2>1, <2>2, <2>3, <2>4 DEF Owners
<1>6. \A i \in DOMAIN groups :
        call'[groups[i].owner].at = "launching" => call[groups[i].owner].at = "launching"
  BY <1>2, <1>4
<1>7. \A i \in DOMAIN groups : 1..Due(groups[i], call') \subseteq 1..Due(groups[i], call)
  BY <1>1, <1>6, DueShrinks
<1>8. Placed' /\ Totals'
  BY <1>1, <1>7, StillPlaced
<1> QED BY <1>3, <1>5, <1>8 DEF WindowInv, GivesTo

LEMMA FreedReservations ==
  ASSUME WindowTypes, NEW layout
  PROVE  /\ Freed(layout) \in [Layouts -> [base : Nat, total : Nat]]
         /\ \A l \in Layouts : Freed(layout)[l] \in {reservations[l], NoReservation}
<1>1. /\ reservations \in [Layouts -> [base : Nat, total : Nat]]
      /\ NoReservation \in [base : Nat, total : Nat]
  BY DEF WindowTypes, NoReservation
<1> QED BY <1>1 DEF Freed

(* Tiles are given out, or the call is over.                               *)
LEMMA ProceedWindows ==
  ASSUME ManagerInv, WindowInv, NEW c \in Calls, queue # <<>>, queue[1] = c,
         call[c].at \in {"waiting", "emptying"},
         call[c].op = "create" => \A i \in DOMAIN groups : groups[i].run # call[c].run,
         NEW res \in [Layouts -> [base : Nat, total : Nat]],
         \A l \in Layouts : res[l] \in {reservations[l], NoReservation},
         \A i \in DOMAIN groups :
           groups[i].layout # NoLayout => res[groups[i].layout] # NoReservation,
         Proceed(c, groups, res), dying' \in Group \cup {NoGroup},
         UNCHANGED <<recreation, lost>>
  PROVE  WindowInv' /\ GivesTo(c)
<1>1. LockOK /\ WindowTypes
  BY DEF ManagerInv, WindowInv
<1>2. CASE /\ call[c].op = "create"
           /\ \/ AllotInLayout(c, call[c].request, groups, res)
              \/ AllotFixed(c, call[c].request, groups, res)
              \/ AllotAmongAll(c, call[c].request, groups, res)
           /\ GoOn(c, "launching")
  <2>1. \A i \in DOMAIN groups : groups[i].run # call[c].request.run
    BY <1>1, <1>2 DEF LockOK
  <2> QED BY <1>2, <2>1, AllotKeeps
<1>3. CASE /\ groups' = groups /\ reservations' = res
           /\ Release(c)
           /\ UNCHANGED <<screen, mixed>>
  <2>1. /\ recreation' \in [Calls -> {NoRecreation} \cup Recreation]
        /\ lost' \in BOOLEAN
    BY <1>1 DEF WindowTypes
  <2> QED BY <1>3, <2>1, ReleaseWindows
<1> QED BY <1>2, <1>3 DEF Proceed

LEMMA EnterWindows ==
  ASSUME ManagerInv, WindowInv, NEW c \in Calls, Enter(c)
  PROVE  WindowInv' /\ GivesTo(c)
<1>1. /\ LockOK /\ IsGroups(groups) /\ ReservedWhileLive
      /\ WindowTypes /\ Owners /\ Totals /\ Placed
  BY DEF ManagerInv, WindowInv
<1>2. /\ queue # <<>> /\ queue[1] = c /\ call[c].at = "waiting"
      /\ UNCHANGED <<recreation, lost>>
  BY <1>1 DEF Enter, Holds, LockOK
<1>3. CASE /\ OfRun(call[c].run) = {}
           /\ Proceed(c, groups, reservations) /\ UNCHANGED dying
  <2>1. \A i \in DOMAIN groups : groups[i].run # call[c].run
    BY <1>3 DEF OfRun
  <2>2. /\ reservations \in [Layouts -> [base : Nat, total : Nat]]
        /\ dying' \in Group \cup {NoGroup}
        /\ \A i \in DOMAIN groups :
             groups[i].layout # NoLayout =>
               reservations[groups[i].layout] # NoReservation
    BY <1>1, <1>3 DEF ReservedWhileLive, WindowTypes
  <2> QED BY <1>2, <1>3, <2>1, <2>2, ProceedWindows
<1>4. ASSUME NEW k \in OfRun(call[c].run), dying' = groups[k],
             groups' = RemoveAt(groups, k), GoOn(c, "emptying"),
             UNCHANGED <<reservations, screen, mixed>>
      PROVE  WindowInv' /\ GivesTo(c)
  <2>1. k \in DOMAIN groups
    BY DEF OfRun
  <2>2. groups \in Seq(Group) /\ k \in 1..Len(groups) /\ groups[k] \in Group
    BY <1>1, <2>1 DEF WindowTypes
  <2>3. groups' \in Seq(Group)
    BY <1>4, <2>2, RemoveAtGap
  <2>4. /\ IsGroups(groups')
        /\ \A j \in DOMAIN groups' : \E i \in DOMAIN groups : i # k /\ groups'[j] = groups[i]
    BY <1>1, <1>4, <2>1, GroupsWithout
  <2>5. /\ call'[c] = [call[c] EXCEPT !.at = "emptying"]
        /\ \A d \in Calls : d # c => call'[d] = call[d]
    BY <1>1, <1>4 DEF GoOn, LockOK
  <2>6. call[c] \in CloseCall \/ call[c] \in CreateCall
    BY <1>1, <1>2, CallKinds
  <2>7. /\ call'[c].at = "emptying" /\ call'[c].op = call[c].op
        /\ call[c].op = "create" => call'[c].request = call[c].request
    <3>1. CASE call[c] \in CloseCall
      BY <2>5, <3>1 DEF CloseCall
    <3>2. CASE call[c] \in CreateCall
      BY <2>5, <3>2 DEF CreateCall
    <3> QED BY <2>6, <3>1, <3>2
  <2>8. \A j \in DOMAIN groups' : groups'[j].open <= Len(groups'[j].tiles)
    BY <1>1, <2>4 DEF WindowTypes
  <2>9. WindowTypes'
    BY <1>1, <1>2, <1>4, <2>2, <2>3, <2>8 DEF WindowTypes
  <2>10. \A i \in DOMAIN groups : groups[i].owner \in Calls
    BY <1>1, GroupFields DEF WindowTypes
  <2>11. Owners'
    <3>1. ASSUME NEW i \in DOMAIN groups', NEW j \in DOMAIN groups',
                 groups'[i].owner = groups'[j].owner
          PROVE  i = j
      <4>1. PICK x, y \in DOMAIN groups : groups'[i] = groups[x] /\ groups'[j] = groups[y]
        BY <2>4
      <4>2. x = y
        BY <1>1, <3>1, <4>1 DEF Owners
      <4> QED BY <2>4, <4>1, <4>2 DEF IsGroups
    <3>2. ASSUME NEW i \in DOMAIN groups', call'[groups'[i].owner].op = "create"
          PROVE  call'[groups'[i].owner].at = "launching"
      <4>1. PICK x \in DOMAIN groups : groups'[i] = groups[x]
        BY <2>4
      <4>2. call[groups[x].owner].op = "create" => call[groups[x].owner].at = "launching"
        BY <1>1 DEF Owners
      <4>3. CASE groups[x].owner = c
        BY <1>2, <2>7, <3>2, <4>1, <4>2, <4>3
      <4>4. CASE groups[x].owner # c
        BY <2>5, <2>10, <3>2, <4>1, <4>2, <4>4
      <4> QED BY <4>3, <4>4
    <3>3. ASSUME NEW d \in Calls, call'[d].op = "create"
          PROVE  call'[d].request \in Requests
      <4>1. \A e \in Calls : call[e].op = "create" => call[e].request \in Requests
        BY <1>1 DEF Owners
      <4>2. CASE d = c
        BY <2>7, <3>3, <4>1, <4>2
      <4>3. CASE d # c
        BY <2>5, <3>3, <4>1, <4>3
      <4> QED BY <4>2, <4>3
    <3>4. ASSUME NEW d \in Calls, call'[d].at = "launching" PROVE FALSE
      <4>1. d # c /\ call[d].at = "launching"
        BY <2>5, <2>7, <3>4
      <4>2. queue[1] = d
        BY <1>1, <4>1 DEF LockOK
      <4> QED BY <1>2, <4>1, <4>2
    <3> QED BY <3>1, <3>2, <3>3, <3>4 DEF Owners
  <2>12. \A i \in DOMAIN groups :
           call'[groups[i].owner].at = "launching" => call[groups[i].owner].at = "launching"
    BY <2>5, <2>7, <2>10
  <2>13. \A i \in DOMAIN groups : 1..Due(groups[i], call') \subseteq 1..Due(groups[i], call)
    BY <1>1, <2>12, DueShrinks
  <2>14. \A j \in DOMAIN groups' : \E i \in DOMAIN groups :
           /\ groups'[j] = groups[i]
           /\ 1..Due(groups'[j], call') \subseteq 1..Due(groups[i], call)
    BY <2>4, <2>13
  <2>15. Placed' /\ Totals'
    BY <1>1, <1>4, <2>14, StillPlaced
  <2> QED BY <2>4, <2>9, <2>11, <2>15 DEF WindowInv, GivesTo
<1> QED BY <1>2, <1>3, <1>4 DEF Enter

LEMMA EmptiedWindows ==
  ASSUME ManagerInv, WindowInv, NEW c \in Calls, Emptied(c)
  PROVE  WindowInv' /\ GivesTo(c)
<1>1. LockOK /\ Replaced /\ ReservedWhileLive /\ WindowTypes
  BY DEF ManagerInv, WindowInv
<1>2. /\ queue # <<>> /\ queue[1] = c /\ call[c].at = "emptying"
      /\ dying' \in Group \cup {NoGroup}
      /\ UNCHANGED <<recreation, lost>>
  BY <1>1 DEF Emptied, Holds, LockOK
<1> DEFINE res == Freed(dying.layout)
<1>3. /\ res \in [Layouts -> [base : Nat, total : Nat]]
      /\ \A l \in Layouts : res[l] \in {reservations[l], NoReservation}
  BY <1>1, FreedReservations
<1>4. \A i \in DOMAIN groups :
        groups[i].layout # NoLayout => res[groups[i].layout] # NoReservation
  <2>1. \A i \in DOMAIN groups : groups[i].layout \in Layouts \cup {NoLayout}
    BY <1>1, GroupFields DEF WindowTypes
  <2> QED BY <1>1, <2>1 DEF Freed, ReservedWhileLive, ManagerInv
<1> HIDE DEF res
<1>5. call[c].op = "create" => \A i \in DOMAIN groups : groups[i].run # call[c].run
  BY <1>1, <1>2 DEF Replaced
<1>6. Proceed(c, groups, res)
  BY DEF Emptied, res
<1> QED BY <1>2, <1>3, <1>4, <1>5, <1>6, ProceedWindows

LEMMA LaunchOneWindows ==
  ASSUME ManagerInv, WindowInv, NEW c \in Calls, LaunchOne(c)
  PROVE  WindowInv' /\ GivesTo(c)
<1>1. LockOK /\ WindowTypes /\ Owners /\ Totals /\ Placed
  BY DEF ManagerInv, WindowInv
<1>2. /\ queue # <<>> /\ queue[1] = c /\ call[c].at = "launching"
      /\ UNCHANGED <<dying, reservations, recreation, screen, mixed, lost>>
  BY <1>1 DEF LaunchOne, Holds, LockOK
<1>3. PICK m \in DOMAIN groups :
        /\ groups[m].owner = c /\ groups[m].open < call[c].request.count
        /\ Len(groups[m].tiles) = call[c].request.count
  BY <1>1, <1>2 DEF Owners
<1>4. Mine(c) = m
  BY <1>1, <1>3 DEF Mine, Owners
<1> DEFINE g == [groups[m] EXCEPT !.open = @ + 1]
<1>5. groups' = [groups EXCEPT ![m] = g]
  BY <1>4 DEF LaunchOne
<1>6. /\ groups \in Seq(Group)
      /\ groups[m] \in Group /\ groups[m].open \in Nat /\ Len(groups[m].tiles) \in Nat
      /\ \A i \in DOMAIN groups : groups[i].owner \in Calls
  BY <1>1, GroupFields DEF WindowTypes
<1>7. /\ g \in Group /\ g.open = groups[m].open + 1 /\ g.open <= Len(g.tiles)
      /\ g.run = groups[m].run /\ g.owner = c /\ g.layout = groups[m].layout
      /\ g.tiles = groups[m].tiles
  <2>1. /\ groups[m].run \in RunIds /\ groups[m].owner \in Calls
        /\ groups[m].layout \in Layouts \cup {NoLayout}
        /\ groups[m].tiles \in Seq(Places) /\ groups[m].stale \in SUBSET Nat
    BY <1>6, GroupFields
  <2>2. g = [run |-> groups[m].run, owner |-> groups[m].owner,
             open |-> groups[m].open + 1, layout |-> groups[m].layout,
             tiles |-> groups[m].tiles, stale |-> groups[m].stale]
    <3> DEFINE more == groups[m].open + 1
    <3>1. g = [groups[m] EXCEPT !.open = more]
      OBVIOUS
    <3> HIDE DEF more, g
    <3>2. g = [run |-> groups[m].run, owner |-> groups[m].owner, open |-> more,
               layout |-> groups[m].layout, tiles |-> groups[m].tiles,
               stale |-> groups[m].stale]
      BY <1>6, <3>1 DEF Group
    <3> QED BY <3>2 DEF more
  <2> HIDE DEF g
  <2>3. g \in Group
    BY <1>6, <2>1, <2>2 DEF Group
  <2>4. /\ g.open = groups[m].open + 1 /\ g.run = groups[m].run
        /\ g.owner = groups[m].owner /\ g.layout = groups[m].layout
        /\ g.tiles = groups[m].tiles
    BY <2>2
  <2>5. g.open <= Len(g.tiles)
    BY <1>3, <1>6, <2>4
  <2> QED BY <1>3, <2>3, <2>4, <2>5
<1> HIDE DEF g
<1>8. /\ groups' \in Seq(Group) /\ DOMAIN groups' = DOMAIN groups
      /\ groups'[m] = g /\ \A i \in DOMAIN groups : i # m => groups'[i] = groups[i]
  BY <1>5, <1>6, <1>7
<1>9. WindowTypes'
  BY <1>1, <1>2, <1>7, <1>8 DEF WindowTypes
<1>10. \A i \in DOMAIN groups : groups'[i].owner = groups[i].owner
  BY <1>3, <1>7, <1>8
<1>11. \A i \in DOMAIN groups : i # m => groups[i].owner # c
  BY <1>1, <1>3 DEF Owners
<1>12. \/ /\ g.open = call[c].request.count
          /\ call'[c].at = "away" /\ call'[c].op = "none"
          /\ \A d \in Calls : d # c => call'[d] = call[d]
       \/ g.open # call[c].request.count /\ UNCHANGED call
  <2>1. CASE groups[m].open + 1 = call[c].request.count
    BY <1>1, <1>4, <1>7, <2>1, ReleaseLock DEF LaunchOne, NoCall
  <2>2. CASE groups[m].open + 1 # call[c].request.count
    BY <1>4, <1>7, <2>2 DEF LaunchOne
  <2> QED BY <2>1, <2>2
<1>13. Owners'
  <2>1. \A i, j \in DOMAIN groups' : groups'[i].owner = groups'[j].owner => i = j
    BY <1>1, <1>8, <1>10 DEF Owners
  <2>2. ASSUME NEW i \in DOMAIN groups', call'[groups'[i].owner].op = "create"
        PROVE  call'[groups'[i].owner].at = "launching"
    BY <1>1, <1>6, <1>8, <1>10, <1>12, <2>2 DEF Owners
  <2>3. \A d \in Calls : call'[d].op = "create" => call'[d].request \in Requests
    BY <1>1, <1>12 DEF Owners
  <2>4. ASSUME NEW d \in Calls, call'[d].at = "launching"
        PROVE  \E i \in DOMAIN groups' :
                 /\ groups'[i].owner = d /\ groups'[i].open < call'[d].request.count
                 /\ Len(groups'[i].tiles) = call'[d].request.count
    <3>1. call[d].at = "launching"
      BY <1>12, <2>4
    <3>2. d = c
      BY <1>1, <1>2, <3>1 DEF LockOK
    <3>3. g.open # call[c].request.count /\ UNCHANGED call
      BY <1>12, <2>4, <3>2
    <3>4. g.open < call[c].request.count
      BY <1>3, <1>6, <1>7, <3>3
    <3> QED BY <1>3, <1>7, <1>8, <3>2, <3>3, <3>4
  <2> QED BY <2>1, <2>2, <2>3, <2>4 DEF Owners
<1>14. ASSUME NEW i \in DOMAIN groups
       PROVE  1..Due(groups'[i], call') \subseteq 1..Due(groups[i], call)
  <2>1. CASE i = m
    <3>1. Due(groups[i], call) = Len(g.tiles)
      BY <1>2, <1>3, <1>7, <2>1 DEF Due
    <3>2. Due(groups'[i], call') = Len(g.tiles)
      BY <1>2, <1>3, <1>7, <1>8, <1>12, <2>1 DEF Due
    <3> QED BY <3>1, <3>2
  <2>2. CASE i # m
    <3>1. call'[groups[i].owner] = call[groups[i].owner]
      BY <1>6, <1>11, <1>12, <2>2
    <3> QED BY <1>8, <2>2, <3>1 DEF Due
  <2> QED BY <2>1, <2>2
<1>15. \A i \in DOMAIN groups' :
         /\ groups'[i].run = groups[i].run /\ groups'[i].layout = groups[i].layout
         /\ groups'[i].tiles = groups[i].tiles
  BY <1>7, <1>8
<1>16. Placed' /\ Totals'
  BY <1>1, <1>2, <1>8, <1>14, <1>15, StillPlaced
<1> QED BY <1>8, <1>9, <1>10, <1>13, <1>16 DEF WindowInv, GivesTo

(* A window is replaced: its group may be told that it is not in its tile. *)
LEMMA RecreateWindows ==
  ASSUME ManagerInv, WindowInv, NEW c \in Calls, NEW run,
         RecreateBegins(c, run) \/ RecreateReturns(c) \/ RecreateFails(c)
  PROVE  WindowInv' /\ GivesTo(c)
<1>1. WindowTypes /\ Owners /\ Totals /\ Placed
  BY DEF WindowInv
<1>2. UNCHANGED <<call, dying, reservations, screen, mixed>>
  BY DEF RecreateBegins, RecreateReturns, RecreateFails
<1>3. groups \in Seq(Group) /\ recreation \in [Calls -> {NoRecreation} \cup Recreation]
  BY <1>1 DEF WindowTypes
<1>4. recreation' \in [Calls -> {NoRecreation} \cup Recreation]
  <2>1. CASE RecreateBegins(c, run)
    <3>0. PICK i \in DOMAIN groups : \E index \in 1..groups[i].open :
            recreation' = [recreation EXCEPT ![c] =
                             [owner |-> groups[i].owner, index |-> index,
                              tile |-> groups[i].tiles[index]]]
      BY <2>1 DEF RecreateBegins, OfRun
    <3>1. PICK index \in 1..groups[i].open :
            recreation' = [recreation EXCEPT ![c] =
                             [owner |-> groups[i].owner, index |-> index,
                              tile |-> groups[i].tiles[index]]]
      BY <3>0
    <3>2. /\ groups[i].owner \in Calls /\ groups[i].tiles \in Seq(Places)
          /\ groups[i].open \in Nat /\ groups[i].open <= Len(groups[i].tiles)
      BY <1>1, <1>3, GroupFields DEF WindowTypes
    <3>3. index \in Nat /\ groups[i].tiles[index] \in Places
      <4>1. index \in 1..Len(groups[i].tiles)
        BY <3>2
      <4> QED BY <3>2, <4>1
    <3> QED BY <1>3, <3>1, <3>2, <3>3 DEF Recreation
  <2>2. CASE RecreateReturns(c) \/ RecreateFails(c)
    BY <1>3, <2>2 DEF RecreateReturns, RecreateFails
  <2> QED BY <2>1, <2>2
<1>5. lost' \in BOOLEAN
  BY <1>1 DEF WindowTypes, RecreateBegins, RecreateReturns, RecreateFails
<1>6. \/ UNCHANGED groups
      \/ \E m \in DOMAIN groups : \E t \in SUBSET Nat :
           groups' = [groups EXCEPT ![m].stale = t]
  <2>1. CASE RecreateBegins(c, run) \/ RecreateFails(c)
    BY <2>1 DEF RecreateBegins, RecreateFails
  <2>2. ASSUME RecreateReturns(c), NEW m \in DOMAIN groups,
               groups' = [groups EXCEPT ![m].stale =
                            IF recreation[c].tile = groups[m].tiles[recreation[c].index]
                            THEN @ \ {recreation[c].index}
                            ELSE @ \cup {recreation[c].index}]
        PROVE  \E t \in SUBSET Nat : groups' = [groups EXCEPT ![m].stale = t]
    <3> DEFINE t == IF recreation[c].tile = groups[m].tiles[recreation[c].index]
                    THEN groups[m].stale \ {recreation[c].index}
                    ELSE groups[m].stale \cup {recreation[c].index}
    <3>1. recreation[c].index \in Nat
      BY <1>3, <2>2 DEF RecreateReturns, Recreation
    <3>2. groups[m].stale \in SUBSET Nat
      BY <1>3, GroupFields
    <3>3. t \in SUBSET Nat
      BY <3>1, <3>2
    <3>4. groups' = [groups EXCEPT ![m].stale = t]
      BY <2>2
    <3> QED BY <3>3, <3>4
  <2> QED BY <2>1, <2>2 DEF RecreateReturns
<1>7. /\ groups' \in Seq(Group) /\ DOMAIN groups' = DOMAIN groups
      /\ \A i \in DOMAIN groups :
           /\ groups'[i].run = groups[i].run /\ groups'[i].owner = groups[i].owner
           /\ groups'[i].open = groups[i].open /\ groups'[i].layout = groups[i].layout
           /\ groups'[i].tiles = groups[i].tiles
  <2>1. CASE UNCHANGED groups
    BY <1>3, <2>1
  <2>2. ASSUME NEW m \in DOMAIN groups, NEW t \in SUBSET Nat,
               groups' = [groups EXCEPT ![m].stale = t]
        PROVE  /\ groups' \in Seq(Group) /\ DOMAIN groups' = DOMAIN groups
               /\ \A i \in DOMAIN groups :
                    /\ groups'[i].run = groups[i].run /\ groups'[i].owner = groups[i].owner
                    /\ groups'[i].open = groups[i].open
                    /\ groups'[i].layout = groups[i].layout
                    /\ groups'[i].tiles = groups[i].tiles
    <3> DEFINE g == [groups[m] EXCEPT !.stale = t]
    <3>1. groups' = [groups EXCEPT ![m] = g]
      BY <2>2
    <3>2. /\ groups[m] \in Group
          /\ groups[m].run \in RunIds /\ groups[m].owner \in Calls
          /\ groups[m].open \in Nat /\ groups[m].layout \in Layouts \cup {NoLayout}
          /\ groups[m].tiles \in Seq(Places)
      BY <1>3, GroupFields
    <3>3. g = [run |-> groups[m].run, owner |-> groups[m].owner,
               open |-> groups[m].open, layout |-> groups[m].layout,
               tiles |-> groups[m].tiles, stale |-> t]
      BY <3>2 DEF Group
    <3> HIDE DEF g
    <3>4. g \in Group
      BY <3>2, <3>3 DEF Group
    <3>5. /\ g.open = groups[m].open /\ g.run = groups[m].run
          /\ g.owner = groups[m].owner /\ g.layout = groups[m].layout
          /\ g.tiles = groups[m].tiles
      BY <3>3
    <3>6. /\ groups' \in Seq(Group) /\ DOMAIN groups' = DOMAIN groups
          /\ groups'[m] = g /\ \A i \in DOMAIN groups : i # m => groups'[i] = groups[i]
      BY <1>3, <3>1, <3>4
    <3> QED BY <3>5, <3>6
  <2> QED BY <1>6, <2>1, <2>2
<1>8. WindowTypes'
  <2>1. \A i \in DOMAIN groups' : groups'[i].open <= Len(groups'[i].tiles)
    BY <1>1, <1>7 DEF WindowTypes
  <2> QED BY <1>1, <1>2, <1>4, <1>5, <1>7, <2>1 DEF WindowTypes
<1>9. Owners'
  BY <1>1, <1>2, <1>7 DEF Owners
<1>10. \A i \in DOMAIN groups : 1..Due(groups'[i], call') \subseteq 1..Due(groups[i], call)
  BY <1>2, <1>7 DEF Due
<1>11. Placed' /\ Totals'
  BY <1>1, <1>2, <1>7, <1>10, StillPlaced
<1> QED BY <1>7, <1>8, <1>9, <1>11 DEF WindowInv, GivesTo

LEMMA SameWindows ==
  ASSUME WindowInv, UNCHANGED manager
  PROVE  WindowInv' /\ UNCHANGED groups
<1>1. UNCHANGED <<call, groups, dying, reservations, recreation, screen, mixed, lost>>
  BY DEF manager
<1>2. WindowTypes' /\ Owners' /\ Totals'
  BY <1>1 DEF WindowInv, WindowTypes, Owners, Totals
<1>3. Placed'
  BY <1>1 DEF WindowInv, Placed
<1> QED BY <1>1, <1>2, <1>3 DEF WindowInv

LEMMA CutWindows ==
  ASSUME ManagerInv, WindowInv, NEW c \in Calls, LaunchFails(c) \/ Cut(c)
  PROVE  WindowInv' /\ GivesTo(c)
<1>1. WindowTypes
  BY DEF WindowInv
<1>2. /\ Release(c) /\ UNCHANGED <<groups, screen, mixed, reservations>>
      /\ dying' \in {dying, NoGroup}
      /\ recreation' = recreation \/ recreation' = [recreation EXCEPT ![c] = NoRecreation]
      /\ lost' \in BOOLEAN
  <2>1. CASE LaunchFails(c)
    BY <1>1, <2>1 DEF LaunchFails, WindowTypes
  <2>2. CASE Cut(c)
    <3>1. lost' \in BOOLEAN
      BY <1>1, <2>2 DEF Cut, WindowTypes
    <3> QED BY <2>2, <3>1 DEF Cut
  <2> QED BY <2>1, <2>2
<1>3. /\ reservations' \in [Layouts -> [base : Nat, total : Nat]]
      /\ dying' \in Group \cup {NoGroup}
      /\ recreation' \in [Calls -> {NoRecreation} \cup Recreation]
  BY <1>1, <1>2 DEF WindowTypes
<1> QED BY <1>2, <1>3, ReleaseWindows

-----------------------------------------------------------------------------
(* The windows of the server.                                              *)

(* A group is of an execution that has called create_contexts.             *)
Started ==
  \A i \in DOMAIN groups :
    /\ groups[i].owner \in Executions
    /\ execution[groups[i].owner].at \notin {"none", "starting"}

LEMMA InitWindows == Init => WindowInv /\ Started
<1> SUFFICES ASSUME Init PROVE WindowInv /\ Started
  OBVIOUS
<1>1. /\ groups = <<>> /\ dying = NoGroup /\ ~mixed /\ ~lost
      /\ mixed \in BOOLEAN /\ lost \in BOOLEAN
      /\ call = [c \in Calls |-> NoCall]
      /\ reservations = [l \in Layouts |-> NoReservation]
      /\ recreation = [c \in Calls |-> NoRecreation]
      /\ screen = "plain"
  BY DEF Init, ManagerInit
<1>2. WindowTypes
  BY <1>1 DEF WindowTypes, NoReservation
<1>3. Owners
  BY <1>1 DEF Owners, NoCall
<1>4. Totals /\ Placed /\ Started
  BY <1>1 DEF Totals, Placed, Spread, InLayout, Started
<1> QED BY <1>2, <1>3, <1>4 DEF WindowInv

LEMMA AskCloseWindows ==
  ASSUME ManagerInv, WindowInv, NEW c \in Calls, NEW run, AskClose(c, run)
  PROVE  WindowInv' /\ GivesTo(c)
<1> DEFINE what == [op |-> "close", at |-> "waiting", run |-> run]
<1>1. Ask(c, what) /\ what.at = "waiting" /\ what.op # "create"
  BY DEF AskClose
<1> HIDE DEF what
<1> QED BY <1>1, AskWindows

(* Every step is one of the manager's, or leaves it alone.                 *)
LEMMA WindowStep ==
  ASSUME ServerInv, WindowInv, Started, [Next]_vars
  PROVE  WindowInv' /\ \E c \in Calls : GivesTo(c)
<1>1. /\ ManagerInv /\ RegistryOK /\ Handler \in Calls
      /\ \A e \in Executions : e \in Calls
  BY ServerAssumption DEF ServerInv
<1>2. ASSUME UNCHANGED manager PROVE WindowInv' /\ GivesTo(Handler)
  BY <1>2, SameWindows DEF GivesTo
<1>3. ASSUME NEW e \in Executions, Execute(e) PROVE WindowInv' /\ \E c \in Calls : GivesTo(c)
  <2>1. CASE Start(e) \/ Raise(e) \/ Cleanup(e)
    BY <1>1, <1>2, <2>1 DEF Start, Raise, Cleanup
  <2>2. CASE Begin(e)
    <3> DEFINE request == execution[e].request
               what == [op |-> "create", at |-> "waiting", run |-> request.run,
                        request |-> request]
    <3>1. Ask(e, what) /\ At(e, "starting")
      BY <2>2 DEF Begin, AskCreate
    <3>2. request \in Requests
      BY <1>1, <3>1 DEF RegistryOK, At, NoExecution
    <3>3. \A i \in DOMAIN groups : groups[i].owner # e
      BY <3>1 DEF Started, At
    <3>4. what.at = "waiting" /\ what.request = request
      OBVIOUS
    <3> HIDE DEF what, request
    <3> QED BY <1>1, <3>1, <3>2, <3>3, <3>4, AskWindows
  <2>3. CASE Create(e)
    BY <1>1, <2>3, EnterWindows, EmptiedWindows, LaunchOneWindows, CutWindows DEF Create
  <2>4. CASE Recreate(e)
    BY <1>1, <2>4, RecreateWindows DEF Recreate
  <2>5. CASE Finish(e)
    BY <1>1, <2>5, AskCloseWindows DEF Finish
  <2>6. CASE End(e)
    BY <1>1, <2>6, EnterWindows, EmptiedWindows DEF End
  <2> QED BY <1>3, <2>1, <2>2, <2>3, <2>4, <2>5, <2>6 DEF Execute
<1>4. CASE BeginStop \/ BeginCloseAll \/ ListGroups \/ Return \/ UNCHANGED vars
  BY <1>1, <1>2, <1>4 DEF BeginStop, BeginCloseAll, ListGroups, Return, vars
<1>5. CASE CancelRun
  BY <1>1, <1>5, AskCloseWindows DEF CancelRun
<1>6. CASE CloseNext
  BY <1>1, <1>6, AskCloseWindows DEF CloseNext
<1>7. CASE CloseGroup
  BY <1>1, <1>7, EnterWindows, EmptiedWindows DEF CloseGroup
<1>8. CASE CancelTask
  <2>0. PICK t : t = task[stopping.now]
    OBVIOUS
  <2>1. \/ t # None /\ Alive(t) /\ Cut(t)
        \/ UNCHANGED manager
    BY <1>8, <2>0 DEF CancelTask
  <2>2. CASE t # None /\ Alive(t) /\ Cut(t)
    <3>1. stopping.now \in RunIds
      BY <1>1, <1>8 DEF CancelTask, RegistryOK
    <3>2. t \in Calls
      BY <1>1, <2>0, <2>2, <3>1 DEF RegistryOK
    <3> QED BY <1>1, <2>2, <3>2, CutWindows
  <2> QED BY <1>1, <1>2, <2>1, <2>2
<1> QED BY <1>3, <1>4, <1>5, <1>6, <1>7, <1>8 DEF Next, Stop

(* An execution does not go back.                                          *)
LEMMA ExecutionsGoOn ==
  ASSUME ServerInv, [Next]_vars, NEW e \in Executions,
         execution[e].at \notin {"none", "starting"}
  PROVE  execution'[e].at \notin {"none", "starting"}
<1>1. RegistryOK
  BY DEF ServerInv
<1>2. ASSUME NEW d \in Executions, execution[d] # NoExecution,
             NEW where \in {"creating", "working", "ending", "over", "gone"},
             Move(d, where)
      PROVE  execution'[e].at \notin {"none", "starting"}
  <2>1. At(d, where)' /\ \A x \in Executions : x # d => execution'[x] = execution[x]
    BY <1>1, <1>2, Moved
  <2>2. CASE e = d
    BY <2>1, <2>2 DEF At
  <2>3. CASE e # d
    BY <2>1, <2>3
  <2> QED BY <2>2, <2>3
<1>3. ASSUME NEW d \in Executions, execution[d].at # "none" PROVE execution[d] # NoExecution
  BY <1>3 DEF NoExecution
<1>4. ASSUME NEW d \in Executions, Execute(d)
      PROVE  execution'[e].at \notin {"none", "starting"}
  <2>1. CASE Start(d)
    <3>1. execution[d].at = "none"
      BY <2>1 DEF Start, NoExecution
    <3>2. d # e
      BY <3>1
    <3>3. execution'[e] = execution[e]
      BY <1>1, <2>1, <3>2 DEF Start, RegistryOK
    <3> QED BY <3>3
  <2>2. CASE UNCHANGED execution
    BY <2>2
  <2>3. CASE ~Start(d) /\ ~UNCHANGED execution
    <3>1. execution[d].at # "none"
      BY <1>4, <2>3
         DEF Execute, Begin, Create, Recreate, Finish, Raise, End, Cleanup, At
    <3>2. \E where \in {"creating", "working", "ending", "over", "gone"} : Move(d, where)
      BY <1>4, <2>3
         DEF Execute, Begin, Create, Recreate, Finish, Raise, End, Cleanup
    <3> QED BY <1>2, <1>3, <3>1, <3>2
  <2> QED BY <2>1, <2>2, <2>3
<1>5. CASE CancelTask
  <2>0. PICK t : t = task[stopping.now]
    OBVIOUS
  <2>1. \/ t # None /\ Alive(t) /\ Move(t, "over")
        \/ UNCHANGED execution
    BY <1>5, <2>0 DEF CancelTask
  <2>2. CASE t # None /\ Alive(t) /\ Move(t, "over")
    <3>1. stopping.now \in RunIds
      BY <1>1, <1>5 DEF CancelTask, RegistryOK
    <3>2. t \in Executions
      BY <1>1, <2>0, <2>2, <3>1 DEF RegistryOK
    <3>3. execution[t] # NoExecution
      BY <2>2 DEF Alive, NoExecution
    <3> QED BY <1>2, <2>2, <3>2, <3>3
  <2> QED BY <2>1, <2>2
<1>6. CASE UNCHANGED execution
  BY <1>6
<1>7. \/ \E d \in Executions : Execute(d)
      \/ CancelTask
      \/ UNCHANGED execution
  BY DEF Next, Stop, BeginStop, BeginCloseAll, CancelRun, CloseGroup, ListGroups,
         CloseNext, Return, vars, registry
<1> QED BY <1>4, <1>5, <1>6, <1>7

LEMMA WindowsKeep ==
  ASSUME ServerInv, WindowInv, Started, [Next]_vars
  PROVE  WindowInv' /\ Started'
<1>1. PICK c \in Calls : GivesTo(c)
  BY WindowStep
<1>2. ASSUME NEW j \in DOMAIN groups'
      PROVE  /\ groups'[j].owner \in Executions
             /\ execution'[groups'[j].owner].at \notin {"none", "starting"}
  <2>1. CASE groups'[j].owner = c /\ call[c].op = "create"
    <3>1. c \in Executions /\ At(c, "creating")
      <4>1. call[c] # NoCall
        BY <2>1 DEF NoCall
      <4> QED BY <2>1, <4>1, ServerAssumption DEF ServerInv, CallsOK
    <3> QED BY <2>1, <3>1, ExecutionsGoOn DEF At
  <2>2. ASSUME NEW i \in DOMAIN groups, groups'[j].owner = groups[i].owner
        PROVE  /\ groups'[j].owner \in Executions
               /\ execution'[groups'[j].owner].at \notin {"none", "starting"}
    BY <2>2, ExecutionsGoOn DEF Started
  <2> QED BY <1>1, <2>1, <2>2 DEF GivesTo
<1> QED BY <1>2, WindowStep DEF Started

(* What is known of windows, their owners and their places in every state. *)
THEOREM WindowInvariant == Spec => [](WindowInv /\ Started)
<1>1. ServerInv /\ WindowInv /\ Started /\ [Next]_vars => (WindowInv /\ Started)'
  BY WindowsKeep
<1> QED BY <1>1, InitWindows, ServerInvariant, PTL DEF Spec

(* Every variable of the manager and of the server keeps its type,         *)
(* whatever the order in which runs start, end, fail and are stopped: a    *)
(* group that create_contexts fills or close_contexts empties is still one,*)
(* its tiles are tiles, what is reserved is a number of windows.           *)
THEOREM TypeCorrect == Spec => []TypeOK
<1>1. ASSUME ServerInv, WindowInv PROVE TypeOK
  <2>1. LockOK /\ RegistryOK /\ WindowTypes
    BY <1>1 DEF ServerInv, ManagerInv, WindowInv
  <2>2. ASSUME NEW c \in Calls
        PROVE  \/ call[c] = NoCall
               \/ call[c].op = "close" /\ call[c].at \in {"waiting", "emptying"}
                  /\ call[c].run \in RunIds \cup {Default}
               \/ /\ call[c].op = "create"
                  /\ call[c].at \in {"waiting", "emptying", "launching"}
                  /\ call[c].request \in Request
    BY <2>1, CallKinds DEF CloseCall, CreateCall
  <2>3. ASSUME NEW c \in Calls
        PROVE  \/ recreation[c] = NoRecreation
               \/ recreation[c] \in [owner : Calls, index : Nat, tile : Places]
    BY <2>1 DEF WindowTypes, Recreation
  <2>4. ManagerTypeOK
    BY <2>1, <2>2, <2>3 DEF ManagerTypeOK, LockOK, WindowTypes
  <2>5. ASSUME NEW e \in Executions
        PROVE  \/ execution[e] = NoExecution
               \/ /\ execution[e].at \in {"starting", "creating", "working", "ending",
                                         "over", "gone"}
                  /\ execution[e].begun \in BOOLEAN
                  /\ execution[e].request \in Requests
    BY <2>1 DEF RegistryOK
  <2> QED BY <2>1, <2>4, <2>5 DEF TypeOK, RegistryOK
<1> QED BY <1>1, ServerInvariant, WindowInvariant, PTL

(* Every monitor has room for its share of the windows, however many they  *)
(* were when they were tiled.                                              *)
Roomy ==
  \A i \in DOMAIN groups : \A v \in 1..groups[i].open :
    HasRoom(groups[i].tiles[v][1])

LEMMA Apart ==
  ASSUME MonitorsApart, ServerInv, WindowInv, Roomy
  PROVE  TilesApart
<1>1. /\ groups \in Seq(Group)
      /\ \A i \in DOMAIN groups : groups[i].open <= Len(groups[i].tiles)
      /\ \A i, j \in DOMAIN groups : groups[i].run = groups[j].run => i = j
  BY DEF WindowInv, WindowTypes, ServerInv, ManagerInv, IsGroups
<1>2. ASSUME NEW i \in DOMAIN groups, NEW v \in 1..groups[i].open
      PROVE  groups[i].tiles[v] \in Places /\ v \in 1..Due(groups[i], call)
  <2>1. /\ groups[i].open \in Nat /\ groups[i].tiles \in Seq(Places)
        /\ Len(groups[i].tiles) \in Nat
    BY <1>1, GroupFields
  <2>2. v \in 1..Len(groups[i].tiles)
    BY <1>1, <2>1
  <2> QED BY <2>1, <2>2 DEF Due
<1> SUFFICES ASSUME ~mixed,
                    NEW i \in DOMAIN groups, NEW j \in DOMAIN groups,
                    NEW v \in 1..groups[i].open, NEW w \in 1..groups[j].open,
                    <<i, v>> # <<j, w>>
             PROVE  Clear(groups[i].tiles[v], groups[j].tiles[w])
  BY DEF TilesApart
<1> DEFINE p == groups[i].tiles[v]
           q == groups[j].tiles[w]
<1>3. groups[i].run # groups[j].run \/ v # w
  BY <1>1
<1>4. p[1] = q[1] /\ p[2] # q[2]
  BY <1>2, <1>3 DEF WindowInv, Placed, Spread
<1>5. p \in Places /\ q \in Places /\ HasRoom(p[1])
  BY <1>2 DEF Roomy
<1> HIDE DEF p, q
<1>6. p[1] \in Nat /\ p[2] \in 0..(p[1] - 1) /\ q[2] \in 0..(p[1] - 1)
  BY <1>4, <1>5 DEF Places
<1>7. Disjoint(Tile(p[1], p[2]), Tile(p[1], q[2]))
  BY <1>4, <1>5, <1>6, TilesDisjoint
<1>8. Clear(p, q)
  BY <1>4, <1>7 DEF Clear
<1> QED BY <1>8 DEF p, q

(* create_contexts puts no two windows over each other, of whichever runs, *)
(* launched in whatever order: on monitors that show different pixels and, *)
(* where there are several, have room for their share of the windows.      *)
THEOREM WindowsApart ==
  ASSUME MonitorsApart
  PROVE  Spec => [](Roomy => TilesApart)
<1>1. ServerInv /\ WindowInv => (Roomy => TilesApart)
  BY Apart
<1> QED BY <1>1, ServerInvariant, WindowInvariant, PTL

(* On one monitor, however small and with however many windows.            *)
THEOREM OneMonitorApart ==
  ASSUME Len(Monitors) = 1
  PROVE  Spec => []TilesApart
<1>1. MonitorsApart
  BY MonitorCount DEF MonitorsApart
<1>2. Roomy
  BY DEF Roomy, HasRoom
<1>3. ServerInv /\ WindowInv => TilesApart
  BY <1>1, <1>2, Apart
<1> QED BY <1>3, ServerInvariant, WindowInvariant, PTL
=============================================================================
