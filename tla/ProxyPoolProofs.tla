--------------------------- MODULE ProxyPoolProofs ---------------------------
(***************************************************************************)
(* Proofs about ProxyPool, for every set of servers and windows, cap and   *)
(* latency: the entries stay coherent and the pool stays within its cap.   *)
(***************************************************************************)
EXTENDS ProxyPool, FiniteSetTheorems, TLAPS

(* What FailuresMatch and LatencyIsOfHealthy say of one entry.             *)
Coherent(e) ==
  /\ e \in Entry
  /\ e.healthy <=> e.fails < MaxFailCount
  /\ e.latency # Unknown => e.healthy
  /\ e.standing = "cooling" => ~e.healthy

CoherentPool(p) ==
  /\ DOMAIN p \subseteq Servers
  /\ p = [s \in DOMAIN p |-> p[s]]
  /\ \A s \in DOMAIN p : Coherent(p[s])

(* The round checks entries of the pool only.                              *)
RoundOK ==
  /\ round \in [phase   : {"idle", "checking", "writing", "loading", "testing"},
                owner   : {"none", "loop", "request"},
                servers : SUBSET Servers]
  /\ round.phase = "checking" => round.servers \subseteq DOMAIN pool

(* The inductive invariant.                                                *)
PoolInv ==
  /\ CoherentPool(pool)
  /\ PoolCapped
  /\ cap \in Nat \ {0}
  /\ limit \in Nat
  /\ refreshing \in BOOLEAN
  /\ RoundOK
  /\ using \in [Windows -> Servers \cup {Direct}]

-----------------------------------------------------------------------------
(* Max and Min of FiniteSetsExt, of two numbers.                           *)
LEMMA MaxOfTwo ==
  ASSUME NEW a \in Nat, NEW b \in Nat
  PROVE  Max({a, b}) \in {a, b} /\ Max({a, b}) >= a /\ Max({a, b}) >= b
<1>1. \E x \in {a, b} : \A y \in {a, b} : x >= y
  <2>1. CASE a >= b  BY <2>1
  <2>2. CASE b >= a  BY <2>2
  <2> QED  BY <2>1, <2>2
<1> QED  BY <1>1 DEF Max

LEMMA MinOfTwo ==
  ASSUME NEW a \in Nat, NEW b \in Nat
  PROVE  Min({a, b}) \in {a, b} /\ Min({a, b}) <= a /\ Min({a, b}) <= b
<1>1. \E x \in {a, b} : \A y \in {a, b} : x <= y
  <2>1. CASE a <= b  BY <2>1
  <2>2. CASE b <= a  BY <2>2
  <2> QED  BY <2>1, <2>2
<1> QED  BY <1>1 DEF Min

(* A part of a coherent pool is coherent.                                  *)
LEMMA RestrictCoherent ==
  ASSUME NEW p, CoherentPool(p), NEW K, K \subseteq DOMAIN p
  PROVE  CoherentPool(Restrict(p, K)) /\ DOMAIN Restrict(p, K) = K
<1>1. Restrict(p, K) = [s \in K |-> p[s]]
  BY DEF Restrict
<1>2. DOMAIN Restrict(p, K) = K /\ \A s \in K : Restrict(p, K)[s] = p[s]
  BY <1>1
<1> QED  BY <1>1, <1>2 DEF CoherentPool

(* Trimming keeps the pool coherent and brings it under the cap.           *)
LEMMA TrimsCoherent ==
  ASSUME NEW p, CoherentPool(p), NEW n \in Nat, NEW q \in Trims(p, n)
  PROVE  CoherentPool(q) /\ Cardinality(DOMAIN q) <= n
<1>1. PICK K \in Best(p, n) : q = Restrict(p, K)
  BY DEF Trims
<1>2. K \subseteq DOMAIN p /\ Cardinality(K) <= n
  BY <1>1 DEF Best
<1> QED  BY <1>1, <1>2, RestrictCoherent

(* add_proxies keeps the pool coherent and under the cap, when the new     *)
(* entries are.                                                            *)
LEMMA MergesCoherent ==
  ASSUME CoherentPool(pool), cap \in Nat, NEW new, CoherentPool(new),
         NEW q \in Merges(new)
  PROVE  CoherentPool(q) /\ Cardinality(DOMAIN q) <= cap
<1> DEFINE both == [s \in DOMAIN pool \cup DOMAIN new |->
                      IF s \in DOMAIN pool THEN pool[s] ELSE new[s]]
<1>1. CoherentPool(both)
  <2>1. DOMAIN both \subseteq Servers
    BY DEF CoherentPool
  <2>2. \A s \in DOMAIN both : Coherent(both[s])
    BY DEF CoherentPool
  <2>3. both = [s \in DOMAIN both |-> both[s]]
    OBVIOUS
  <2> HIDE DEF both
  <2> QED  BY <2>1, <2>2, <2>3 DEF CoherentPool
<1>2. q \in Trims(both, cap)
  BY DEF Merges
<1> HIDE DEF both
<1> QED  BY <1>1, <1>2, TrimsCoherent

(* A new entry is coherent.                                                *)
LEMMA FreshCoherent ==
  ASSUME NEW source \in {"manual", "xlsx"},
         NEW latency \in Latencies \cup {Unknown}
  PROVE  Coherent(Fresh(source, latency))
BY PoolAssumption DEF Coherent, Fresh, Entry

(* A check leaves a coherent entry coherent, whatever it finds.            *)
LEMMA CheckedCoherent ==
  ASSUME NEW e, Coherent(e), NEW latency \in Latencies \cup {Unknown}
  PROVE  Coherent(Checked(e, latency))
<1>1. CASE latency # Unknown
  <2>1. Checked(e, latency) =
          [e EXCEPT !.healthy = TRUE, !.fails = 0, !.latency = latency,
                    !.standing = "clear"]
    BY <1>1 DEF Checked
  <2>2. 0 \in 0..MaxFailCount /\ 0 < MaxFailCount
    BY PoolAssumption
  <2> QED  BY <2>1, <2>2 DEF Coherent, Entry
<1>2. CASE latency = Unknown
  <2> DEFINE fails == Min({e.fails + 1, MaxFailCount})
  <2>1. e.fails \in Nat /\ MaxFailCount \in Nat /\ e.fails <= MaxFailCount
    BY PoolAssumption DEF Coherent, Entry
  <2>2. /\ fails \in {e.fails + 1, MaxFailCount}
        /\ fails <= e.fails + 1 /\ fails <= MaxFailCount
    BY <2>1, MinOfTwo
  <2>3. Checked(e, latency) =
          [e EXCEPT !.healthy = @ /\ fails < MaxFailCount, !.fails = fails,
                    !.latency = Unknown]
    BY <1>2 DEF Checked
  <2>4. fails \in 0..MaxFailCount
    BY <2>1, <2>2
  <2>5. ~e.healthy => ~(fails < MaxFailCount)
    BY <2>1, <2>2 DEF Coherent
  <2> HIDE DEF fails
  <2> QED  BY <2>3, <2>4, <2>5 DEF Coherent, Entry
<1> QED  BY <1>1, <1>2

-----------------------------------------------------------------------------
LEMMA InitCoherent == Init => PoolInv
<1> SUFFICES ASSUME Init  PROVE PoolInv
  OBVIOUS
<1> USE DEF Init
<1>1. cap \in Nat \ {0}
  <2>1. PICK n \in Caps : cap = Max({1, n})
    OBVIOUS
  <2>2. n \in Nat
    BY PoolAssumption
  <2> QED  BY <2>1, <2>2, MaxOfTwo
<1>2. CoherentPool(pool) /\ PoolCapped
  <2>1. PICK S \in SUBSET Servers :
          \E latency \in [S -> Latencies \cup {Unknown}] :
            pool \in Trims([s \in S |-> Fresh("xlsx", latency[s])], cap)
    OBVIOUS
  <2>2. PICK latency \in [S -> Latencies \cup {Unknown}] :
          pool \in Trims([s \in S |-> Fresh("xlsx", latency[s])], cap)
    BY <2>1
  <2>3. CoherentPool([s \in S |-> Fresh("xlsx", latency[s])])
    BY FreshCoherent DEF CoherentPool
  <2> QED  BY <1>1, <2>2, <2>3, TrimsCoherent DEF PoolCapped
<1>3. RoundOK
  BY DEF RoundOK, Idle
<1>4. limit \in Nat
  <2>1. PICK ms \in Limits : limit = Max({MinLimit, ms})
    OBVIOUS
  <2>2. ms \in Nat /\ MinLimit \in Nat
    BY PoolAssumption
  <2> QED  BY <2>1, <2>2, MaxOfTwo
<1> QED  BY <1>1, <1>2, <1>3, <1>4 DEF PoolInv

(* Entries that leave the pool leave the copy under check.                 *)
LEMMA KeepInRoundOK ==
  ASSUME RoundOK, KeepInRound(pool')
  PROVE  RoundOK'
BY DEF RoundOK, KeepInRound

(* Adding proxies.                                                         *)
LEMMA AddsCoherent ==
  ASSUME PoolInv, AddManual \/ AddTested
  PROVE  PoolInv'
<1>1. PICK new : CoherentPool(new) /\ pool' \in Merges(new)
  <2>1. CASE AddManual
    <3>1. PICK S \in SUBSET Servers \ {{}} :
            pool' \in Merges([s \in S |-> Fresh("manual", Unknown)])
      BY <2>1 DEF AddManual
    <3>2. CoherentPool([s \in S |-> Fresh("manual", Unknown)])
      BY FreshCoherent DEF CoherentPool
    <3> QED  BY <3>1, <3>2
  <2>2. CASE AddTested
    <3>1. PICK S \in SUBSET Servers \ {{}} : \E latency \in [S -> Latencies] :
            pool' \in Merges([s \in S |-> Fresh("xlsx", latency[s])])
      BY <2>2 DEF AddTested
    <3>2. PICK latency \in [S -> Latencies] :
            pool' \in Merges([s \in S |-> Fresh("xlsx", latency[s])])
      BY <3>1
    <3>3. CoherentPool([s \in S |-> Fresh("xlsx", latency[s])])
      BY FreshCoherent DEF CoherentPool
    <3> QED  BY <3>2, <3>3
  <2> QED  BY <2>1, <2>2
<1>2. KeepInRound(pool') /\ UNCHANGED <<cap, limit, refreshing, using>>
  BY DEF AddManual, AddTested
<1>3. CoherentPool(pool') /\ Cardinality(DOMAIN pool') <= cap
  BY <1>1, MergesCoherent DEF PoolInv
<1>4. RoundOK'
  BY <1>2, KeepInRoundOK DEF PoolInv
<1> QED  BY <1>2, <1>3, <1>4 DEF PoolInv, PoolCapped, CoherentPool, Coherent

(* Changing the bounds.                                                    *)
LEMMA BoundsCoherent ==
  ASSUME PoolInv,
         \/ \E n \in Caps : SetMaxHealthy(n)
         \/ \E ms \in Limits : SetMaxLatency(ms)
  PROVE  PoolInv'
<1>1. ASSUME NEW n \in Caps, SetMaxHealthy(n)  PROVE PoolInv'
  <2>1. cap' \in Nat \ {0}
    <3>1. n \in Nat /\ cap' = Max({1, n})
      BY <1>1, PoolAssumption DEF SetMaxHealthy
    <3> QED  BY <3>1, MaxOfTwo
  <2>2. CoherentPool(pool') /\ Cardinality(DOMAIN pool') <= cap'
    BY <1>1, <2>1, TrimsCoherent DEF PoolInv, SetMaxHealthy
  <2>3. RoundOK'
    BY <1>1, KeepInRoundOK DEF PoolInv, SetMaxHealthy
  <2> QED  BY <1>1, <2>1, <2>2, <2>3
           DEF PoolInv, PoolCapped, CoherentPool, Coherent, SetMaxHealthy
<1>2. ASSUME NEW ms \in Limits, SetMaxLatency(ms)  PROVE PoolInv'
  <2>1. limit' \in Nat
    <3>1. ms \in Nat /\ MinLimit \in Nat /\ limit' = Max({MinLimit, ms})
      BY <1>2, PoolAssumption DEF SetMaxLatency
    <3> QED  BY <3>1, MaxOfTwo
  <2>2. PICK K \in SUBSET DOMAIN pool : pool' = Restrict(pool, K)
    BY <1>2 DEF SetMaxLatency
  <2>3. CoherentPool(pool') /\ DOMAIN pool' = K
    BY <2>2, RestrictCoherent DEF PoolInv
  <2>4. Cardinality(K) <= cap
    <3>1. IsFiniteSet(DOMAIN pool)
      BY PoolAssumption, FS_Subset DEF PoolInv, CoherentPool
    <3>2. Cardinality(K) <= Cardinality(DOMAIN pool)
      BY <3>1, FS_Subset
    <3>3. Cardinality(K) \in Nat /\ Cardinality(DOMAIN pool) \in Nat
      BY <3>1, FS_Subset, FS_CardinalityType
    <3> QED  BY <3>2, <3>3 DEF PoolInv, PoolCapped
  <2>5. RoundOK'
    BY <1>2, KeepInRoundOK DEF PoolInv, SetMaxLatency
  <2> QED  BY <1>2, <2>1, <2>3, <2>4, <2>5
           DEF PoolInv, PoolCapped, CoherentPool, Coherent, SetMaxLatency
<1> QED  BY <1>1, <1>2

(* What windows do to the pool: they change one entry, or none.            *)
LEMMA WindowsCoherent ==
  ASSUME PoolInv,
         NEW w \in Windows,
         \/ AssignFromPool(w) \/ AssignElse(w)
         \/ ReportSuccess(w) \/ ReportFailure(w)
  PROVE  PoolInv'
<1>1. CASE AssignFromPool(w) \/ AssignElse(w)
  <2>1. using' \in [Windows -> Servers \cup {Direct}]
    BY <1>1 DEF AssignFromPool, AssignElse, PoolInv, CoherentPool, Usable
  <2> QED  BY <1>1, <2>1
           DEF PoolInv, PoolCapped, CoherentPool, Coherent, RoundOK,
               AssignFromPool, AssignElse
<1>2. ASSUME NEW e, Coherent(e), using[w] \in DOMAIN pool,
             pool' = [pool EXCEPT ![using[w]] = e],
             UNCHANGED <<cap, limit, refreshing, round, using>>
      PROVE  PoolInv'
  <2>1. DOMAIN pool' = DOMAIN pool
    BY <1>2
  <2>2. CoherentPool(pool')
    BY <1>2, <2>1 DEF PoolInv, CoherentPool
  <2> QED  BY <1>2, <2>1, <2>2
           DEF PoolInv, PoolCapped, CoherentPool, Coherent, RoundOK
<1>3. CASE ReportSuccess(w)
  <2> DEFINE e == [pool[using[w]] EXCEPT !.healthy = TRUE, !.fails = 0,
                                         !.standing = "clear"]
  <2>1. using[w] \in DOMAIN pool /\ Coherent(pool[using[w]])
    BY <1>3 DEF ReportSuccess, PoolInv, CoherentPool
  <2>2. 0 \in 0..MaxFailCount /\ 0 < MaxFailCount
    BY PoolAssumption
  <2>3. Coherent(e)
    BY <2>1, <2>2 DEF Coherent, Entry
  <2>4. pool' = [pool EXCEPT ![using[w]] = e]
    BY <1>3 DEF ReportSuccess
  <2>5. UNCHANGED <<cap, limit, refreshing, round, using>>
    BY <1>3 DEF ReportSuccess
  <2> HIDE DEF e
  <2> QED  BY <1>2, <2>1, <2>3, <2>4, <2>5
<1>4. CASE ReportFailure(w)
  <2> DEFINE e == [pool[using[w]] EXCEPT !.healthy = FALSE,
                     !.fails = MaxFailCount, !.latency = Unknown,
                     !.standing = "cooling"]
  <2>1. using[w] \in DOMAIN pool /\ Coherent(pool[using[w]])
    BY <1>4 DEF ReportFailure, PoolInv, CoherentPool
  <2>2. MaxFailCount \in 0..MaxFailCount /\ ~(MaxFailCount < MaxFailCount)
    BY PoolAssumption
  <2>3. Coherent(e)
    BY <2>1, <2>2 DEF Coherent, Entry
  <2>4. pool' = [pool EXCEPT ![using[w]] = e]
    BY <1>4 DEF ReportFailure
  <2>5. UNCHANGED <<cap, limit, refreshing, round, using>>
    BY <1>4 DEF ReportFailure
  <2> HIDE DEF e
  <2> QED  BY <1>2, <2>1, <2>3, <2>4, <2>5
<1> QED  BY <1>1, <1>3, <1>4

(* The end of a check and of a test.                                       *)
LEMMA PurgeCoherent ==
  ASSUME PoolInv, NEW p, CoherentPool(p), NEW checked,
         NEW owner \in {"none", "loop", "request"},
         PurgeAndLoad(p, checked, owner),
         UNCHANGED <<cap, limit, refreshing, using>>
  PROVE  PoolInv'
<1>1. PICK stale : pool' \in Trims(Restrict(p, DOMAIN p \ stale), cap)
  BY DEF PurgeAndLoad
<1>2. CoherentPool(Restrict(p, DOMAIN p \ stale))
  BY RestrictCoherent
<1>3. CoherentPool(pool') /\ Cardinality(DOMAIN pool') <= cap
  BY <1>1, <1>2, TrimsCoherent DEF PoolInv
<1>4. RoundOK'
  BY DEF PurgeAndLoad, RoundOK
<1> QED  BY <1>3, <1>4 DEF PoolInv, PoolCapped, CoherentPool, Coherent

(* The steps of a maintenance round.                                       *)
LEMMA RoundCoherent ==
  ASSUME PoolInv,
         \/ \E owner \in {"loop", "request"} : StartRound(owner)
         \/ ApplyChecks \/ LatenciesWritten \/ LoadSource \/ TestChallengers
         \/ \E on \in BOOLEAN : SetRefresh(on)
  PROVE  PoolInv'
<1>1. ASSUME NEW owner \in {"loop", "request"}, StartRound(owner)
      PROVE  PoolInv'
  <2>1. CASE NotCooling # {}
    <3>1. NotCooling \subseteq DOMAIN pool /\ NotCooling \subseteq Servers
      BY DEF NotCooling, PoolInv, CoherentPool
    <3>2. /\ round' = [phase |-> "checking", owner |-> owner,
                       servers |-> NotCooling]
          /\ UNCHANGED <<pool, cap, limit, refreshing, using>>
      BY <1>1, <2>1 DEF StartRound
    <3>3. RoundOK'
      BY <3>1, <3>2 DEF RoundOK
    <3> QED  BY <3>2, <3>3 DEF PoolInv, PoolCapped, CoherentPool, Coherent
  <2>2. CASE NotCooling = {}
    <3>1. /\ PurgeAndLoad(pool, {}, owner)
          /\ UNCHANGED <<cap, limit, refreshing, using>>
      BY <1>1, <2>2 DEF StartRound
    <3> QED  BY <3>1, PurgeCoherent DEF PoolInv
  <2> QED  BY <2>1, <2>2
<1>2. CASE ApplyChecks
  <2>1. PICK latency \in [round.servers -> WithinLimit \cup {Unknown}] :
          LET p == [s \in DOMAIN pool |->
                      IF s \in round.servers THEN Checked(pool[s], latency[s])
                                             ELSE pool[s]]
          IN IF \E s \in round.servers :
                  latency[s] # Unknown /\ pool[s].source = "xlsx"
               THEN /\ pool' = p
                    /\ round' = [round EXCEPT !.phase = "writing"]
               ELSE PurgeAndLoad(p, round.servers, round.owner)
    BY <1>2 DEF ApplyChecks
  <2> DEFINE p == [s \in DOMAIN pool |->
                     IF s \in round.servers THEN Checked(pool[s], latency[s])
                                            ELSE pool[s]]
  <2>2. \/ pool' = p /\ round' = [round EXCEPT !.phase = "writing"]
        \/ PurgeAndLoad(p, round.servers, round.owner)
    BY <2>1
  <2>3. CoherentPool(p) /\ DOMAIN p = DOMAIN pool
    <3>1. \A s \in round.servers : latency[s] \in Latencies \cup {Unknown}
      BY <2>1 DEF WithinLimit
    <3>2. \A s \in round.servers : s \in DOMAIN pool =>
            Coherent(Checked(pool[s], latency[s]))
      BY <3>1, CheckedCoherent DEF PoolInv, CoherentPool
    <3>3. \A s \in DOMAIN pool : Coherent(p[s])
      BY <3>2 DEF PoolInv, CoherentPool
    <3>4. p = [s \in DOMAIN p |-> p[s]] /\ DOMAIN p = DOMAIN pool
      OBVIOUS
    <3> HIDE DEF p
    <3> QED  BY <3>3, <3>4 DEF PoolInv, CoherentPool
  <2>4. UNCHANGED <<cap, limit, refreshing, using>>
    BY <1>2 DEF ApplyChecks
  <2>5. round.owner \in {"none", "loop", "request"}
    BY DEF PoolInv, RoundOK
  <2> HIDE DEF p
  <2>6. CASE pool' = p /\ round' = [round EXCEPT !.phase = "writing"]
    <3>1. RoundOK'
      BY <2>6 DEF PoolInv, RoundOK
    <3> QED  BY <2>3, <2>4, <2>6, <3>1
             DEF PoolInv, PoolCapped, CoherentPool, Coherent
  <2>7. CASE PurgeAndLoad(p, round.servers, round.owner)
    BY <2>3, <2>4, <2>5, <2>7, PurgeCoherent
  <2> QED  BY <2>2, <2>6, <2>7
<1>3. CASE LatenciesWritten
  <2>1. round.owner \in {"none", "loop", "request"}
    BY DEF PoolInv, RoundOK
  <2>2. /\ PurgeAndLoad(pool, round.servers, round.owner)
        /\ UNCHANGED <<cap, limit, refreshing, using>>
    BY <1>3 DEF LatenciesWritten
  <2>3. CoherentPool(pool)
    BY DEF PoolInv
  <2> QED  BY <2>1, <2>2, <2>3, PurgeCoherent
<1>4. CASE LoadSource
  <2>1. PICK C \in SUBSET (Servers \ DOMAIN pool) :
          round' = IF C = {} THEN Idle
                             ELSE [round EXCEPT !.phase = "testing",
                                                !.servers = C]
    BY <1>4 DEF LoadSource
  <2>2. round' = Idle => RoundOK'
    BY DEF RoundOK, Idle
  <2>3. round' = [round EXCEPT !.phase = "testing", !.servers = C] => RoundOK'
    BY DEF PoolInv, RoundOK
  <2>4. RoundOK'
    BY <2>1, <2>2, <2>3
  <2> QED  BY <1>4, <2>4
           DEF LoadSource, PoolInv, PoolCapped, CoherentPool, Coherent
<1>5. CASE TestChallengers
  <2>1. PICK S \in SUBSET round.servers : \E latency \in [S -> WithinLimit] :
          pool' \in Merges([s \in S |-> Fresh("xlsx", latency[s])])
    BY <1>5 DEF TestChallengers
  <2>2. PICK latency \in [S -> WithinLimit] :
          pool' \in Merges([s \in S |-> Fresh("xlsx", latency[s])])
    BY <2>1
  <2>3. CoherentPool([s \in S |-> Fresh("xlsx", latency[s])])
    BY FreshCoherent DEF CoherentPool, WithinLimit, PoolInv, RoundOK
  <2>4. CoherentPool(pool') /\ Cardinality(DOMAIN pool') <= cap
    BY <2>2, <2>3, MergesCoherent DEF PoolInv
  <2>5. RoundOK'
    BY <1>5 DEF TestChallengers, RoundOK, Idle
  <2> QED  BY <1>5, <2>4, <2>5
           DEF TestChallengers, PoolInv, PoolCapped, CoherentPool, Coherent
<1>6. ASSUME NEW on \in BOOLEAN, SetRefresh(on)  PROVE PoolInv'
  BY <1>6 DEF SetRefresh, PoolInv, PoolCapped, CoherentPool, Coherent,
              RoundOK, Idle
<1> QED  BY <1>1, <1>2, <1>3, <1>4, <1>5, <1>6

LEMMA NextCoherent == PoolInv /\ [Next]_vars => PoolInv'
<1> SUFFICES ASSUME PoolInv, [Next]_vars  PROVE PoolInv'
  OBVIOUS
<1>1. CASE AddManual \/ AddTested
  BY <1>1, AddsCoherent
<1>2. CASE \/ \E n \in Caps : SetMaxHealthy(n)
           \/ \E ms \in Limits : SetMaxLatency(ms)
  BY <1>2, BoundsCoherent
<1>3. ASSUME NEW w \in Windows,
             \/ AssignFromPool(w) \/ AssignElse(w)
             \/ ReportSuccess(w) \/ ReportFailure(w)
      PROVE  PoolInv'
  BY <1>3, WindowsCoherent
<1>4. ASSUME NEW s \in Servers, CooldownEnds(s)  PROVE PoolInv'
  <2>1. DOMAIN pool' = DOMAIN pool
    BY <1>4 DEF CooldownEnds
  <2>2. CoherentPool(pool')
    <3> DEFINE e == [pool[s] EXCEPT !.standing = "flagged"]
    <3>1. s \in DOMAIN pool /\ Coherent(pool[s])
      BY <1>4 DEF CooldownEnds, PoolInv, CoherentPool
    <3>2. Coherent(e)
      BY <3>1 DEF Coherent, Entry
    <3>3. pool' = [pool EXCEPT ![s] = e]
      BY <1>4 DEF CooldownEnds
    <3> HIDE DEF e
    <3> QED  BY <2>1, <3>1, <3>2, <3>3 DEF PoolInv, CoherentPool
  <2> QED  BY <1>4, <2>1, <2>2
           DEF CooldownEnds, PoolInv, PoolCapped, CoherentPool, Coherent,
               RoundOK
<1>5. CASE \/ \E owner \in {"loop", "request"} : StartRound(owner)
           \/ ApplyChecks \/ LatenciesWritten \/ LoadSource \/ TestChallengers
           \/ \E on \in BOOLEAN : SetRefresh(on)
  BY <1>5, RoundCoherent
<1>6. CASE UNCHANGED vars
  BY <1>6 DEF vars, PoolInv, PoolCapped, CoherentPool, Coherent, RoundOK
<1> QED  BY <1>1, <1>2, <1>3, <1>4, <1>5, <1>6 DEF Next

(* The inductive invariant holds in every reachable state.                 *)
LEMMA PoolInvariant == Spec => []PoolInv
BY InitCoherent, NextCoherent, PTL DEF Spec

(* Every entry is well typed and a check runs only on entries of the pool, *)
(* for any servers, windows, caps and latencies.                           *)
THEOREM TypeCorrect == Spec => []TypeOK
<1>1. PoolInv => TypeOK
  BY DEF PoolInv, TypeOK, CoherentPool, Coherent, RoundOK
<1> QED  BY <1>1, PoolInvariant, PTL

(* The pool never outgrows max_healthy, whatever adds to it or changes the *)
(* cap, at any await of a maintenance round.                               *)
THEOREM CapKept == Spec => []PoolCapped
<1>1. PoolInv => PoolCapped
  BY DEF PoolInv
<1> QED  BY <1>1, PoolInvariant, PTL

(* Health flag, count of failures, latency and cooldown of every entry     *)
(* agree, although windows and checks write them independently.            *)
THEOREM EntriesCoherent == Spec => [](FailuresMatch /\ LatencyIsOfHealthy)
<1>1. PoolInv => FailuresMatch /\ LatencyIsOfHealthy
  BY DEF PoolInv, CoherentPool, Coherent, FailuresMatch, LatencyIsOfHealthy
<1> QED  BY <1>1, PoolInvariant, PTL

(* A latency is only known of a healthy proxy, and one that cools down is  *)
(* not healthy: whatever report_challenge, report_timeout, the checks and  *)
(* the merge of a preload do to an entry at any await of one another.      *)
THEOREM LatencyOfHealthy == Spec => []LatencyIsOfHealthy
<1>1. FailuresMatch /\ LatencyIsOfHealthy => LatencyIsOfHealthy
  OBVIOUS
<1> QED  BY <1>1, EntriesCoherent, PTL

-----------------------------------------------------------------------------
(* Trimming drops a usable entry only from a full pool of entries that are *)
(* at least as fast.                                                       *)
LEMMA TrimsDropWorse ==
  ASSUME NEW p, CoherentPool(p), NEW n \in Nat, NEW q \in Trims(p, n),
         NEW s \in DOMAIN p \ DOMAIN q, IsUsable(p[s])
  PROVE  /\ Cardinality(DOMAIN q) = n
         /\ \A r \in DOMAIN q : /\ q[r].latency # Unknown
                                /\ q[r].latency <= p[s].latency
<1>1. PICK K \in Best(p, n) : q = Restrict(p, K)
  BY DEF Trims
<1>2. K \subseteq DOMAIN p /\ DOMAIN q = K /\ \A r \in K : q[r] = p[r]
  BY <1>1 DEF Best, Restrict
<1>3. Cardinality(K) = n /\ \A r \in K : ~Outranks(p[s], p[r])
  BY <1>1, <1>2 DEF Best
<1>4. ASSUME NEW r \in K
      PROVE  p[r].latency # Unknown /\ p[r].latency <= p[s].latency
  <2>1. p[r] \in Entry /\ p[s] \in Entry
    BY <1>2 DEF CoherentPool, Coherent
  <2>2. StateRank(p[s]) = 0 /\ p[s].latency # Unknown
    BY DEF StateRank, IsUsable
  <2>3. StateRank(p[r]) = 0
    BY <1>3, <2>2 DEF Outranks, StateRank
  <2>4. p[r].latency # Unknown /\ ~Faster(p[s], p[r])
    BY <1>3, <2>2, <2>3 DEF Outranks, StateRank
  <2>5. p[r].latency \in Nat /\ p[s].latency \in Nat
    BY <2>1, <2>2, <2>4, PoolAssumption DEF Entry
  <2> QED  BY <2>2, <2>4, <2>5 DEF Faster
<1> QED  BY <1>2, <1>3, <1>4

(* An entry that the step leaves as it is, up to a final trim.             *)
LEMMA TrimStepDropsWorse ==
  ASSUME NEW p, CoherentPool(p), cap' \in Nat, pool' \in Trims(p, cap'),
         \A s \in Usable(pool) :
           (round.phase = "checking" => s \notin round.servers) =>
             s \in DOMAIN p /\ p[s] = pool[s]
  PROVE  WorseDropped
BY TrimsDropWorse DEF WorseDropped, Usable

LEMMA PurgeDropsWorse ==
  ASSUME NEW p, CoherentPool(p), NEW checked, NEW owner, cap \in Nat,
         cap' = cap, PurgeAndLoad(p, checked, owner),
         \A s \in Usable(pool) :
           (round.phase = "checking" => s \notin round.servers) =>
             s \in DOMAIN p /\ p[s] = pool[s]
  PROVE  WorseDropped
<1>1. PICK stale \in SUBSET {s \in DOMAIN p \ checked :
                               ~p[s].healthy /\ p[s].source = "xlsx"} :
        pool' \in Trims(Restrict(p, DOMAIN p \ stale), cap)
  BY DEF PurgeAndLoad
<1> DEFINE rest == Restrict(p, DOMAIN p \ stale)
<1>2. CoherentPool(rest)
  BY RestrictCoherent
<1>3. \A s \in DOMAIN p \ stale : s \in DOMAIN rest /\ rest[s] = p[s]
  BY DEF Restrict
<1>4. \A s \in Usable(pool) :
        (round.phase = "checking" => s \notin round.servers) =>
          s \in DOMAIN rest /\ rest[s] = pool[s]
  BY <1>1, <1>3 DEF Usable, IsUsable
<1>5. cap' \in Nat /\ pool' \in Trims(rest, cap')
  BY <1>1
<1> HIDE DEF rest
<1> QED  BY <1>2, <1>4, <1>5, TrimStepDropsWorse

LEMMA MergeDropsWorse ==
  ASSUME PoolInv, NEW new, CoherentPool(new), pool' \in Merges(new),
         cap' = cap
  PROVE  WorseDropped
<1> DEFINE both == [s \in DOMAIN pool \cup DOMAIN new |->
                      IF s \in DOMAIN pool THEN pool[s] ELSE new[s]]
<1>1. CoherentPool(both)
  <2>1. DOMAIN both \subseteq Servers /\ \A s \in DOMAIN both : Coherent(both[s])
    BY DEF CoherentPool, PoolInv
  <2>2. both = [s \in DOMAIN both |-> both[s]]
    OBVIOUS
  <2> HIDE DEF both
  <2> QED  BY <2>1, <2>2 DEF CoherentPool
<1>2. pool' \in Trims(both, cap')
  BY DEF Merges
<1>3. \A s \in Usable(pool) : s \in DOMAIN both /\ both[s] = pool[s]
  BY DEF Usable
<1>4. cap' \in Nat
  BY DEF PoolInv
<1> HIDE DEF both
<1> QED  BY <1>1, <1>2, <1>3, <1>4, TrimStepDropsWorse

LEMMA StepDropsWorse == PoolInv /\ [Next]_vars => WorseDropped
<1> SUFFICES ASSUME PoolInv, [Next]_vars  PROVE WorseDropped
  OBVIOUS
<1>0. DOMAIN pool' = DOMAIN pool => WorseDropped
  BY DEF WorseDropped, Usable
<1>1. CASE AddManual
  <2>1. PICK S \in SUBSET Servers \ {{}} :
          pool' \in Merges([s \in S |-> Fresh("manual", Unknown)])
    BY <1>1 DEF AddManual
  <2>2. CoherentPool([s \in S |-> Fresh("manual", Unknown)])
    BY FreshCoherent DEF CoherentPool
  <2> QED  BY <1>1, <2>1, <2>2, MergeDropsWorse DEF AddManual
<1>2. CASE AddTested
  <2>1. PICK S \in SUBSET Servers \ {{}} : \E latency \in [S -> Latencies] :
          pool' \in Merges([s \in S |-> Fresh("xlsx", latency[s])])
    BY <1>2 DEF AddTested
  <2>2. PICK latency \in [S -> Latencies] :
          pool' \in Merges([s \in S |-> Fresh("xlsx", latency[s])])
    BY <2>1
  <2>3. CoherentPool([s \in S |-> Fresh("xlsx", latency[s])])
    BY FreshCoherent DEF CoherentPool
  <2> QED  BY <1>2, <2>2, <2>3, MergeDropsWorse DEF AddTested
<1>3. ASSUME NEW n \in Caps, SetMaxHealthy(n)  PROVE WorseDropped
  <2>1. PoolInv'
    BY <1>3, BoundsCoherent
  <2>2. cap' \in Nat /\ CoherentPool(pool)
    BY <2>1 DEF PoolInv
  <2>3. pool' \in Trims(pool, cap')
    BY <1>3 DEF SetMaxHealthy
  <2>4. \A s \in Usable(pool) : s \in DOMAIN pool
    BY DEF Usable
  <2> QED  BY <2>2, <2>3, <2>4, TrimStepDropsWorse
<1>4. ASSUME NEW ms \in Limits, SetMaxLatency(ms)  PROVE WorseDropped
  <2>1. \A s \in Usable(pool) : pool[s].latency <= limit' => s \in DOMAIN pool'
    BY <1>4 DEF SetMaxLatency, Restrict, Usable
  <2> QED  BY <2>1 DEF WorseDropped
<1>5. ASSUME NEW w \in Windows,
             \/ AssignFromPool(w) \/ AssignElse(w)
             \/ ReportSuccess(w) \/ ReportFailure(w)
      PROVE  WorseDropped
  BY <1>0, <1>5 DEF AssignFromPool, AssignElse, ReportSuccess, ReportFailure
<1>6. ASSUME NEW s \in Servers, CooldownEnds(s)  PROVE WorseDropped
  BY <1>0, <1>6 DEF CooldownEnds
<1>7. ASSUME NEW owner \in {"loop", "request"}, StartRound(owner)
      PROVE  WorseDropped
  <2>1. CASE NotCooling # {}
    BY <1>0, <1>7, <2>1 DEF StartRound
  <2>2. CASE NotCooling = {}
    <3>1. PurgeAndLoad(pool, {}, owner) /\ cap' = cap
      BY <1>7, <2>2 DEF StartRound
    <3> QED  BY <3>1, PurgeDropsWorse DEF PoolInv, Usable
  <2> QED  BY <2>1, <2>2
<1>8. CASE ApplyChecks
  <2>1. PICK latency \in [round.servers -> WithinLimit \cup {Unknown}] :
          LET p == [s \in DOMAIN pool |->
                      IF s \in round.servers THEN Checked(pool[s], latency[s])
                                             ELSE pool[s]]
          IN IF \E s \in round.servers :
                  latency[s] # Unknown /\ pool[s].source = "xlsx"
               THEN /\ pool' = p
                    /\ round' = [round EXCEPT !.phase = "writing"]
               ELSE PurgeAndLoad(p, round.servers, round.owner)
    BY <1>8 DEF ApplyChecks
  <2> DEFINE p == [s \in DOMAIN pool |->
                     IF s \in round.servers THEN Checked(pool[s], latency[s])
                                            ELSE pool[s]]
  <2>2. pool' = p \/ PurgeAndLoad(p, round.servers, round.owner)
    BY <2>1
  <2>3. DOMAIN p = DOMAIN pool /\ \A s \in DOMAIN pool \ round.servers : p[s] = pool[s]
    OBVIOUS
  <2>4. CoherentPool(p)
    <3>1. \A s \in round.servers : latency[s] \in Latencies \cup {Unknown}
      BY <2>1 DEF WithinLimit
    <3>2. \A s \in round.servers : s \in DOMAIN pool =>
            Coherent(Checked(pool[s], latency[s]))
      BY <3>1, CheckedCoherent DEF PoolInv, CoherentPool
    <3>3. \A s \in DOMAIN pool : Coherent(p[s])
      BY <3>2 DEF PoolInv, CoherentPool
    <3>4. p = [s \in DOMAIN p |-> p[s]]
      OBVIOUS
    <3> HIDE DEF p
    <3> QED  BY <2>3, <3>3, <3>4 DEF PoolInv, CoherentPool
  <2>5. round.phase = "checking" /\ cap' = cap
    BY <1>8 DEF ApplyChecks
  <2> HIDE DEF p
  <2>6. \A s \in Usable(pool) :
          (round.phase = "checking" => s \notin round.servers) =>
            s \in DOMAIN p /\ p[s] = pool[s]
    BY <2>3, <2>5 DEF Usable
  <2>7. CASE PurgeAndLoad(p, round.servers, round.owner)
    BY <2>4, <2>5, <2>6, <2>7, PurgeDropsWorse DEF PoolInv
  <2> QED  BY <1>0, <2>2, <2>3, <2>7
<1>9. CASE LatenciesWritten
  <2>1. PurgeAndLoad(pool, round.servers, round.owner) /\ cap' = cap
    BY <1>9 DEF LatenciesWritten
  <2> QED  BY <2>1, PurgeDropsWorse DEF PoolInv, Usable
<1>10. CASE LoadSource \/ (\E on \in BOOLEAN : SetRefresh(on)) \/ UNCHANGED vars
  BY <1>0, <1>10 DEF LoadSource, SetRefresh, vars
<1>11. CASE TestChallengers
  <2>1. PICK S \in SUBSET round.servers : \E latency \in [S -> WithinLimit] :
          pool' \in Merges([s \in S |-> Fresh("xlsx", latency[s])])
    BY <1>11 DEF TestChallengers
  <2>2. PICK latency \in [S -> WithinLimit] :
          pool' \in Merges([s \in S |-> Fresh("xlsx", latency[s])])
    BY <2>1
  <2>3. CoherentPool([s \in S |-> Fresh("xlsx", latency[s])])
    BY FreshCoherent DEF CoherentPool, WithinLimit, PoolInv, RoundOK
  <2> QED  BY <1>11, <2>2, <2>3, MergeDropsWorse DEF TestChallengers
<1> QED  BY <1>1, <1>2, <1>3, <1>4, <1>5, <1>6, <1>7, <1>8, <1>9, <1>10, <1>11
         DEF Next

(* No step drops a usable proxy that is within the latency limit and was   *)
(* not just checked, unless the pool is full of proxies at least as fast.  *)
THEOREM WorseDroppedOnly == Spec => OnlyWorseDropped
BY PoolInvariant, StepDropsWorse, PTL DEF Spec, OnlyWorseDropped

=============================================================================
