------------------------------ MODULE ProxyPool ------------------------------
(***************************************************************************)
(* The shared proxy pool (src/src/proxy/pool.py): the entries and their    *)
(* health, the cap and its trimming, the windows that are handed proxies   *)
(* and report on them (src/src/browser/manager.py), and the maintenance    *)
(* round, which awaits health checks and the spreadsheet between its steps *)
(* while everything else goes on.                                          *)
(*                                                                         *)
(* A latency is one of a few numbers, a cooldown is running or over, and   *)
(* the position of the round robin is left out: any usable proxy may be    *)
(* next.                                                                   *)
(***************************************************************************)
EXTENDS Naturals, FiniteSets, FiniteSetsExt, Functions

CONSTANTS
  Servers,       \* proxy servers
  Windows,       \* browser windows that are given one
  Direct,        \* a window without a proxy
  MaxFailCount,  \* MAX_FAIL_COUNT
  Latencies,     \* latencies a check or the spreadsheet may name, in ms
  Unknown,       \* latency_ms = None
  MinLimit,      \* the least threshold set_max_latency accepts
  Caps, Limits   \* arguments of set_max_healthy and of set_max_latency

ASSUME PoolAssumption ==
  /\ IsFiniteSet(Servers)
  /\ Direct \notin Servers
  /\ MaxFailCount \in Nat \ {0}
  /\ Latencies \subseteq Nat
  /\ Unknown \notin Latencies
  /\ MinLimit \in Nat
  /\ Caps \subseteq Nat
  /\ Limits \subseteq Nat

(* ProxyEntry.  standing joins cooldown_until and problematic: "cooling"   *)
(* while the cooldown runs, "flagged" once it is over and no success has   *)
(* cleared the flag.  fails stops counting at MaxFailCount.                *)
Entry ==
  [healthy  : BOOLEAN,
   fails    : 0..MaxFailCount,
   latency  : Latencies \cup {Unknown},
   standing : {"clear", "flagged", "cooling"},
   source   : {"manual", "xlsx"}]

VARIABLES
  pool,        \* _entries
  cap,         \* _max_healthy
  limit,       \* _max_latency_ms
  refreshing,  \* whether the auto-refresh task runs
  round,       \* the maintenance round that holds _lock, and its await
  using        \* the proxy of each window: context_proxies

vars == <<pool, cap, limit, refreshing, round, using>>

(* servers: the entries being checked (a copy of the values: an entry that *)
(* leaves the pool is dropped, its result would go to a dead object), or   *)
(* the candidates being tested.                                            *)
Idle == [phase |-> "idle", owner |-> "none", servers |-> {}]

TypeOK ==
  /\ DOMAIN pool \subseteq Servers
  /\ pool \in [DOMAIN pool -> Entry]
  /\ cap \in Nat \ {0}
  /\ limit \in Nat
  /\ refreshing \in BOOLEAN
  /\ round \in [phase   : {"idle", "checking", "writing", "loading", "testing"},
                owner   : {"none", "loop", "request"},
                servers : SUBSET Servers]
  /\ round.phase = "checking" => round.servers \subseteq DOMAIN pool
  /\ using \in [Windows -> Servers \cup {Direct}]

-----------------------------------------------------------------------------
(* Ranking and trimming                                                    *)

IsUsable(e) ==
  e.healthy /\ e.latency # Unknown /\ e.standing # "cooling"

Usable(p) == {s \in DOMAIN p : IsUsable(p[s])}

StateRank(e) ==
  IF ~e.healthy THEN 2 ELSE IF e.latency = Unknown THEN 1 ELSE 0

Faster(e, f) ==
  e.latency # Unknown /\ (f.latency = Unknown \/ e.latency < f.latency)

(* Mutant: a manual proxy outranks every proxy of the spreadsheet.         *)
MutOutranksManual(e, f) ==
  \/ e.source = "manual" /\ f.source = "xlsx"
  \/ /\ e.source = f.source
     /\ StateRank(e) < StateRank(f) \/ Faster(e, f)

(* _entry_rank without its last component, the name: any order of equals   *)
(* is allowed.                                                             *)
Outranks(e, f) ==
  \/ StateRank(e) < StateRank(f)
  \/ /\ StateRank(e) = StateRank(f)
     /\ \/ Faster(e, f)
        \/ e.latency = f.latency /\ e.source = "manual" /\ f.source = "xlsx"

(* The sets of entries that _trim_pool_to_cap may keep of p under cap n.   *)
Best(p, n) ==
  {K \in SUBSET DOMAIN p :
     /\ IF Cardinality(DOMAIN p) <= n THEN K = DOMAIN p
                                      ELSE Cardinality(K) = n
     /\ \A s \in K, r \in DOMAIN p \ K : ~Outranks(p[r], p[s])}

Trims(p, n) == {Restrict(p, K) : K \in Best(p, n)}

(* Entries that leave the pool leave the copy under check.                 *)
KeepInRound(p) ==
  round' = IF round.phase \in {"checking", "writing"}
             THEN [round EXCEPT !.servers = @ \cap DOMAIN p]
             ELSE round

-----------------------------------------------------------------------------
(* Adding proxies and changing the bounds                                  *)

Fresh(source, latency) ==
  [healthy |-> TRUE, fails |-> 0, latency |-> latency,
   standing |-> "clear", source |-> source]

(* Mutant: no trim after the merge.                                        *)
MutMerges(new) == {[s \in DOMAIN pool \cup DOMAIN new |->
                      IF s \in DOMAIN pool THEN pool[s] ELSE new[s]]}

(* add_proxies: known servers keep their entry, then the pool is trimmed.  *)
Merges(new) ==
  Trims([s \in DOMAIN pool \cup DOMAIN new |->
           IF s \in DOMAIN pool THEN pool[s] ELSE new[s]], cap)

(* The lists a user types in: the run's proxies and /api/proxy-pool/add.   *)
AddManual ==
  /\ \E S \in SUBSET Servers \ {{}} :
       pool' \in Merges([s \in S |-> Fresh("manual", Unknown)])
  /\ KeepInRound(pool')
  /\ UNCHANGED <<cap, limit, refreshing, using>>

(* /api/free-proxies tests a few of the spreadsheet's proxies and adds the *)
(* ones that answer, however slowly.                                       *)
AddTested ==
  /\ \E S \in SUBSET Servers \ {{}} : \E latency \in [S -> Latencies] :
       pool' \in Merges([s \in S |-> Fresh("xlsx", latency[s])])
  /\ KeepInRound(pool')
  /\ UNCHANGED <<cap, limit, refreshing, using>>

(* Mutant: the least cap is not enforced.                                  *)
MutSetMaxHealthy(n) ==
  /\ cap' = n
  /\ pool' \in Trims(pool, n)
  /\ KeepInRound(pool')
  /\ UNCHANGED <<limit, refreshing, using>>

SetMaxHealthy(n) ==
  /\ cap' = Max({1, n})
  /\ pool' \in Trims(pool, cap')
  /\ KeepInRound(pool')
  /\ UNCHANGED <<limit, refreshing, using>>

SetMaxLatency(ms) ==
  /\ limit' = Max({MinLimit, ms})
  /\ pool' = Restrict(pool, {s \in DOMAIN pool :
                               \/ ~pool[s].healthy
                               \/ pool[s].latency = Unknown
                               \/ pool[s].latency <= limit'})
  /\ KeepInRound(pool')
  /\ UNCHANGED <<cap, refreshing, using>>

-----------------------------------------------------------------------------
(* Windows                                                                 *)

(* A proxy of the pool for a window that opens or is opened again;         *)
(* _pick_pool_proxy avoids the one that has just failed.                   *)
AssignFromPool(w) ==
  /\ \E s \in Usable(pool) : using' = [using EXCEPT ![w] = s]
  /\ UNCHANGED <<pool, cap, limit, refreshing, round>>

(* Otherwise the proxy of another window of its slot, one of the run's own *)
(* list that is not cooling in the pool, or none.                          *)
AssignElse(w) ==
  /\ \E s \in Servers \cup {Direct} :
       /\ \/ \E v \in Windows : using[v] = s
          \/ s \in DOMAIN pool => pool[s].standing # "cooling"
       /\ using' = [using EXCEPT ![w] = s]
  /\ UNCHANGED <<pool, cap, limit, refreshing, round>>

(* Mutant: the count of failures is kept.                                  *)
MutReportSuccess(w) ==
  /\ using[w] \in DOMAIN pool
  /\ pool' = [pool EXCEPT ![using[w]].healthy = TRUE,
                          ![using[w]].standing = "clear"]
  /\ UNCHANGED <<cap, limit, refreshing, round, using>>

(* mark_healthy, after a navigation or a solved challenge.  The latency    *)
(* stays unknown until the next check.                                     *)
ReportSuccess(w) ==
  /\ using[w] \in DOMAIN pool
  /\ pool' = [pool EXCEPT ![using[w]].healthy = TRUE,
                          ![using[w]].fails = 0,
                          ![using[w]].standing = "clear"]
  /\ UNCHANGED <<cap, limit, refreshing, round, using>>

(* mark_problematic.                                                       *)
ReportFailure(w) ==
  /\ using[w] \in DOMAIN pool
  /\ pool' = [pool EXCEPT ![using[w]] =
                [@ EXCEPT !.healthy = FALSE, !.fails = MaxFailCount,
                          !.latency = Unknown, !.standing = "cooling"]]
  /\ UNCHANGED <<cap, limit, refreshing, round, using>>

(* cooldown_until passes.                                                  *)
CooldownEnds(s) ==
  /\ s \in DOMAIN pool
  /\ pool[s].standing = "cooling"
  /\ pool' = [pool EXCEPT ![s].standing = "flagged"]
  /\ UNCHANGED <<cap, limit, refreshing, round, using>>

-----------------------------------------------------------------------------
(* The maintenance round: maintain_pool, under _lock                       *)

(* The end of a check: entries that have been unhealthy for an hour go,    *)
(* those just checked excepted, and the pool is trimmed; the round then    *)
(* waits for the spreadsheet.                                              *)
PurgeAndLoad(p, checked, owner) ==
  /\ \E stale \in SUBSET {s \in DOMAIN p \ checked :
                            ~p[s].healthy /\ p[s].source = "xlsx"} :
       pool' \in Trims(Restrict(p, DOMAIN p \ stale), cap)
  /\ round' = [phase |-> "loading", owner |-> owner, servers |-> {}]

NotCooling == {s \in DOMAIN pool : pool[s].standing # "cooling"}

(* Mutant: only healthy entries are checked again.                         *)
MutStartRound(owner) ==
  /\ round.phase = "idle"
  /\ owner = "loop" => refreshing
  /\ LET checked == {s \in NotCooling : pool[s].healthy}
     IN IF checked # {}
          THEN /\ round' = [phase |-> "checking", owner |-> owner,
                            servers |-> checked]
               /\ UNCHANGED pool
          ELSE PurgeAndLoad(pool, {}, owner)
  /\ UNCHANGED <<cap, limit, refreshing, using>>

(* The loop of _refresh_loop, or the health-check button and the start of  *)
(* the server (health_check_all), takes the lock.                          *)
StartRound(owner) ==
  /\ round.phase = "idle"
  /\ owner = "loop" => refreshing
  /\ IF NotCooling # {}
       THEN /\ round' = [phase |-> "checking", owner |-> owner,
                         servers |-> NotCooling]
            /\ UNCHANGED pool
       ELSE PurgeAndLoad(pool, {}, owner)
  /\ UNCHANGED <<cap, limit, refreshing, using>>

(* Mutant: a failed check leaves the latency of an earlier one.            *)
MutChecked(e, latency) ==
  IF latency # Unknown
    THEN [e EXCEPT !.healthy = TRUE, !.fails = 0, !.latency = latency,
                   !.standing = "clear"]
    ELSE LET fails == Min({e.fails + 1, MaxFailCount})
         IN [e EXCEPT !.healthy = @ /\ fails < MaxFailCount, !.fails = fails]

(* An entry after its check: latency is Unknown when the check failed or   *)
(* took longer than the limit.                                             *)
Checked(e, latency) ==
  IF latency # Unknown
    THEN [e EXCEPT !.healthy = TRUE, !.fails = 0, !.latency = latency,
                   !.standing = "clear"]
    ELSE LET fails == Min({e.fails + 1, MaxFailCount})
         IN [e EXCEPT !.healthy = @ /\ fails < MaxFailCount, !.fails = fails,
                      !.latency = Unknown]

WithinLimit == {l \in Latencies : l <= limit}

(* All checks of the round are in; latencies of the spreadsheet's proxies  *)
(* are written back to it, in another thread.                              *)
ApplyChecks ==
  /\ round.phase = "checking"
  /\ \E latency \in [round.servers -> WithinLimit \cup {Unknown}] :
       LET p == [s \in DOMAIN pool |->
                   IF s \in round.servers THEN Checked(pool[s], latency[s])
                                          ELSE pool[s]]
       IN IF \E s \in round.servers :
               latency[s] # Unknown /\ pool[s].source = "xlsx"
            THEN /\ pool' = p
                 /\ round' = [round EXCEPT !.phase = "writing"]
            ELSE PurgeAndLoad(p, round.servers, round.owner)
  /\ UNCHANGED <<cap, limit, refreshing, using>>

LatenciesWritten ==
  /\ round.phase = "writing"
  /\ PurgeAndLoad(pool, round.servers, round.owner)
  /\ UNCHANGED <<cap, limit, refreshing, using>>

(* The spreadsheet names challengers that are not in the pool; when it     *)
(* cannot be read, or has none, the round is over.                         *)
LoadSource ==
  /\ round.phase = "loading"
  /\ \E C \in SUBSET (Servers \ DOMAIN pool) :
       round' = IF C = {} THEN Idle
                          ELSE [round EXCEPT !.phase = "testing", !.servers = C]
  /\ UNCHANGED <<pool, cap, limit, refreshing, using>>

TestChallengers ==
  /\ round.phase = "testing"
  /\ \E S \in SUBSET round.servers : \E latency \in [S -> WithinLimit] :
       pool' \in Merges([s \in S |-> Fresh("xlsx", latency[s])])
  /\ round' = Idle
  /\ UNCHANGED <<cap, limit, refreshing, using>>

(* stop_auto_refresh cancels the task, in the middle of its round if it is *)
(* in one; start_auto_refresh stops it and creates it again.               *)
SetRefresh(on) ==
  /\ refreshing' = on
  /\ round' = IF round.owner = "loop" THEN Idle ELSE round
  /\ UNCHANGED <<pool, cap, limit, using>>

-----------------------------------------------------------------------------
(* lifespan: the pool is filled from the spreadsheet with the latencies it *)
(* holds, and the refresh is on.                                           *)
Init ==
  /\ cap \in {Max({1, n}) : n \in Caps}
  /\ limit \in {Max({MinLimit, ms}) : ms \in Limits}
  /\ \E S \in SUBSET Servers :
       \E latency \in [S -> Latencies \cup {Unknown}] :
         pool \in Trims([s \in S |-> Fresh("xlsx", latency[s])], cap)
  /\ refreshing = TRUE
  /\ round = Idle
  /\ using = [w \in Windows |-> Direct]

Next ==
  \/ AddManual \/ AddTested
  \/ \E n \in Caps : SetMaxHealthy(n)
  \/ \E ms \in Limits : SetMaxLatency(ms)
  \/ \E w \in Windows : \/ AssignFromPool(w) \/ AssignElse(w)
                        \/ ReportSuccess(w) \/ ReportFailure(w)
  \/ \E s \in Servers : CooldownEnds(s)
  \/ \E owner \in {"loop", "request"} : StartRound(owner)
  \/ ApplyChecks \/ LatenciesWritten \/ LoadSource \/ TestChallengers
  \/ \E on \in BOOLEAN : SetRefresh(on)

(* The event loop runs the refresh task, and every check ends: each has a  *)
(* timeout.  Nothing makes a user or a window act.                         *)
Fairness ==
  /\ WF_vars(StartRound("loop"))
  /\ WF_vars(ApplyChecks)
  /\ WF_vars(LatenciesWritten)
  /\ WF_vars(LoadSource)
  /\ WF_vars(TestChallengers)

Spec == Init /\ [][Next]_vars /\ Fairness

-----------------------------------------------------------------------------
(* Properties                                                              *)

(* The pool never holds more than max_healthy entries, whichever of its    *)
(* five writers touched it last.                                           *)
PoolCapped == Cardinality(DOMAIN pool) <= cap

(* The health flag and the count of failures agree: an entry is unhealthy  *)
(* exactly when it has failed MAX_FAIL_COUNT times since its last success, *)
(* although four methods write the two separately.                         *)
FailuresMatch ==
  \A s \in DOMAIN pool : pool[s].healthy <=> pool[s].fails < MaxFailCount

(* Only a healthy entry has a latency, and a cooling one is not healthy:   *)
(* no stale latency keeps a failed proxy in the ranking, and a cooldown    *)
(* cannot be undercut by an entry that still counts as healthy.            *)
LatencyIsOfHealthy ==
  \A s \in DOMAIN pool :
    /\ pool[s].latency # Unknown => pool[s].healthy
    /\ pool[s].standing = "cooling" => ~pool[s].healthy

(* An entry that is usable, within the limit and not just checked leaves   *)
(* the pool only for entries at least as good: the pool is full and        *)
(* everything kept has a known latency that is no higher.                  *)
WorseDropped ==
  \A s \in Usable(pool) \ DOMAIN pool' :
    /\ pool[s].latency <= limit'
    /\ round.phase = "checking" => s \notin round.servers
    => /\ Cardinality(DOMAIN pool') = cap'
       /\ \A r \in DOMAIN pool' : /\ pool'[r].latency # Unknown
                                  /\ pool'[r].latency <= pool[s].latency

OnlyWorseDropped == [][WorseDropped]_vars

(* While the refresh stays on, an unhealthy entry whose cooldown is over   *)
(* is not forgotten: it is checked again, recovers otherwise, is reported  *)
(* again or leaves the pool.                                               *)
AwaitsCheck(s) ==
  /\ s \in DOMAIN pool
  /\ ~pool[s].healthy
  /\ pool[s].standing # "cooling"
  /\ ~(round.phase = "checking" /\ s \in round.servers)

Rechecked == <>[]refreshing => \A s \in Servers : []<>~AwaitsCheck(s)

=============================================================================
