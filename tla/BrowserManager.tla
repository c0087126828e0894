---------------------------- MODULE BrowserManager ----------------------------
(***************************************************************************)
(* The browser manager (src/src/browser/manager.py): the windows of every  *)
(* run, the layout lock under which groups of windows are created and      *)
(* closed, the tiles they are given, and recreate_context, which replaces  *)
(* one window without the lock.                                            *)
(*                                                                         *)
(* These are the steps of whoever calls the manager (Calls): asyncio may   *)
(* interleave them at every await and cancel a caller at any of them.      *)
(* Server says who calls.  Proxies are ProxyPool's, profile directories    *)
(* and the windows' contents are left out.                                 *)
(***************************************************************************)
EXTENDS Tiling, FiniteSets, SequencesExt

CONSTANTS
  Calls,      \* tasks that call the manager
  RunIds,     \* keys of _groups
  Layouts,    \* layout_group_ids
  NoLayout,   \* layout_group_id = None
  Default     \* "__default__", the key where there is no run id

ASSUME ManagerAssumption ==
  /\ NoLayout \notin Layouts
  /\ Default \notin RunIds
  /\ "plain" \notin Layouts /\ "fixed" \notin Layouts  \* values of screen

(* total is total_windows, 0 for None; the dashboard sends it with every   *)
(* layout_group_id, and a window beyond it is refused.                     *)
Request ==
  {r \in [run : RunIds, count : Nat \ {0}, layout : Layouts \cup {NoLayout},
          total : Nat, offset : Nat] :
     /\ r.layout # NoLayout => r.total # 0
     /\ r.total # 0 => r.offset + r.count <= r.total}

(* A tile: its position in the tiles for a number of windows.              *)
Places == {p \in Nat \X Nat : p[2] < p[1]}

(* _RunGroup: who created it, the windows launched and to be launched, and *)
(* their tiles.                                                            *)
(* stale: windows that a recreation put where their tile was before.       *)
Group ==
  [run : RunIds, owner : Calls, open : Nat, layout : Layouts \cup {NoLayout},
   tiles : Seq(Places), stale : SUBSET Nat]

NoGroup == [run |-> Default, open |-> 0]
NoReservation == [base |-> 0, total |-> 0]
NoCall == [op |-> "none", at |-> "away"]
NoRecreation == [owner |-> Default, index |-> 0]

VARIABLES
  queue,         \* _layout_lock: its holder, then who waits for it
  call,          \* per caller: the create_contexts or close_contexts it is in
  groups,        \* _groups, in the order of the dict
  dying,         \* the group whose windows the holder of the lock closes
  reservations,  \* _layout_reservations
  recreation,    \* per caller: the window it is replacing, and its tile
  screen,        \* who tiled the windows last: a layout, "plain" or "fixed"
  mixed,         \* windows were placed without looking at the others
  lost           \* a window is open that no group holds

manager == <<queue, call, groups, dying, reservations, recreation, screen,
             mixed, lost>>

ManagerTypeOK ==
  /\ queue \in Seq(Calls)
  /\ \A c \in Calls :
       \/ call[c] = NoCall
       \/ call[c].op = "close" /\ call[c].at \in {"waiting", "emptying"}
          /\ call[c].run \in RunIds \cup {Default}
       \/ call[c].op = "create" /\ call[c].at \in {"waiting", "emptying", "launching"}
          /\ call[c].request \in Request
  /\ groups \in Seq(Group)
  /\ dying \in Group \cup {NoGroup}
  /\ reservations \in [Layouts -> [base : Nat, total : Nat]]
  /\ \A c \in Calls :
       \/ recreation[c] = NoRecreation
       \/ recreation[c] \in [owner : Calls, index : Nat, tile : Places]
  /\ screen \in Layouts \cup {"plain", "fixed"}
  /\ mixed \in BOOLEAN /\ lost \in BOOLEAN

ManagerInit ==
  /\ queue = <<>>
  /\ call = [c \in Calls |-> NoCall]
  /\ groups = <<>>
  /\ dying = NoGroup
  /\ reservations = [l \in Layouts |-> NoReservation]
  /\ recreation = [c \in Calls |-> NoRecreation]
  /\ screen = "plain"
  /\ mixed = FALSE /\ lost = FALSE

-----------------------------------------------------------------------------
(* The layout lock                                                         *)

Ask(c, what) ==
  /\ call[c] = NoCall
  /\ call' = [call EXCEPT ![c] = what]
  /\ queue' = Append(queue, c)
  /\ UNCHANGED <<groups, dying, reservations, recreation, screen, mixed, lost>>

AskCreate(c, request) ==
  Ask(c, [op |-> "create", at |-> "waiting", run |-> request.run,
          request |-> request])

AskClose(c, run) == Ask(c, [op |-> "close", at |-> "waiting", run |-> run])

Holds(c, at) == queue # <<>> /\ Head(queue) = c /\ call[c].at = at

Without(c) == RemoveFirst(queue, c)

MutRelease(c) ==  \* the lock is kept
  UNCHANGED queue /\ call' = [call EXCEPT ![c] = NoCall]

Release(c) ==
  /\ queue' = Without(c)
  /\ call' = [call EXCEPT ![c] = NoCall]

GoOn(c, at) ==
  /\ call' = [call EXCEPT ![c].at = at]
  /\ UNCHANGED queue

-----------------------------------------------------------------------------
(* Tiles                                                                   *)

(* _collect_existing_context_entries: the windows of the first groups of   *)
(* gs, each the group it is in and its index there.                        *)
Entries(gs, last) ==
  UNION {{i} \X (1..gs[i].open) : i \in 1..last}

OpenIn(gs, last) == Cardinality(Entries(gs, last))

Open(gs) == OpenIn(gs, Len(gs))

MutRetiled(gs, count) == gs  \* the tiles of the other runs stay

(* The first tiles for count windows go to the windows of gs.              *)
Retiled(gs, count) ==
  [i \in DOMAIN gs |->
     [gs[i] EXCEPT
        !.tiles = [j \in DOMAIN @ |->
                     IF j <= gs[i].open
                     THEN <<count, OpenIn(gs, i - 1) + j - 1>> ELSE @[j]],
        !.stale = {}]]

MutNewGroup(c, request, count, first) ==  \* counts tiles from one
  [run |-> request.run, owner |-> c, open |-> 0, layout |-> request.layout,
   tiles |-> [j \in 1..request.count |-> <<count, first + j>>],
   stale |-> {}]

NewGroup(c, request, count, first) ==
  [run |-> request.run, owner |-> c, open |-> 0, layout |-> request.layout,
   tiles |-> [j \in 1..request.count |-> <<count, first + j - 1>>],
   stale |-> {}]

(* A member of a layout is placed in the tiles reserved for all of it; the *)
(* first one reserves them after the windows that are open, which move.    *)
AllotInLayout(c, request, gs, res) ==
  LET l == request.layout
      first == res[l] = NoReservation
      reserved == IF first THEN [base |-> Open(gs), total |-> request.total]
                  ELSE res[l]
      count == reserved.base + reserved.total
  IN /\ request.layout # NoLayout /\ request.total # 0
     /\ reservations' = [res EXCEPT ![l] = reserved]
     /\ groups' = Append(IF first THEN Retiled(gs, count) ELSE gs,
                         NewGroup(c, request, count,
                                  reserved.base + request.offset))
     /\ screen' = l
     /\ mixed' = (~first /\ gs # <<>> /\ (mixed \/ screen # l))

(* "Backward-compatible pre-computed tiling for a single run."             *)
AllotFixed(c, request, gs, res) ==
  /\ request.layout = NoLayout /\ request.total # 0
  /\ groups' = Append(gs, NewGroup(c, request, request.total, request.offset))
  /\ reservations' = res
  /\ screen' = "fixed"
  /\ mixed' = (gs # <<>>)

(* "Global tiling across all active runs to avoid overlap."                *)
AllotAmongAll(c, request, gs, res) ==
  LET count == Open(gs) + request.count IN
  /\ request.total = 0
  /\ groups' = Append(Retiled(gs, count),
                      NewGroup(c, request, count, Open(gs)))
  /\ reservations' = res
  /\ screen' = "plain"
  /\ mixed' = FALSE

(* create_contexts once an older group of its run is closed, and what      *)
(* close_contexts does then.                                               *)
Proceed(c, gs, res) ==
  \/ /\ call[c].op = "create"
     /\ LET request == call[c].request IN
          \/ AllotInLayout(c, request, gs, res)
          \/ AllotFixed(c, request, gs, res)
          \/ AllotAmongAll(c, request, gs, res)
     /\ GoOn(c, "launching")
  \/ /\ call[c].op = "close"
     /\ groups' = gs /\ reservations' = res
     /\ Release(c)
     /\ UNCHANGED <<screen, mixed>>

-----------------------------------------------------------------------------
(* create_contexts and close_contexts, from await to await                 *)

OfRun(run) == {i \in DOMAIN groups : groups[i].run = run}

(* _close_contexts_unlocked: the group is popped before its windows are    *)
(* closed.                                                                 *)
Enter(c) ==
  /\ Holds(c, "waiting")
  /\ LET run == call[c].run IN
       \/ /\ \E i \in OfRun(run) :
               /\ dying' = groups[i]
               /\ groups' = RemoveAt(groups, i)
          /\ GoOn(c, "emptying")
          /\ UNCHANGED <<reservations, screen, mixed>>
       \/ /\ OfRun(run) = {}
          /\ Proceed(c, groups, reservations)
          /\ UNCHANGED dying
  /\ UNCHANGED <<recreation, lost>>

MutFreed(layout) ==  \* also while members of the layout are live
  IF layout = NoLayout THEN reservations
  ELSE [reservations EXCEPT ![layout] = NoReservation]

(* _cleanup_layout_reservation                                             *)
Freed(layout) ==
  IF layout = NoLayout \/ \E i \in DOMAIN groups : groups[i].layout = layout
  THEN reservations
  ELSE [reservations EXCEPT ![layout] = NoReservation]

Emptied(c) ==
  /\ Holds(c, "emptying")
  /\ dying' = NoGroup
  /\ Proceed(c, groups, Freed(dying.layout))
  /\ UNCHANGED <<recreation, lost>>

Mine(c) == CHOOSE i \in DOMAIN groups : groups[i].owner = c

LaunchOne(c) ==
  /\ Holds(c, "launching")
  /\ groups' = [groups EXCEPT ![Mine(c)].open = @ + 1]
  /\ IF groups[Mine(c)].open + 1 = call[c].request.count
     THEN Release(c) ELSE UNCHANGED <<queue, call>>
  /\ UNCHANGED <<dying, reservations, recreation, screen, mixed, lost>>

(* The exception leaves the windows launched so far in their group.        *)
LaunchFails(c) ==
  /\ Holds(c, "launching")
  /\ Release(c)
  /\ UNCHANGED <<groups, dying, reservations, recreation, screen, mixed, lost>>

-----------------------------------------------------------------------------
(* recreate_context                                                        *)

(* The group is looked up by its run id, and its tile read, before the new *)
(* window is launched.                                                     *)
RecreateBegins(c, run) ==
  /\ recreation[c] = NoRecreation
  /\ \E i \in OfRun(run) : \E index \in 1..groups[i].open :
       recreation' = [recreation EXCEPT ![c] =
                        [owner |-> groups[i].owner, index |-> index,
                         tile |-> groups[i].tiles[index]]]
  /\ UNCHANGED <<queue, call, groups, dying, reservations, screen, mixed, lost>>

(* The new window is stored in the group that was looked up.  One that was *)
(* closed meanwhile has no such index any more; one that is being closed   *)
(* may be past it.  Then nobody will close the window.                     *)
RecreateReturns(c) ==
  /\ recreation[c] # NoRecreation
  /\ LET r == recreation[c] IN
       \/ /\ \E i \in DOMAIN groups :
               /\ groups[i].owner = r.owner
               /\ groups' = [groups EXCEPT ![i].stale =
                               IF r.tile = groups[i].tiles[r.index]
                               THEN @ \ {r.index} ELSE @ \cup {r.index}]
          /\ UNCHANGED lost
       \/ /\ \A i \in DOMAIN groups : groups[i].owner # r.owner
          /\ lost' = TRUE
          /\ UNCHANGED groups
       \/ /\ dying # NoGroup /\ dying.owner = r.owner
          /\ UNCHANGED <<groups, lost>>
  /\ recreation' = [recreation EXCEPT ![c] = NoRecreation]
  /\ UNCHANGED <<queue, call, dying, reservations, screen, mixed>>

RecreateFails(c) ==
  /\ recreation[c] # NoRecreation
  /\ recreation' = [recreation EXCEPT ![c] = NoRecreation]
  /\ UNCHANGED <<queue, call, groups, dying, reservations, screen, mixed, lost>>

-----------------------------------------------------------------------------
(* A caller is cancelled: it gives up the lock or its place in the queue,  *)
(* the windows after the one it is closing are in no group any more, and   *)
(* their layout stays reserved.  A window that is just being launched is   *)
(* taken to be closed by Playwright.                                       *)
Cut(c) ==
  /\ Release(c)
  /\ recreation' = [recreation EXCEPT ![c] = NoRecreation]
  /\ IF Holds(c, "emptying")
     THEN /\ dying' = NoGroup
          /\ lost' \in {lost, lost \/ dying.open > 1}
     ELSE UNCHANGED <<dying, lost>>
  /\ UNCHANGED <<groups, reservations, screen, mixed>>

-----------------------------------------------------------------------------
(* Tiles of two windows that show nothing of each other.                   *)
Clear(p, q) == Disjoint(Tile(p[1], p[2]), Tile(q[1], q[2]))

(* Windows do not overlap: windows of every live group, launched in any    *)
(* order by runs that come and go, are clear of each other.  This is where *)
(* the manager puts them, except a window that was being recreated while   *)
(* the others were tiled anew (stale), and except after a member of a      *)
(* layout or a run with its own total_windows came between (mixed).        *)
TilesApart ==
  ~mixed =>
    \A i, j \in DOMAIN groups :
      \A v \in (1..groups[i].open) \ groups[i].stale,
         w \in (1..groups[j].open) \ groups[j].stale :
        <<i, v>> # <<j, w>> => Clear(groups[i].tiles[v], groups[j].tiles[w])

(* The tiles of a layout stay reserved while a group of it is live, so     *)
(* that its later members find their places.                               *)
ReservedWhileLive ==
  \A i \in DOMAIN groups :
    groups[i].layout # NoLayout =>
      reservations[groups[i].layout] # NoReservation
=============================================================================
