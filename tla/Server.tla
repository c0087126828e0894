-------------------------------- MODULE Server --------------------------------
(***************************************************************************)
(* The server's runs: WsHandler, which starts executions of runs as tasks  *)
(* and stops them (src/src/transport/ws_handler.py), /api/close-all-windows*)
(* (src/app.py), and the life of an execution as far as it calls the       *)
(* browser manager (src/src/orchestrator/run_orchestrator.py).  Executions *)
(* share the manager, and a run id may be used again.                      *)
(***************************************************************************)
EXTENDS BrowserManager

CONSTANTS
  Executions,  \* orchestrators, with their tasks
  Handler,     \* the coroutine that stops runs or closes all windows
  Requests,    \* the start_run requests
  None

ASSUME ServerAssumption ==
  /\ Calls = Executions \cup {Handler}
  /\ Handler \notin Executions /\ None \notin Executions
  /\ Requests \subseteq Request
  /\ None \notin RunIds /\ Default \notin RunIds

(* The dashboard starts the runs of a layout together: each is told how    *)
(* many windows the layout has, and has tiles of its own in it.            *)
ASSUME LayoutAssumption ==
  \A r, s \in Requests : r.layout = s.layout /\ r.layout # NoLayout =>
    /\ r.total = s.total
    /\ \/ r.run = s.run
       \/ r.offset + r.count <= s.offset
       \/ s.offset + s.count <= r.offset

VARIABLES
  orch,       \* _orchestrators: kept after a run ends
  task,       \* _run_tasks
  execution,  \* per execution: where its task is, and its request
  stopping,   \* where the handler is
  swept,      \* history: "yes" once all windows were closed and no run started
  reused      \* history: a run was started under the id of a live one

registry == <<orch, task, execution, stopping, swept, reused>>
vars == <<manager, registry>>

AtRest == [op |-> "none", todo |-> {}, keys |-> {}, now |-> None]
NoExecution == [at |-> "none"]

TypeOK ==
  /\ ManagerTypeOK
  /\ orch \in [RunIds -> Executions \cup {None}]
  /\ task \in [RunIds -> Executions \cup {None}]
  /\ \A e \in Executions :
       \/ execution[e] = NoExecution
       \/ /\ execution[e].at \in {"starting", "creating", "working", "ending",
                                  "over", "gone"}
          /\ execution[e].begun \in BOOLEAN
          /\ execution[e].request \in Requests
  /\ stopping \in [op : {"none", "stop", "all", "windows"},
                   todo : SUBSET RunIds, keys : SUBSET RunIds,
                   now : RunIds \cup {None}]
  /\ swept \in {"no", "sweeping", "yes"}
  /\ reused \in BOOLEAN

At(e, where) == execution[e].at = where
Run(e) == execution[e].request.run
Alive(e) == execution[e].at \in {"starting", "creating", "working", "ending"}

(* The first step of execute_run goes to the creation of the windows.      *)
Move(e, where) ==
  execution' = [execution EXCEPT ![e].at = where,
                                 ![e].begun = @ \/ where = "creating"]

-----------------------------------------------------------------------------
(* Executions                                                              *)

(* _handle_start_run                                                       *)
Start(e) ==
  /\ execution[e] = NoExecution
  /\ \E request \in Requests :
       /\ execution' = [execution EXCEPT ![e] =
                          [at |-> "starting", begun |-> FALSE,
                           request |-> request]]
       /\ orch' = [orch EXCEPT ![request.run] = e]
       /\ task' = [task EXCEPT ![request.run] = e]
       /\ reused' = (reused \/ task[request.run] # None)
  /\ swept' = "no"
  /\ UNCHANGED <<stopping, manager>>

Bookkeeping == <<orch, task, stopping, swept, reused>>

(* The first step of execute_run forgets a cancellation that came before.  *)
Begin(e) ==
  /\ At(e, "starting")
  /\ AskCreate(e, execution[e].request)
  /\ Move(e, "creating")
  /\ UNCHANGED Bookkeeping

Create(e) ==
  /\ At(e, "creating")
  /\ \/ (Enter(e) \/ Emptied(e)) /\ UNCHANGED execution
     \/ /\ LaunchOne(e)
        /\ IF call'[e] = NoCall THEN Move(e, "working") ELSE UNCHANGED execution
     \/ LaunchFails(e) /\ Move(e, "over")
  /\ UNCHANGED Bookkeeping

(* A worker replaces its window.                                           *)
Recreate(e) ==
  /\ At(e, "working")
  /\ RecreateBegins(e, Run(e)) \/ RecreateReturns(e) \/ RecreateFails(e)
  /\ UNCHANGED <<execution, Bookkeeping>>

(* The run is complete, or notices that it was stopped: it closes its      *)
(* windows.                                                                *)
Finish(e) ==
  /\ At(e, "working") /\ recreation[e] = NoRecreation
  /\ AskClose(e, Run(e))
  /\ Move(e, "ending")
  /\ UNCHANGED Bookkeeping

(* execute_run raises: its windows stay.                                   *)
Raise(e) ==
  /\ At(e, "working") /\ recreation[e] = NoRecreation
  /\ Move(e, "over")
  /\ UNCHANGED <<manager, Bookkeeping>>

End(e) ==
  /\ At(e, "ending")
  /\ Enter(e) \/ Emptied(e)
  /\ IF call'[e] = NoCall THEN Move(e, "over") ELSE UNCHANGED execution
  /\ UNCHANGED Bookkeeping

(* _cleanup_run: the done callback drops the task of the run id, whichever *)
(* it is.                                                                  *)
Cleanup(e) ==
  /\ At(e, "over")
  /\ Move(e, "gone")
  /\ task' = [task EXCEPT ![Run(e)] = None]
  /\ UNCHANGED <<orch, stopping, swept, reused, manager>>

-----------------------------------------------------------------------------
(* Stopping                                                                *)

Known == {r \in RunIds : orch[r] # None}

(* stop_run of one run                                                     *)
BeginStop ==
  /\ stopping = AtRest
  /\ \E r \in Known :
       stopping' = [AtRest EXCEPT !.op = "stop", !.todo = {r}]
  /\ UNCHANGED <<orch, task, execution, swept, reused, manager>>

(* close_all_windows: every run that was ever started, first.              *)
BeginCloseAll ==
  /\ stopping = AtRest
  /\ stopping' = [AtRest EXCEPT !.op = "all", !.todo = Known]
  /\ swept' = "sweeping"
  /\ UNCHANGED <<orch, task, execution, reused, manager>>

(* RunOrchestrator.cancel: the windows of its run are closed, or those of  *)
(* the default group where execute_run has not begun, and never will if it *)
(* was stopped before: its _active_run_id is still None.                   *)
CancelRun ==
  /\ stopping.now = None
  /\ \E r \in stopping.todo :
       /\ stopping' = [stopping EXCEPT !.now = r]
       /\ AskClose(Handler, IF execution[orch[r]].begun THEN r ELSE Default)
  /\ UNCHANGED <<orch, task, execution, swept, reused>>

(* close_contexts, for cancel() or for close_open_windows                  *)
CloseGroup ==
  /\ Enter(Handler) \/ Emptied(Handler)
  /\ UNCHANGED registry

Closed == call[Handler] = NoCall

MutCancelTask ==  \* relies on the flag
  /\ stopping.now # None /\ Closed
  /\ stopping' = [stopping EXCEPT !.todo = @ \ {stopping.now}, !.now = None]
  /\ UNCHANGED <<execution, manager, orch, task, swept, reused>>

(* The task is looked up after those awaits, and cancelled if it runs.     *)
CancelTask ==
  /\ stopping.op \in {"stop", "all"} /\ stopping.now # None /\ Closed
  /\ stopping' = [stopping EXCEPT !.todo = @ \ {stopping.now}, !.now = None]
  /\ LET t == task[stopping.now] IN
       IF t # None /\ Alive(t)
       THEN Move(t, "over") /\ Cut(t)
       ELSE UNCHANGED <<execution, manager>>
  /\ UNCHANGED <<orch, task, swept, reused>>

(* close_open_windows: list(self._groups), then one after the other.       *)
ListGroups ==
  /\ stopping.op = "all" /\ stopping.todo = {} /\ stopping.now = None
  /\ stopping' = [AtRest EXCEPT !.op = "windows",
                    !.keys = {groups[i].run : i \in DOMAIN groups}]
  /\ UNCHANGED <<orch, task, execution, swept, reused, manager>>

CloseNext ==
  /\ stopping.op = "windows" /\ Closed
  /\ \E r \in stopping.keys :
       /\ stopping' = [stopping EXCEPT !.keys = @ \ {r}]
       /\ AskClose(Handler, r)
  /\ UNCHANGED <<orch, task, execution, swept, reused>>

Return ==
  /\ \/ stopping.op = "stop" /\ stopping.todo = {} /\ stopping.now = None
     \/ stopping.op = "windows" /\ stopping.keys = {} /\ Closed
  /\ stopping' = AtRest
  /\ swept' = IF stopping.op = "windows" /\ swept = "sweeping"
              THEN "yes" ELSE swept
  /\ UNCHANGED <<orch, task, execution, reused, manager>>

-----------------------------------------------------------------------------
Init ==
  /\ ManagerInit
  /\ orch = [r \in RunIds |-> None]
  /\ task = [r \in RunIds |-> None]
  /\ execution = [e \in Executions |-> NoExecution]
  /\ stopping = AtRest
  /\ swept = "no" /\ reused = FALSE

Execute(e) ==
  \/ Start(e) \/ Begin(e) \/ Create(e) \/ Recreate(e) \/ Finish(e) \/ Raise(e)
  \/ End(e) \/ Cleanup(e)

Stop ==
  \/ CancelRun \/ CloseGroup \/ CancelTask \/ ListGroups \/ CloseNext \/ Return

Next ==
  (\E e \in Executions : Execute(e)) \/ BeginStop \/ BeginCloseAll \/ Stop

(* A task that can run does: calls of the manager go on, Playwright        *)
(* answers.                                                                *)
Fairness ==
  /\ WF_vars(Stop)
  /\ \A e \in Executions :
       WF_vars(Begin(e)) /\ WF_vars(Create(e)) /\ WF_vars(End(e))
         /\ WF_vars(Cleanup(e))

Spec == Init /\ [][Next]_vars /\ Fairness

-----------------------------------------------------------------------------
(* Properties                                                              *)

(* Once /api/close-all-windows has returned and no run was started since   *)
(* it was called, the manager has no window: a run that was only starting, *)
(* waiting for the layout lock or launching does not open one later.  Not  *)
(* if a run id was used while its run was live: the older execution cannot *)
(* be stopped.                                                             *)
CloseAllClears == swept = "yes" /\ ~reused => groups = <<>>

(* A stop and a close-all get through the layout lock and return, whatever *)
(* the runs do with it, and although they are cancelled while they hold it.*)
HandlerReturns == [](stopping # AtRest => <>(stopping = AtRest))
=============================================================================
