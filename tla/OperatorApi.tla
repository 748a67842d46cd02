---------------------------- MODULE OperatorApi ----------------------------
(***************************************************************************)
(* The HTTP handlers an operator drives the board with: the workflow verbs *)
(* start, stop, stop-reset, resume and restart, the task verbs cancel,     *)
(* retry and guide (a guided retry or a chat post on a blocked task), the  *)
(* plain lifecycle verbs and the heartbeat (lazybones-api/src/routes).     *)
(*                                                                         *)
(* A workflow verb lists the run's tasks once and then works down that     *)
(* listing with the statuses it read. One such request is served at a time.*)
(***************************************************************************)
EXTENDS Board

OperIdle == oper.pc = "none"

\* Nothing but the store, hcom and the request itself is touched.
OperWrites == UNCHANGED <<driving, loop, tick, crashes>>
----------------------------------------------------------------------------
(* Requests on a workflow.                                                 *)

\* start stamps started_at; stop, stop-reset and resume set the lifecycle
\* before anything else; restart leaves the row for the end.
OpensRun(op, r) ==
  CASE op = "start" -> run' = [run EXCEPT ![r].started = TRUE]
    [] op \in {"stop", "stopReset"} -> SetLifecycle(r, "stopped")
    [] op = "resume" -> SetLifecycle(r, "active")
    [] op \in {"restart", "softRestart"} -> UNCHANGED run

OperOpensRun ==
  /\ OperIdle
  /\ \E op \in Ops \cap RunOp, r \in Runs :
       /\ OpensRun(op, r)
       /\ oper' = [NoOper EXCEPT !.op = op, !.run = r, !.pc = "list"]
  /\ UNCHANGED <<task, agents, beating, merged>>
  /\ OperWrites

\* The tasks of its listing each verb acts on.
Listed(r, S) == TasksOf(r) \cap WithStatus(S)

StopLists(r) == Listed(r, InFlightStatus)
StopResetLists(r) == Listed(r, Status \ {"done", "pending"})
ResumeLists(r) == Listed(r, {"blocked"})
RestartLists(r, kept) == Listed(r, Status \ ({"pending"} \cup kept))

\* start counts a dependency as done only if it is in the listing too.
StartLists(r) == {t \in Listed(r, {"pending"}) : Deps[t] \subseteq Listed(r, {"done"})}

Affected(op, r) ==
  CASE op = "stop"        -> StopLists(r)
    [] op = "stopReset"   -> StopResetLists(r)
    [] op = "resume"      -> ResumeLists(r)
    [] op = "restart"     -> RestartLists(r, {})
    [] op = "softRestart" -> RestartLists(r, {"done"})
    [] op = "start"       -> StartLists(r)

\* Where the request is with todo still to handle.
Serving(todo) ==
  IF todo # {} THEN [oper EXCEPT !.pc = "each", !.todo = todo]
  ELSE IF oper.op \in {"restart", "softRestart"}
       THEN [oper EXCEPT !.pc = "close", !.todo = {}]
       ELSE NoOper

\* list_run_tasks. Agents are killed for the tasks listed in flight.
OperLists ==
  /\ oper.pc = "list"
  /\ oper' = [Serving(Affected(oper.op, oper.run)) EXCEPT
                !.cut = TasksOf(oper.run) \cap InFlight
                          \cap Affected(oper.op, oper.run)]
  /\ UNCHANGED <<task, run, agents, beating, merged>>
  /\ OperWrites

\* restart ends with clear_run_started.
OperCloses ==
  /\ oper.pc = "close"
  /\ run' = [run EXCEPT ![oper.run] = [lifecycle |-> "active", started |-> FALSE]]
  /\ oper' = NoOper
  /\ UNCHANGED <<task, agents, beating, merged>>
  /\ OperWrites
----------------------------------------------------------------------------
(* Requests on a task.                                                     *)

\* retry and guide look at the task and its run first: the task has to be
\* blocked, the run must not be stopped.
Revivable(t) ==
  /\ StatusOf(t) = "blocked"
  /\ RunOf[t] = NoRun \/ run[RunOf[t]].lifecycle = "active"

OperOpensTask ==
  /\ OperIdle
  /\ \E op \in Ops \cap TaskOp, t \in Tasks :
       /\ op \in {"retry", "guide"} => Revivable(t)
       /\ oper' = [NoOper EXCEPT !.op = op, !.pc = "each", !.todo = {t},
                                 !.cut = IF op = "guide" THEN {} ELSE {t}]
  /\ UNCHANGED <<task, run, agents, beating, merged>>
  /\ OperWrites
----------------------------------------------------------------------------
(* Working down the list.                                                  *)

\* The kill comes first and is best-effort.
OperKills ==
  /\ oper.pc = "each"
  /\ \E t \in Heads(oper.todo) \cap oper.cut :
       /\ KillTag(t) \/ UNCHANGED agents
       /\ oper' = [oper EXCEPT !.cut = @ \ {t}]
  /\ UNCHANGED <<task, run, beating, merged>>
  /\ OperWrites

\* What becomes of each task; a refused transition is logged or returned.
Apply(op, t) ==
  IF op \in {"stopReset", "resume", "restart", "softRestart", "retry"}
  THEN Reset(t)
  ELSE /\ Transition(t, CASE op = "stop"   -> "Reclaim"
                          [] op = "start"  -> "Ready"
                          [] op = "cancel" -> "Block"
                          [] op = "guide"  -> "Revive")
       /\ UNCHANGED <<beating, merged>>

OperApplies ==
  /\ oper.pc = "each"
  /\ \E t \in Heads(oper.todo) \ oper.cut :
       /\ Apply(oper.op, t)
       /\ oper' = Serving(oper.todo \ {t})
  /\ UNCHANGED <<run, agents>>
  /\ OperWrites

\* A request under way.
OperStep == OperLists \/ OperKills \/ OperApplies \/ OperCloses
----------------------------------------------------------------------------
(* Requests of a single write.                                             *)

\* The plain lifecycle routes: ready, claim, gate, done, block.
OperMoves ==
  /\ \E t \in Tasks, kind \in Ops \cap {"Ready", "Claim", "Gate", "Done", "Block"} :
       CanMove(t, kind) /\ Transition(t, kind)
  /\ UNCHANGED <<run, agents, beating, merged, oper>>
  /\ OperWrites

\* The heartbeat route stamps a task of any status.
Heartbeats ==
  /\ "heartbeat" \in Ops
  /\ \E t \in Tasks : beating' = beating \cup {t}
  /\ UNCHANGED <<task, run, agents, merged, oper>>
  /\ OperWrites
============================================================================
