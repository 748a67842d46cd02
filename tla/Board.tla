------------------------------- MODULE Board -------------------------------
(***************************************************************************)
(* What the scheduler, the drive loops and the HTTP handlers share: the    *)
(* store's task and run rows, hcom's table of agents, the in-memory set of *)
(* tasks that have a drive loop, and each actor's program counter.         *)
(*                                                                         *)
(* The store reading a row, changing it and writing it back is one atomic  *)
(* step; everything a caller does across an await is several.              *)
(***************************************************************************)
EXTENDS Naturals, FiniteSets, TaskStatus

CONSTANTS
  Tasks,        \* the tasks on the board
  Runs,         \* the workflows
  NoRun,        \* the parent of a standalone task
  NoTask,       \* "no task in hand"
  RunOf,        \* task -> its workflow, or NoRun
  Deps,         \* task -> the tasks it depends on
  ListRank,     \* task -> its place in a store listing (record-id order)
  SharedTree,   \* the tasks whose effective worktree mode is Shared
  Concurrency,  \* EngineConfig.concurrency
  RetryCap,     \* task -> max_retries of its armed auto-retry, 0 if none
  Ops,          \* the operator requests that may arrive
  MaxAgents,    \* bound: a spawn past this many agents on a tag fails
  MaxCrashes    \* bound: how often the daemon dies

ASSUME BoardAssumption ==
  /\ IsFiniteSet(Tasks)
  /\ NoTask \notin Tasks
  /\ NoRun \notin Runs
  /\ RunOf \in [Tasks -> Runs \cup {NoRun}]
  /\ Deps \in [Tasks -> SUBSET Tasks]
  /\ ListRank \in [Tasks -> Nat]
  /\ SharedTree \subseteq Tasks
  /\ Concurrency \in Nat
  /\ RetryCap \in [Tasks -> Nat]
  /\ MaxAgents \in Nat
  /\ MaxCrashes \in Nat

VARIABLES
  task,      \* the task rows: status and spent auto-retries
  run,       \* the run rows: lifecycle and whether started_at is set
  agents,    \* hcom's table: how many agents of each state carry a tag
  beating,   \* the tasks whose heartbeat is younger than stale_after_secs
  driving,   \* the Driving set: tasks this process has a drive loop for
  loop,      \* the drive loops
  tick,      \* the supervisor's tick: program counter and locals
  oper,      \* the operator request being served
  merged,    \* history: tasks whose branch landed since their last reset
  crashes    \* how often the daemon has died

vars == <<task, run, agents, beating, driving, loop, tick, oper, merged,
          crashes>>
----------------------------------------------------------------------------
(* Types.                                                                  *)

TaskRow == [status: Status, retries: Nat]

RunRow == [lifecycle: {"active", "stopped"}, started: BOOLEAN]

\* What hcom says of an agent. A launching agent is not listed yet; a parked
\* one is listed as listening or idle; a wedged one never got past startup.
\* An agent that exits leaves the table: one that hcom still lists as dead is
\* parked for a loop and gone for the tick, as if it parked and then left.
AgentState == {"launching", "working", "parked", "wedged"}
Registered == AgentState \ {"launching"}

NoAgents == [s \in AgentState |-> 0]

\* The drive loop's program counter; "off" is a free slot.
LoopPc == {"off", "await", "signalled", "gate", "land", "record",
           "block", "bump", "revive", "exit"}
LoopState == [pc: LoopPc, seen: BOOLEAN]
NoLoop == [pc |-> "off", seen |-> FALSE]

\* Room for a second loop on a task, so that "at most one" can be wrong.
Copy == {1, 2}

\* The tick's program counter, in the order of a pass, then the steps of a
\* block() it calls. "pass" is the loop it is in.
TickPc == {"idle", "sweep", "reconcile", "reap", "orphans", "reattach",
           "excluded", "newlyReady", "promote",
           "countRunning", "countGating", "listReady", "listRunning",
           "consider", "spawn", "claim", "block", "bump", "revive"}
TickState == [pc: TickPc, pass: {"running", "gating", "claim"},
              todo: SUBSET Tasks, cur: Tasks \cup {NoTask},
              live: SUBSET Tasks, wedged: SUBSET Tasks, slots: Nat,
              known: SUBSET Runs, goes: SUBSET Runs, busy: SUBSET Runs]
NoTick == [pc |-> "idle", pass |-> "running", todo |-> {}, cur |-> NoTask,
           live |-> {}, wedged |-> {}, slots |-> 0,
           known |-> {}, goes |-> {}, busy |-> {}]

RunOp == {"stop", "stopReset", "resume", "restart", "softRestart", "start"}
TaskOp == {"cancel", "retry", "guide"}

\* A request being served: the tasks of its listing still to be handled and
\* those of them whose agent is still to be killed.
OperState == [op: RunOp \cup TaskOp \cup {"none"}, run: Runs \cup {NoRun},
              pc: {"none", "list", "each", "close"},
              todo: SUBSET Tasks, cut: SUBSET Tasks]
NoOper == [op |-> "none", run |-> NoRun, pc |-> "none", todo |-> {}, cut |-> {}]
----------------------------------------------------------------------------
(* Reading the board.                                                      *)

StatusOf(t) == task[t].status
WithStatus(S) == {t \in Tasks : StatusOf(t) \in S}
InFlight == WithStatus(InFlightStatus)
TasksOf(r) == {t \in Tasks : RunOf[t] = r}

\* array::all over the depends_on edges: every dependency is done.
DepsDone(t) == \A d \in Deps[t] : StatusOf(d) = "done"

\* The run row is Active and has a started_at.
RunGoes(r) == run[r].lifecycle = "active" /\ run[r].started

\* The head of a listing, which comes in record-id order.
Heads(S) == {t \in S : \A u \in S : ListRank[t] <= ListRank[u]}

Has(t, S) == \E s \in S : agents[t][s] > 0
AgentCount(t) == agents[t]["launching"] + agents[t]["working"]
                 + agents[t]["parked"] + agents[t]["wedged"]
----------------------------------------------------------------------------
(* The store's verbs.                                                      *)

CanMove(t, kind) == Legal(StatusOf(t), kind)

\* transition_task: the row moves to the target, or the call is refused and
\* nothing is written. The caller tells the two apart with CanMove.
Transition(t, kind) ==
  task' = IF CanMove(t, kind)
          THEN [task EXCEPT ![t].status = Target[kind]]
          ELSE task

\* bump_retry_count.
BumpRetries(t) == task' = [task EXCEPT ![t].retries = @ + 1]

\* Mutant: the reset gives back one attempt instead of all of them.
ResetRefunds(t) ==
  /\ task' = [task EXCEPT ![t] = [status |-> "pending", retries |-> @.retries - 1]]
  /\ merged' = merged \ {t}
  /\ beating' = beating \ {t}

\* reset_task: back to pending from any status, with a fresh retry budget.
\* The landing of an earlier attempt no longer counts for the task.
Reset(t) ==
  /\ task' = [task EXCEPT ![t] = [status |-> "pending", retries |-> 0]]
  /\ merged' = merged \ {t}
  /\ beating' = beating \ {t}

\* Mutant: the cap is compared off by one.
BlockThenOnceMore(t, over) ==
  IF CanMove(t, "Block") /\ task[t].retries <= RetryCap[t] THEN "bump" ELSE over

\* Block a task as block() does: the step after a refused or final Block is
\* over, a task with retry budget left goes on to bump and revive.
BlockThen(t, over) ==
  IF CanMove(t, "Block") /\ task[t].retries < RetryCap[t] THEN "bump" ELSE over

\* set_lifecycle.
SetLifecycle(r, l) == run' = [run EXCEPT ![r].lifecycle = l]
----------------------------------------------------------------------------
(* hcom's verbs.                                                           *)

\* hcom kill tag:<task> --go.
KillTag(t) == agents' = [agents EXCEPT ![t] = NoAgents]

\* One agent of task t goes from state s to state u.
AgentMoves(t, s, u) ==
  agents' = [agents EXCEPT ![t][s] = @ - 1, ![t][u] = @ + 1]

AgentLeaves(t, s) == agents' = [agents EXCEPT ![t][s] = @ - 1]
============================================================================
