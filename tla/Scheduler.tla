----------------------------- MODULE Scheduler -----------------------------
(***************************************************************************)
(* The daemon: the tick, the drive loops and the HTTP handlers over one    *)
(* store, the agents they spawn, and the daemon's own death and restart.   *)
(***************************************************************************)
EXTENDS Tick, OperatorApi

\* A board as it is created: every workflow active, started unless a start
\* request is among those that may arrive.
Init ==
  /\ task = [t \in Tasks |-> [status |-> "pending", retries |-> 0]]
  /\ run = [r \in Runs |-> [lifecycle |-> "active", started |-> "start" \notin Ops]]
  /\ agents = [t \in Tasks |-> NoAgents]
  /\ beating = {}
  /\ driving = {}
  /\ loop = [t \in Tasks |-> [k \in Copy |-> NoLoop]]
  /\ tick = NoTick
  /\ oper = NoOper
  /\ merged = {}
  /\ crashes = 0
----------------------------------------------------------------------------
(* The agents.                                                             *)

AgentsOnly == UNCHANGED <<task, run, beating, driving, tick, oper, merged, crashes>>

\* A launched agent comes up, or its screen settles on a prompt.
AgentRegisters(t) ==
  /\ agents[t]["launching"] > 0
  /\ \E s \in {"working", "wedged"} : AgentMoves(t, "launching", s)
  /\ UNCHANGED loop
  /\ AgentsOnly

\* DONE or BLOCKED is posted while a loop listens.
AgentPosts(t) ==
  /\ agents[t]["working"] > 0
  /\ AgentMoves(t, "working", "parked")
  /\ \E k \in Copy, pc \in {"signalled", "block"} :
       LoopAt(t, k, "await") /\ LoopGoes(t, k, pc)
  /\ AgentsOnly

\* An agent stops working without a word, or with one that falls between two
\* waits of the loop: hcom's wait does not replay what it missed.
AgentParks(t) ==
  /\ agents[t]["working"] > 0
  /\ AgentMoves(t, "working", "parked")
  /\ UNCHANGED loop
  /\ AgentsOnly

\* It begins another turn.
AgentWakes(t) ==
  /\ agents[t]["parked"] > 0
  /\ AgentMoves(t, "parked", "working")
  /\ UNCHANGED loop
  /\ AgentsOnly

\* It exits or crashes, at any time.
AgentExits(t) ==
  /\ \E s \in AgentState : agents[t][s] > 0 /\ AgentLeaves(t, s)
  /\ UNCHANGED loop
  /\ AgentsOnly

AgentStep(t) ==
  \/ AgentRegisters(t)
  \/ AgentPosts(t)
  \/ AgentParks(t)
  \/ AgentWakes(t)
  \/ AgentExits(t)
----------------------------------------------------------------------------
(* Time and failure.                                                       *)

\* A heartbeat grows older than stale_after_secs.
HeartbeatStales ==
  /\ \E t \in beating : beating' = beating \ {t}
  /\ UNCHANGED <<task, run, agents, driving, loop, tick, oper, merged, crashes>>

\* The daemon dies and restarts. The store, hcom and its agents live on; the
\* loops, the Driving set, the tick and the request being served do not.
Crash ==
  /\ crashes < MaxCrashes
  /\ crashes' = crashes + 1
  /\ driving' = {}
  /\ loop' = [t \in Tasks |-> [k \in Copy |-> NoLoop]]
  /\ tick' = NoTick
  /\ oper' = NoOper
  /\ UNCHANGED <<task, run, agents, beating, merged>>
----------------------------------------------------------------------------
Next ==
  \/ TickStep
  \/ \E t \in Tasks, k \in Copy : LoopStep(t, k)
  \/ \E t \in Tasks : AgentStep(t)
  \/ OperOpensRun
  \/ OperOpensTask
  \/ OperStep
  \/ OperMoves
  \/ Heartbeats
  \/ HeartbeatStales
  \/ Crash

Spec == Init /\ [][Next]_vars

\* The supervisor loop ticks for as long as the daemon lives; a drive loop is
\* a tokio task that only ever waits for hcom, with a ceiling; a handler runs
\* to its end once called. Nothing is assumed of agents, operators or hcom.
Fairness ==
  /\ WF_vars(TickStep)
  /\ \A t \in Tasks, k \in Copy : WF_vars(LoopStep(t, k))
  /\ WF_vars(OperStep)

FairSpec == Spec /\ Fairness

\* The supervisor's loop alone.
TickingSpec == Spec /\ WF_vars(TickStep)
----------------------------------------------------------------------------
(* Safety.                                                                 *)

\* Every variable keeps to its type, and the agents of a task to their bound
\* (all modules).
TypeOK ==
  /\ task \in [Tasks -> TaskRow]
  /\ run \in [Runs -> RunRow]
  /\ agents \in [Tasks -> [AgentState -> Nat]]
  /\ beating \subseteq Tasks
  /\ driving \subseteq Tasks
  /\ loop \in [Tasks -> [Copy -> LoopState]]
  /\ tick \in TickState
  /\ oper \in OperState
  /\ merged \subseteq Tasks
  /\ crashes \in 0..MaxCrashes

\* The Driving set tells exactly which tasks have a loop, and no task ever
\* has two, whatever claims, recoveries and restarts interleave
\* (finish.rs, Driving and spawn_resume).
DrivenOnce ==
  \A t \in Tasks :
    /\ t \in driving <=> \E k \in Copy : LoopActive(t, k)
    /\ ~(LoopActive(t, 1) /\ LoopActive(t, 2))

\* Never more tasks in flight than the configured concurrency, though the
\* budget is counted with two queries long before the last claim it allows
\* (tick.rs, budget and claim_and_spawn).
WithinBudget == Cardinality(InFlight) <= Concurrency

\* A task is done only if its own branch landed in this attempt: a stop, a
\* reset or a re-claim in the middle of a landing cannot make an unlanded
\* attempt count (finish.rs, gate_and_land).
DoneIsMerged == WithStatus({"done"}) \subseteq merged

\* A gating task is not left to a loop that waits for its agent, which is
\* gone or silent by then: its loop, if it has one, is at the gate or past it
\* (finish.rs, resume and drive; tick.rs, reattach_orphans).
GatingIsAtGate ==
  \A t \in WithStatus({"gating"}), k \in Copy :
    loop[t][k].pc \in {"off", "gate", "land", "record", "block"}

\* Work starts after what it depends on: a task that is ready or in flight
\* has only finished dependencies (depend.rs, newly_ready).
DepsBeforeWork ==
  \A t \in WithStatus({"ready"} \cup InFlightStatus) : DepsDone(t)

\* The tasks of a Shared run take turns: at most one of them is running
\* (tick.rs, busy_shared_runs).
OneRunsPerSharedTree ==
  \A t, u \in SharedTree \cap WithStatus({"running"}) :
    RunOf[t] = RunOf[u] => t = u \/ RunOf[t] = NoRun

\* The hands-off retries of a task overrun its cap by one at most: the cap is
\* compared when the task is blocked, the counter is bumped later, and both a
\* loop and the tick may be between the two (block.rs).
RetriesNearCap == \A t \in Tasks : task[t].retries <= RetryCap[t] + 1
----------------------------------------------------------------------------
(* What the comments promise of stops, shared trees and start-up.          *)

\* Once a stop has been served the workflow has nothing in flight: "the
\* scheduler promotes and claims nothing for it" (workflows_stop.rs).
StoppedIsQuiet ==
  OperIdle => \A t \in InFlight :
                RunOf[t] # NoRun => run[RunOf[t]].lifecycle = "active"

\* A Shared task that was held back starts "once the sibling lands": no two
\* tasks of a Shared run are in flight together (tick.rs).
SharedTreeHeldUntilLanded ==
  \A t, u \in SharedTree \cap InFlight :
    RunOf[t] = RunOf[u] => t = u \/ RunOf[t] = NoRun

\* A loop does not take an agent that has not registered yet for one that
\* exited (finish.rs, await_signal on "seen").
StartupIsNotExit ==
  [][\A t \in Tasks, k \in Copy :
       LoopAt(t, k, "await") /\ loop'[t][k].pc = "signalled" /\ ~Has(t, Registered)
         => agents[t]["launching"] = 0]_vars
----------------------------------------------------------------------------
(* Liveness.                                                               *)

\* No task stays in flight forever, whatever happened to its agent and
\* whenever the daemon died (tick.rs, reattach_orphans; finish.rs).
NoneStaysInFlight ==
  \A t \in Tasks : t \in InFlight ~> t \notin InFlight

Promotable(t) ==
  /\ StatusOf(t) = "pending"
  /\ DepsDone(t)
  /\ RunOf[t] # NoRun => RunGoes(RunOf[t])

\* Time and again nothing is left behind that may be promoted: a task whose
\* dependencies land gets its turn, whatever an earlier tick listed, wherever
\* the daemon died, and whatever its loops and agents are at, which owe nobody
\* a step here (tick.rs, promote).
ReadyIsPromoted == []<>(\A t \in Tasks : ~Promotable(t))

\* With nothing in flight, a ready task of a workflow that goes is not left
\* ready forever: the tasks of a paused workflow, which are ready too but may
\* not be claimed, do not "starve the others" (tick.rs, claim_and_spawn).
IdleSlotIsUsed ==
  \A t \in Tasks :
    []<>~(/\ InFlight = {}
          /\ StatusOf(t) = "ready"
          /\ RunOf[t] # NoRun => RunGoes(RunOf[t]))
----------------------------------------------------------------------------
(* Left to itself the scheduler does what the plan says.                   *)

phase == [t \in Tasks |->
            CASE StatusOf(t) \in {"pending", "ready"} -> "waiting"
              [] StatusOf(t) \in InFlightStatus -> "underway"
              [] StatusOf(t) = "blocked" -> "stuck"
              [] StatusOf(t) = "done" -> "done"]

P == INSTANCE Plan WITH landed <- merged

\* Every step of the daemon is a step of the plan or changes nothing in it
\* (all modules).
FollowsPlan == P!Spec
============================================================================
